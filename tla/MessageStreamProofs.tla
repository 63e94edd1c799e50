------------------------- MODULE MessageStreamProofs -------------------------
(***************************************************************************)
(* Proofs about MessageStream, for any number of envelopes and faults, any *)
(* capacity and any set of over-long envelopes.                            *)
(***************************************************************************)
EXTENDS MessageStream, SequenceTheorems, TLAPS

(* The envelope the caller is to see next.                                 *)
Expected == since + Len(Sent) + 1

Whole(line) == line.field = "data" /\ line.text = "whole"

(* An envelope, or a line that the scanner refuses, is on its way.         *)
InFlight == \E i \in 1..Len(lines) : Whole(lines[i])
Stuck == \E i \in 1..Len(lines) : TooLong(lines[i])

LogInv ==
    /\ next <= published + 1
    /\ since <= published

(* An envelope on its way is the only one, and the one to be seen next.    *)
FlightInv ==
    /\ \A i, j \in 1..Len(lines) : Whole(lines[i]) /\ Whole(lines[j]) => i = j
    /\ \A i \in 1..Len(lines) : Whole(lines[i]) => lines[i].seq = Expected
    /\ InFlight => env = 0 /\ next = Expected + 1 /\ ~Stuck
    /\ env # 0 => env = Expected /\ next = Expected + 1
    /\ conn = "open" /\ pc = "scan" /\ ~Stuck /\ ~InFlight => next = Expected
    /\ Stuck => Oversize # {}

PhaseInv ==
    /\ pc \in {"idle", "scan", "send", "return", "done"}
    /\ pc = "idle" => lines = <<>> /\ got = <<>> /\ events = <<>> /\ env = 0
    /\ pc = "scan" => env = 0
    /\ pc = "send" => env # 0 /\ ~Stuck
    /\ pc \in {"scan", "send"} => defers = <<"body", "events">>
    /\ pc = "return" => defers # <<>>
    /\ pc \in {"return", "done"} => cancelled \/ conn \in {"eof", "reset"} \/ Stuck

IndInv == TypeOK /\ LogInv /\ FlightInv /\ PhaseInv /\ LiveAndContiguous

-----------------------------------------------------------------------------
(* Lines and sequences. *)

(* The head and the tail of what is on its way.                            *)
LEMMA NonEmpty ==
    ASSUME NEW S, NEW s \in Seq(S), s # <<>>
    PROVE  /\ Len(s) \in Nat /\ Len(s) >= 1 /\ Head(s) = s[1] /\ Head(s) \in S
           /\ Tail(s) \in Seq(S) /\ Len(Tail(s)) = Len(s) - 1
           /\ \A i \in 1..(Len(s) - 1) : Tail(s)[i] = s[i + 1]
<1>1. Len(s) \in Nat /\ Len(s) # 0
  BY EmptySeq
<1> QED
  BY <1>1, HeadTailProperties

(* What survives a disconnect: a prefix, whose last line may be cut.       *)
LEMMA Remains ==
    ASSUME NEW ls \in Seq(Line), NEW r \in Remainders(ls)
    PROVE  /\ r \in Seq(Line) /\ Len(r) <= Len(ls)
           /\ \A i \in 1..Len(r) : r[i] = ls[i] \/ r[i].text \notin {"whole", "long"}
<1>1. ASSUME NEW line \in Line, NEW c \in Cuts(line)
      PROVE  c \in Line /\ c.text \notin {"whole", "long"}
  <2>1. CASE line.field \in {"data", "event"}
    <3>1. c = [line EXCEPT !.text = "cut"]
      BY <2>1 DEF Cuts
    <3> QED
      BY <3>1 DEF Line, Texts
  <2>2. CASE line.field = "id"
    <3>1. PICK m \in 0..(line.seq - 1) : c = Id(m)
      BY <2>2 DEF Cuts
    <3>2. m \in Nat
      BY DEF Line
    <3> QED
      BY <3>1, <3>2 DEF Line, Texts, Id
  <2>3. CASE line.field \notin {"data", "event", "id"}
    BY <2>3 DEF Cuts
  <2> QED
    BY <2>1, <2>2, <2>3
<1>2. CASE \E k \in 0..Len(ls) : r = SubSeq(ls, 1, k)
  BY <1>2
<1>3. CASE \E k \in 1..Len(ls) : \E c \in Cuts(ls[k]) : r = Append(SubSeq(ls, 1, k - 1), c)
  <2>1. PICK k \in 1..Len(ls) : \E c \in Cuts(ls[k]) : r = Append(SubSeq(ls, 1, k - 1), c)
    BY <1>3
  <2>2. PICK c \in Cuts(ls[k]) : r = Append(SubSeq(ls, 1, k - 1), c)
    BY <2>1
  <2>3. c \in Line /\ c.text \notin {"whole", "long"}
    BY <1>1
  <2>4. /\ SubSeq(ls, 1, k - 1) \in Seq(Line) /\ Len(SubSeq(ls, 1, k - 1)) = k - 1
        /\ \A i \in 1..(k - 1) : SubSeq(ls, 1, k - 1)[i] = ls[i]
    OBVIOUS
  <2>5. /\ r \in Seq(Line) /\ Len(r) = k /\ r[k] = c
        /\ \A i \in 1..(k - 1) : r[i] = ls[i]
    BY <2>2, <2>3, <2>4
  <2> QED
    BY <2>3, <2>5
<1> QED
  BY <1>2, <1>3 DEF Remainders

(* What was sent, by position.                                             *)
LEMMA SentFacts ==
    ASSUME TypeOK
    PROVE  /\ Len(got) \in Nat /\ Len(events) \in Nat /\ Len(Sent) = Len(got) + Len(events)
           /\ \A i \in 1..Len(got) : Sent[i] = got[i]
           /\ \A i \in 1..Len(events) : Sent[Len(got) + i] = events[i]
<1>1. got \in Seq(1..MaxPublished) /\ events \in Seq(1..MaxPublished)
  BY DEF TypeOK
<1>2. /\ Len(got \o events) = Len(got) + Len(events) /\ Len(got) \in Nat /\ Len(events) \in Nat
      /\ \A i \in 1..(Len(got) + Len(events)) :
            (got \o events)[i] = IF i <= Len(got) THEN got[i] ELSE events[i - Len(got)]
  BY <1>1
<1>3. ASSUME NEW i \in 1..Len(events) PROVE (got \o events)[Len(got) + i] = events[i]
  <2>1. Len(got) + i \in 1..(Len(got) + Len(events)) /\ ~(Len(got) + i <= Len(got)) /\ (Len(got) + i) - Len(got) = i
    BY <1>2
  <2> QED
    BY <1>2, <2>1
<1> QED
  BY <1>2, <1>3 DEF Sent

(* Receiving moves an envelope from the channel to the caller.             *)
LEMMA SentReceived ==
    ASSUME TypeOK, events # <<>>, events' = Tail(events), got' = Append(got, Head(events))
    PROVE  /\ got' \in Seq(1..MaxPublished) /\ events' \in Seq(1..MaxPublished)
           /\ Len(events') = Len(events) - 1 /\ Sent' = Sent
<1>1. got \in Seq(1..MaxPublished) /\ events \in Seq(1..MaxPublished)
  BY DEF TypeOK
<1>2. /\ Len(events) \in Nat /\ Len(events) >= 1 /\ Head(events) = events[1] /\ Head(events) \in 1..MaxPublished
      /\ Tail(events) \in Seq(1..MaxPublished) /\ Len(Tail(events)) = Len(events) - 1
      /\ \A i \in 1..(Len(events) - 1) : Tail(events)[i] = events[i + 1]
  BY <1>1, NonEmpty
<1>3. got' \in Seq(1..MaxPublished) /\ events' \in Seq(1..MaxPublished)
  BY <1>1, <1>2
<1>4. got' \o events' = got \o events
  BY <1>1, <1>2
<1> QED
  BY <1>2, <1>3, <1>4 DEF Sent

(* Sending puts one behind it.                                             *)
LEMMA SentSends ==
    ASSUME TypeOK, NEW n \in 1..MaxPublished, events' = Append(events, n), got' = got
    PROVE  /\ events' \in Seq(1..MaxPublished) /\ Len(events') = Len(events) + 1
           /\ Len(Sent) \in Nat /\ Len(Sent') = Len(Sent) + 1 /\ Sent'[Len(Sent) + 1] = n
           /\ \A i \in 1..Len(Sent) : Sent'[i] = Sent[i]
<1>1. got \in Seq(1..MaxPublished) /\ events \in Seq(1..MaxPublished)
  BY DEF TypeOK
<1>2. got \o Append(events, n) = Append(got \o events, n) /\ got \o events \in Seq(1..MaxPublished)
  BY <1>1
<1>3. PICK s : s = got \o events
  OBVIOUS
<1>4. s \in Seq(1..MaxPublished) /\ Sent = s /\ Sent' = Append(s, n)
  BY <1>2, <1>3 DEF Sent
<1> QED
  BY <1>1, <1>4

-----------------------------------------------------------------------------
(* Steps. *)

(* What a line or a frame that is gone leaves of the others.               *)
LEMMA FlightShrinks ==
    ASSUME IndInv, lines' \in Seq(Line), UNCHANGED <<since, Sent>>, NEW k \in {0, 1},
           \A i \in 1..Len(lines') :
              /\ i + k \in 1..Len(lines)
              /\ lines'[i] = lines[i + k] \/ lines'[i].text \notin {"whole", "long"}
    PROVE  /\ \A i, j \in 1..Len(lines') : Whole(lines'[i]) /\ Whole(lines'[j]) => i = j
           /\ \A i \in 1..Len(lines') : Whole(lines'[i]) => lines'[i].seq = Expected'
           /\ InFlight' => InFlight
           /\ Stuck' => Stuck
<1>1. /\ \A i, j \in 1..Len(lines) : Whole(lines[i]) /\ Whole(lines[j]) => i = j
      /\ \A i \in 1..Len(lines) : Whole(lines[i]) => lines[i].seq = Expected
      /\ Expected' = Expected
  BY DEF IndInv, FlightInv, Expected
<1>2. Len(lines') \in Nat
  OBVIOUS
<1>3. \A i \in 1..Len(lines') : Whole(lines'[i]) => lines'[i] = lines[i + k] /\ Whole(lines[i + k])
  BY DEF Whole
<1>4. \A i \in 1..Len(lines') : TooLong(lines'[i]) => lines'[i] = lines[i + k] /\ TooLong(lines[i + k])
  BY DEF TooLong
<1>5. \A i, j \in 1..Len(lines') : Whole(lines'[i]) /\ Whole(lines'[j]) => i = j
  BY <1>1, <1>2, <1>3
<1>6. \A i \in 1..Len(lines') : Whole(lines'[i]) => lines'[i].seq = Expected'
  BY <1>1, <1>3
<1>7. InFlight' => InFlight
  BY <1>3 DEF InFlight
<1>8. Stuck' => Stuck
  BY <1>4 DEF Stuck
<1> QED
  BY <1>5, <1>6, <1>7, <1>8

(* The stream as it was, with another phase or another log.                *)
LEMMA FlightStays ==
    ASSUME IndInv, UNCHANGED <<lines, env, since, Sent, next, conn>>, pc' = "scan" => pc = "scan"
    PROVE  FlightInv' /\ LiveAndContiguous' /\ Stuck' = Stuck /\ InFlight' = InFlight
<1>1. Stuck' = Stuck /\ InFlight' = InFlight /\ Expected' = Expected
  BY DEF Stuck, InFlight, Expected
<1>2. FlightInv'
  BY <1>1 DEF IndInv, FlightInv
<1> QED
  BY <1>1, <1>2 DEF IndInv, LiveAndContiguous

(* Where the numbers are.                                                  *)
LEMMA Numbers ==
    ASSUME IndInv
    PROVE  /\ published \in Nat /\ published <= MaxPublished /\ MaxPublished \in Nat
           /\ next \in Nat /\ since \in Nat /\ Len(Sent) \in Nat
           /\ Expected \in Nat /\ Expected > 0
           /\ env # 0 \/ InFlight => Expected \in 1..MaxPublished
<1>1. /\ published \in Nat /\ published <= MaxPublished /\ MaxPublished \in Nat
      /\ next \in Nat /\ since \in Nat /\ next <= published + 1
  BY BoundsAssumption DEF IndInv, TypeOK, SSETypeOK, LogInv
<1>2. Len(Sent) \in Nat
  BY SentFacts DEF IndInv
<1>3. Expected \in Nat /\ Expected > 0
  BY <1>1, <1>2 DEF Expected
<1>4. env # 0 \/ InFlight => next = Expected + 1
  BY DEF IndInv, FlightInv
<1> QED
  BY <1>1, <1>2, <1>3, <1>4
(* The initial state.                                                      *)
LEMMA InitInv == Init => IndInv
<1> SUFFICES ASSUME Init PROVE IndInv
  OBVIOUS
<1>1. /\ published = 0 /\ next = 1 /\ lines = <<>> /\ conn = "none" /\ faults = 0 /\ cancelled = FALSE
      /\ reading = TRUE /\ pc = "idle" /\ defers = <<>> /\ env = 0 /\ events = <<>> /\ got = <<>> /\ since = 0
  BY DEF Init, SSEInit
<1>2. Sent = <<>> /\ Len(Sent) = 0
  BY <1>1 DEF Sent
<1>3. TypeOK
  <2>1. SSETypeOK
    <3>1. published \in 0..MaxPublished /\ next \in 1..MaxPublished + 1 /\ faults \in 0..MaxFaults
      BY <1>1, BoundsAssumption
    <3>2. lines \in Seq(Line) /\ defers \in Seq({"body", "errs", "events"})
      BY <1>1
    <3> QED
      BY <1>1, <3>1, <3>2, Zenon DEF SSETypeOK
  <2>2. <<>> \in Seq(1..MaxPublished) /\ Len(<<>>) = 0
    OBVIOUS
  <2>3. Len(events) <= Cap
    BY <1>1, <2>2, MessageAssumption
  <2> QED
    BY <1>1, <2>1, <2>2, <2>3, BoundsAssumption DEF TypeOK
<1>4. ~InFlight /\ ~Stuck
  BY <1>1 DEF InFlight, Stuck
<1>5. FlightInv
  BY <1>1, <1>4 DEF FlightInv
<1> QED
  BY <1>1, <1>2, <1>3, <1>4, <1>5 DEF IndInv, LogInv, PhaseInv, LiveAndContiguous

(* The daemon accepted the subscription.                                   *)
LEMMA SubscribeStep ==
    ASSUME IndInv, Subscribe
    PROVE  IndInv'
<1>1. /\ pc = "idle" /\ next' = published + 1 /\ lines' = <<>> /\ conn' = "open" /\ cancelled' = FALSE
      /\ reading' = TRUE /\ pc' = "scan" /\ defers' = <<"body", "events">> /\ since' = published
      /\ UNCHANGED <<published, faults, env, events, got>>
  BY DEF Subscribe, Connected
<1>2. got = <<>> /\ events = <<>> /\ env = 0 /\ TypeOK
  BY <1>1 DEF IndInv, PhaseInv
<1>3. Sent' = <<>> /\ Len(Sent') = 0
  BY <1>1, <1>2 DEF Sent
<1>4. TypeOK'
  <2>1. <<"body", "events">> \in Seq({"body", "errs", "events"}) /\ <<>> \in Seq(Line)
    OBVIOUS
  <2>2. published + 1 \in 1..MaxPublished + 1 /\ published \in 0..MaxPublished
    BY Numbers
  <2>3. SSETypeOK'
    BY <1>1, <1>2, <2>1, <2>2 DEF TypeOK, SSETypeOK
  <2> QED
    BY <1>1, <1>2, <2>2, <2>3 DEF TypeOK
<1>5. ~InFlight' /\ ~Stuck'
  BY <1>1 DEF InFlight, Stuck
<1>6. Expected' = published + 1
  BY <1>1, <1>3, Numbers DEF Expected
<1>7. FlightInv'
  BY <1>1, <1>2, <1>5, <1>6 DEF FlightInv
<1>8. LogInv' /\ LiveAndContiguous'
  BY <1>1, <1>3, Numbers DEF LogInv, LiveAndContiguous
<1>9. PhaseInv'
  BY <1>1, <1>2, <1>5 DEF PhaseInv
<1> QED
  BY <1>4, <1>7, <1>8, <1>9 DEF IndInv

(* Refused, Publish, Cancel: the stream itself does not move.              *)
LEMMA AsideStep ==
    ASSUME IndInv, UNCHANGED streamVars, SubscribeRefused \/ Publish \/ Cancel
    PROVE  IndInv'
<1>1. /\ UNCHANGED <<lines, env, since, got, events, next, conn, pc, defers>>
      /\ published' \in {published, published + 1} /\ published' <= MaxPublished
      /\ faults' \in 0..MaxFaults /\ cancelled' \in BOOLEAN /\ (cancelled => cancelled') /\ reading' \in BOOLEAN
  <2>1. /\ faults \in 0..MaxFaults /\ MaxFaults \in Nat /\ cancelled \in BOOLEAN /\ reading \in BOOLEAN
        /\ published \in 0..MaxPublished /\ UNCHANGED <<env, since, got, events>>
    BY BoundsAssumption DEF IndInv, TypeOK, SSETypeOK, streamVars
  <2>2. CASE SubscribeRefused
    BY <2>1, <2>2, BoundsAssumption DEF SubscribeRefused, Refused, Fault
  <2>3. CASE Publish
    BY <2>1, <2>3, BoundsAssumption DEF Publish
  <2>4. CASE Cancel
    <3>1. faults' \in 0..MaxFaults
      BY <2>1, <2>4 DEF Cancel, Fault
    <3> QED
      BY <2>1, <2>4, <3>1, BoundsAssumption DEF Cancel
  <2> QED
    BY <2>2, <2>3, <2>4
<1>2. Sent' = Sent
  BY <1>1 DEF Sent
<1>3. FlightInv' /\ LiveAndContiguous' /\ Stuck' = Stuck
  BY <1>1, <1>2, FlightStays
<1>4. TypeOK'
  BY <1>1, Numbers DEF IndInv, TypeOK, SSETypeOK
<1>5. LogInv'
  BY <1>1, Numbers DEF IndInv, LogInv
<1>6. PhaseInv'
  BY <1>1, <1>3 DEF IndInv, PhaseInv
<1> QED
  BY <1>3, <1>4, <1>5, <1>6 DEF IndInv

(* A line is taken from the scanner.                                       *)
LEMMA Scans ==
    ASSUME IndInv, NEW f, Scanning(f)
    PROVE  /\ pc = "scan" /\ UNCHANGED <<published, next, conn, faults, cancelled, reading, defers>>
           /\ lines' \in Seq(Line) /\ Head(lines) \in Line /\ Head(lines).field = f
           /\ Len(lines) \in Nat /\ Len(lines) >= 1 /\ Head(lines) = lines[1] /\ ~TooLong(lines[1])
           /\ Len(lines') = Len(lines) - 1
           /\ \A i \in 1..Len(lines') : i + 1 \in 1..Len(lines) /\ lines'[i] = lines[i + 1]
           /\ Stuck => Stuck'
           /\ Whole(lines[1]) \/ (InFlight => InFlight')
<1>1. lines \in Seq(Line) /\ lines # <<>> /\ lines' = Tail(lines)
  BY DEF IndInv, TypeOK, SSETypeOK, Scanning
<1>2. /\ Len(lines) \in Nat /\ Len(lines) >= 1 /\ Head(lines) = lines[1] /\ Head(lines) \in Line
      /\ lines' \in Seq(Line) /\ Len(lines') = Len(lines) - 1
      /\ \A i \in 1..(Len(lines) - 1) : lines'[i] = lines[i + 1]
  BY <1>1, NonEmpty
<1>3. ~TooLong(lines[1]) /\ Head(lines).field = f
  BY <1>2 DEF Scanning
<1>4. \A i \in 1..Len(lines) : i = 1 \/ (i - 1 \in 1..Len(lines') /\ lines'[i - 1] = lines[i])
  BY <1>2
<1>5. Stuck => Stuck'
  BY <1>3, <1>4 DEF Stuck
<1>6. Whole(lines[1]) \/ (InFlight => InFlight')
  BY <1>4 DEF InFlight
<1>7. \A i \in 1..Len(lines') : i + 1 \in 1..Len(lines) /\ lines'[i] = lines[i + 1]
  BY <1>2
<1> QED
  BY <1>2, <1>3, <1>5, <1>6, <1>7 DEF Scanning

(* A line that is no envelope is skipped.                                  *)
LEMMA SkipLineStep ==
    ASSUME IndInv, SkipLine
    PROVE  IndInv'
<1>1. PICK f : Scanning(f) /\ (f = "data" => Decode(Head(lines)) = 0)
  BY DEF SkipLine
<1>2. /\ pc = "scan" /\ UNCHANGED <<published, next, conn, faults, cancelled, reading, defers>>
      /\ lines' \in Seq(Line) /\ Head(lines).field = f /\ Head(lines) = lines[1]
      /\ Len(lines) \in Nat /\ Len(lines) >= 1
      /\ \A i \in 1..Len(lines') : i + 1 \in 1..Len(lines) /\ lines'[i] = lines[i + 1]
      /\ Stuck => Stuck'
      /\ Whole(lines[1]) \/ (InFlight => InFlight')
  BY <1>1, Scans
<1>3. UNCHANGED <<pc, env, events, got, since>> /\ Sent' = Sent
  BY DEF SkipLine, streamVars, Sent
<1>4. ~Whole(lines[1])
  <2> SUFFICES ASSUME Whole(lines[1]) PROVE FALSE
    OBVIOUS
  <2>1. f = "data" /\ Decode(lines[1]) = lines[1].seq
    BY <1>2 DEF Whole, Decode
  <2>2. 1 \in 1..Len(lines) /\ lines[1].seq = Expected
    BY <1>2 DEF IndInv, FlightInv
  <2> QED
    BY <1>1, <1>2, <2>1, <2>2, Numbers
<1>5. /\ \A i, j \in 1..Len(lines') : Whole(lines'[i]) /\ Whole(lines'[j]) => i = j
      /\ \A i \in 1..Len(lines') : Whole(lines'[i]) => lines'[i].seq = Expected'
      /\ InFlight' => InFlight
      /\ Stuck' => Stuck
  BY <1>2, <1>3, FlightShrinks
<1>6. Expected' = Expected
  BY <1>3 DEF Expected
<1>7. FlightInv'
  BY <1>2, <1>3, <1>4, <1>5, <1>6 DEF IndInv, FlightInv
<1>8. TypeOK' /\ LogInv' /\ LiveAndContiguous'
  BY <1>2, <1>3 DEF IndInv, TypeOK, SSETypeOK, LogInv, LiveAndContiguous
<1>9. PhaseInv'
  BY <1>2, <1>3, <1>5 DEF IndInv, PhaseInv
<1> QED
  BY <1>7, <1>8, <1>9 DEF IndInv

(* The envelope on its way is decoded.                                     *)
LEMMA ScanEnvelopeStep ==
    ASSUME IndInv, ScanEnvelope
    PROVE  IndInv'
<1>1. Scanning("data") /\ Decode(Head(lines)) # 0 /\ env' = Decode(Head(lines)) /\ pc' = "send"
      /\ UNCHANGED <<events, got, since>>
  BY DEF ScanEnvelope
<1>2. /\ pc = "scan" /\ UNCHANGED <<published, next, conn, faults, cancelled, reading, defers>>
      /\ lines' \in Seq(Line) /\ Head(lines).field = "data" /\ Head(lines) = lines[1]
      /\ Len(lines) \in Nat /\ Len(lines) >= 1 /\ Len(lines') = Len(lines) - 1
      /\ \A i \in 1..Len(lines') : i + 1 \in 1..Len(lines) /\ lines'[i] = lines[i + 1]
  BY <1>1, Scans
<1>3. Whole(lines[1]) /\ 1 \in 1..Len(lines) /\ env' = lines[1].seq
  BY <1>1, <1>2 DEF Decode, Whole
<1>4. InFlight /\ env' = Expected /\ next = Expected + 1 /\ ~Stuck
  BY <1>3 DEF InFlight, IndInv, FlightInv
<1>5. Sent' = Sent
  BY <1>1 DEF Sent
<1>6. Stuck' => Stuck
  BY <1>2, <1>5, <1>1, FlightShrinks
<1>7. ~InFlight'
  <2> SUFFICES ASSUME NEW i \in 1..Len(lines'), Whole(lines'[i]) PROVE FALSE
    BY DEF InFlight
  <2>1. i + 1 \in 1..Len(lines) /\ Whole(lines[i + 1]) /\ i + 1 # 1
    BY <1>2
  <2> QED
    BY <1>3, <2>1 DEF IndInv, FlightInv
<1>8. Expected' = Expected /\ Expected \in 1..MaxPublished
  BY <1>1, <1>4, <1>5, Numbers DEF Expected
<1>9. TypeOK'
  BY <1>1, <1>2, <1>4, <1>8 DEF IndInv, TypeOK, SSETypeOK
<1>10. FlightInv'
  <2>1. \A i \in 1..Len(lines') : ~Whole(lines'[i])
    BY <1>7 DEF InFlight
  <2> QED
    BY <1>1, <1>2, <1>4, <1>6, <1>7, <1>8, <2>1 DEF FlightInv
<1>11. LogInv' /\ LiveAndContiguous'
  BY <1>1, <1>2, <1>5 DEF IndInv, LogInv, LiveAndContiguous
<1>12. PhaseInv'
  BY <1>1, <1>2, <1>4, <1>6, <1>8 DEF IndInv, PhaseInv
<1> QED
  BY <1>9, <1>10, <1>11, <1>12 DEF IndInv

(* The envelope goes to the channel.                                       *)
LEMMA SendEnvelopeStep ==
    ASSUME IndInv, SendEnvelope
    PROVE  IndInv'
<1>1. /\ pc = "send" /\ Len(events) < Cap /\ events' = Append(events, env) /\ env' = 0 /\ pc' = "scan"
      /\ UNCHANGED <<published, next, lines, conn, faults, cancelled, reading, defers, got, since>>
  BY DEF SendEnvelope
<1>2. env = Expected /\ next = Expected + 1 /\ ~InFlight /\ ~Stuck /\ env \in 1..MaxPublished
  BY <1>1, Numbers DEF IndInv, FlightInv, PhaseInv
<1>3. /\ events' \in Seq(1..MaxPublished) /\ Len(events') = Len(events) + 1
      /\ Len(Sent) \in Nat /\ Len(Sent') = Len(Sent) + 1 /\ Sent'[Len(Sent) + 1] = env
      /\ \A i \in 1..Len(Sent) : Sent'[i] = Sent[i]
  BY <1>1, <1>2, SentSends DEF IndInv
<1>4. Expected' = Expected + 1 /\ ~InFlight' /\ ~Stuck'
  BY <1>1, <1>2, <1>3, Numbers DEF Expected, InFlight, Stuck
<1>5. TypeOK'
  <2>1. Len(events') <= Cap /\ Len(events) \in Nat
    BY <1>1, <1>3, MessageAssumption, SentFacts DEF IndInv
  <2> QED
    BY <1>1, <1>3, <2>1, Numbers DEF IndInv, TypeOK, SSETypeOK
<1>6. FlightInv'
  <2>1. \A i \in 1..Len(lines') : ~Whole(lines'[i])
    BY <1>4 DEF InFlight
  <2> QED
    BY <1>1, <1>2, <1>4, <2>1 DEF FlightInv
<1>7. LiveAndContiguous'
  <2>1. Sent'[Len(Sent) + 1] = since + (Len(Sent) + 1)
    BY <1>2, <1>3, Numbers DEF Expected
  <2>2. \A i \in 1..Len(Sent) : Sent[i] = since + i
    BY DEF IndInv, LiveAndContiguous
  <2>3. \A i \in 1..Len(Sent') : i \in 1..Len(Sent) \/ i = Len(Sent) + 1
    BY <1>3
  <2> QED
    BY <1>1, <1>3, <2>1, <2>2, <2>3 DEF LiveAndContiguous
<1>8. LogInv' /\ PhaseInv'
  BY <1>1, <1>4 DEF IndInv, LogInv, PhaseInv
<1> QED
  BY <1>5, <1>6, <1>7, <1>8 DEF IndInv
(* The goroutine leaves the loop: cancelled while it sends, or at the end  *)
(* of what it reads.                                                       *)
LEMMA LeaveStep ==
    ASSUME IndInv, SendCancelled \/ ScanEnd
    PROVE  IndInv'
<1>1. /\ pc \in {"scan", "send"} /\ pc' = "return"
      /\ UNCHANGED <<published, next, lines, conn, faults, cancelled, reading, defers, env, events, got, since>>
  BY DEF SendCancelled, ScanEnd, ScanEOF, ScanFails, streamVars
<1>2. cancelled \/ conn \in {"eof", "reset"} \/ Stuck
  <2>1. CASE SendCancelled
    BY <2>1 DEF SendCancelled
  <2>2. CASE ScanEnd /\ lines # <<>> /\ TooLong(Head(lines))
    <3>1. lines \in Seq(Line) /\ lines # <<>>
      BY <2>2 DEF IndInv, TypeOK, SSETypeOK
    <3>2. Head(lines) = lines[1] /\ 1 \in 1..Len(lines)
      BY <3>1, NonEmpty
    <3> QED
      BY <2>2, <3>2 DEF Stuck
  <2> QED
    BY <2>1, <2>2 DEF ScanEnd, ScanEOF, ScanFails
<1>3. Sent' = Sent
  BY <1>1 DEF Sent
<1>4. FlightInv' /\ LiveAndContiguous' /\ Stuck' = Stuck
  BY <1>1, <1>3, FlightStays
<1>5. TypeOK' /\ LogInv'
  BY <1>1 DEF IndInv, TypeOK, SSETypeOK, LogInv
<1>6. defers' = <<"body", "events">>
  BY <1>1 DEF IndInv, PhaseInv
<1>7. PhaseInv'
  BY <1>1, <1>2, <1>4, <1>6 DEF PhaseInv
<1> QED
  BY <1>4, <1>5, <1>7 DEF IndInv

(* A deferred call.                                                        *)
LEMMA ReturnStep ==
    ASSUME IndInv, Return
    PROVE  IndInv'
<1>1. /\ pc = "return" /\ defers' = Tail(defers) /\ pc' = IF Len(defers) = 1 THEN "done" ELSE "return"
      /\ UNCHANGED <<published, next, lines, conn, faults, cancelled, reading, env, events, got, since>>
  BY DEF Return, Deferred, streamVars
<1>2. defers \in Seq({"body", "errs", "events"}) /\ defers # <<>>
  BY <1>1 DEF IndInv, TypeOK, SSETypeOK, PhaseInv
<1>3. /\ Len(defers) \in Nat /\ Len(defers) >= 1 /\ defers' \in Seq({"body", "errs", "events"})
      /\ Len(defers') = Len(defers) - 1
  BY <1>1, <1>2, NonEmpty
<1>4. pc' \in {"return", "done"} /\ (pc' = "return" => defers' # <<>>)
  <2>1. defers' = <<>> => Len(defers') = 0
    OBVIOUS
  <2> QED
    BY <1>1, <1>3, <2>1
<1>5. Sent' = Sent
  BY <1>1 DEF Sent
<1>6. FlightInv' /\ LiveAndContiguous' /\ Stuck' = Stuck
  BY <1>1, <1>4, <1>5, FlightStays
<1>7. TypeOK' /\ LogInv'
  BY <1>1, <1>3, <1>4 DEF IndInv, TypeOK, SSETypeOK, LogInv
<1>8. PhaseInv'
  BY <1>1, <1>4, <1>6 DEF IndInv, PhaseInv
<1> QED
  BY <1>6, <1>7, <1>8 DEF IndInv

(* The caller receives.                                                    *)
LEMMA ReceiveStep ==
    ASSUME IndInv, Receive
    PROVE  IndInv'
<1>1. /\ events # <<>> /\ events' = Tail(events) /\ got' = Append(got, Head(events))
      /\ UNCHANGED <<published, next, lines, conn, faults, cancelled, reading, pc, defers, env, since>>
  BY DEF Receive, sseVars
<1>2. /\ got' \in Seq(1..MaxPublished) /\ events' \in Seq(1..MaxPublished)
      /\ Len(events') = Len(events) - 1 /\ Sent' = Sent
  BY <1>1, SentReceived DEF IndInv
<1>3. FlightInv' /\ LiveAndContiguous' /\ Stuck' = Stuck
  BY <1>1, <1>2, FlightStays
<1>4. Len(events') <= Cap
  BY <1>2, SentFacts, MessageAssumption DEF IndInv, TypeOK
<1>5. TypeOK' /\ LogInv'
  BY <1>1, <1>2, <1>4 DEF IndInv, TypeOK, SSETypeOK, LogInv
<1>6. pc # "idle"
  BY <1>1 DEF IndInv, PhaseInv
<1>7. PhaseInv'
  BY <1>1, <1>3, <1>6 DEF IndInv, PhaseInv
<1> QED
  BY <1>3, <1>5, <1>7 DEF IndInv

(* What is in a frame: one data line.                                      *)
LEMMA FrameFacts ==
    ASSUME NEW n \in Nat, NEW ls, ls \in Frames(n) \/ ls \in Noise
    PROVE  /\ ls \in Seq(Line) /\ Len(ls) \in 2..3
           /\ \A i \in 1..Len(ls) : Whole(ls[i]) \/ TooLong(ls[i]) => i = 2
           /\ ls \in Frames(n) =>
                 IF n \in Oversize THEN TooLong(ls[2]) ELSE Whole(ls[2]) /\ ls[2].seq = n
           /\ ls \in Noise => ~Whole(ls[2]) /\ ~TooLong(ls[2])
           /\ ~(Whole(ls[2]) /\ TooLong(ls[2]))
<1>1. /\ Blank \in Line /\ Blank.text = "none" /\ Comment \in Line /\ Comment.text = "none"
      /\ Event("message") \in Line /\ Event("message").text = "message" /\ Event("message").field = "event"
  BY DEF Blank, Comment, Event, Line, Texts
<1>2. \A t \in {"whole", "long"} : Data(n, t) \in Line /\ Data(n, t).field = "data" /\ Data(n, t).seq = n
                                /\ Data(n, t).text = t
  BY DEF Data, Line, Texts
<1>3. Data(0, "bad") \in Line /\ Data(0, "bad").text = "bad"
  BY DEF Data, Line, Texts
<1>4. CASE ls \in Frames(n)
  <2>1. PICK t \in {"whole", "long"} : /\ ls = <<Event("message"), Data(n, t), Blank>>
                                       /\ t = IF n \in Oversize THEN "long" ELSE "whole"
    BY <1>4 DEF Frames
  <2>2. ls \in Seq(Line) /\ Len(ls) = 3 /\ ls[1] = Event("message") /\ ls[2] = Data(n, t) /\ ls[3] = Blank
    BY <1>1, <1>2, <2>1
  <2>3. ls \notin Noise
    <3>1. \A x : Len(<<x, Blank>>) = 2
      OBVIOUS
    <3>2. ASSUME ls \in Noise PROVE \E x : ls = <<x, Blank>>
      BY <3>2 DEF Noise
    <3> QED
      BY <2>2, <3>1, <3>2
  <2>4. \A i \in 1..Len(ls) : i = 1 \/ i = 2 \/ i = 3
    BY <2>2
  <2> QED
    BY <1>1, <1>2, <2>1, <2>2, <2>3, <2>4 DEF Whole, TooLong
<1>5. CASE ls \in Noise /\ ls \notin Frames(n)
  <2>1. PICK x : x \in {Comment, Data(0, "bad")} /\ ls = <<x, Blank>>
    BY <1>5 DEF Noise
  <2>2. ls \in Seq(Line) /\ Len(ls) = 2 /\ ls[1] = x /\ ls[2] = Blank
    BY <1>1, <1>3, <2>1
  <2>3. \A i \in 1..Len(ls) : ls[i].text \in {"none", "bad"}
    BY <1>1, <1>3, <2>1, <2>2
  <2> QED
    BY <1>1, <1>5, <2>2, <2>3 DEF Whole, TooLong
<1> QED
  BY <1>4, <1>5

(* The daemon writes an envelope.                                          *)
LEMMA WriteEnvelopeStep ==
    ASSUME IndInv, WriteEnvelope
    PROVE  IndInv'
<1>1. /\ conn = "open" /\ pc = "scan" /\ lines = <<>> /\ next <= published /\ lines' \in Frames(next)
      /\ next' = next + 1
      /\ UNCHANGED <<published, conn, faults, cancelled, reading, pc, defers, env, events, got, since>>
  BY DEF WriteEnvelope, WritePublication, Idle, streamVars
<1>2. /\ lines' \in Seq(Line) /\ Len(lines') \in 2..3
      /\ \A i \in 1..Len(lines') : Whole(lines'[i]) \/ TooLong(lines'[i]) => i = 2
      /\ IF next \in Oversize THEN TooLong(lines'[2]) ELSE Whole(lines'[2]) /\ lines'[2].seq = next
      /\ ~(Whole(lines'[2]) /\ TooLong(lines'[2]))
  BY <1>1, Numbers, FrameFacts
<1>3. ~Stuck /\ ~InFlight
  BY <1>1 DEF Stuck, InFlight
<1>4. next = Expected /\ env = 0 /\ Sent' = Sent
  BY <1>1, <1>3 DEF IndInv, FlightInv, PhaseInv, Sent
<1>5. Expected' = Expected
  BY <1>1, <1>4 DEF Expected
<1>6. TypeOK' /\ LogInv' /\ LiveAndContiguous'
  BY <1>1, <1>2, <1>4, Numbers DEF IndInv, TypeOK, SSETypeOK, LogInv, LiveAndContiguous
<1>7. 2 \in 1..Len(lines')
  BY <1>2
<1>8. (InFlight' => Whole(lines'[2])) /\ (Stuck' => TooLong(lines'[2]) /\ next \in Oversize)
  BY <1>2 DEF InFlight, Stuck
<1>9. InFlight' \/ Stuck'
  BY <1>2, <1>7 DEF InFlight, Stuck
<1>10. FlightInv'
  BY <1>1, <1>2, <1>4, <1>5, <1>7, <1>8, <1>9 DEF FlightInv
<1>11. PhaseInv'
  BY <1>1 DEF IndInv, PhaseInv
<1> QED
  BY <1>6, <1>10, <1>11 DEF IndInv

(* The daemon writes a frame without an envelope.                          *)
LEMMA WriteNoiseStep ==
    ASSUME IndInv, WriteNoise(Noise), UNCHANGED streamVars
    PROVE  IndInv'
<1>1. /\ conn = "open" /\ pc = "scan" /\ lines = <<>> /\ lines' \in Noise
      /\ faults < MaxFaults /\ faults' = faults + 1
      /\ UNCHANGED <<published, next, conn, cancelled, reading, pc, defers, env, events, got, since>>
  BY DEF WriteNoise, Idle, Fault, streamVars
<1>2. /\ lines' \in Seq(Line) /\ \A i \in 1..Len(lines') : ~Whole(lines'[i]) /\ ~TooLong(lines'[i])
  BY <1>1, Numbers, FrameFacts
<1>3. ~Stuck /\ ~InFlight /\ ~Stuck' /\ ~InFlight'
  BY <1>1, <1>2 DEF Stuck, InFlight
<1>4. next = Expected /\ env = 0 /\ Sent' = Sent
  BY <1>1, <1>3 DEF IndInv, FlightInv, PhaseInv, Sent
<1>5. Expected' = Expected
  BY <1>1, <1>4 DEF Expected
<1>6. TypeOK' /\ LogInv' /\ LiveAndContiguous'
  BY <1>1, <1>2, <1>4, BoundsAssumption DEF IndInv, TypeOK, SSETypeOK, LogInv, LiveAndContiguous
<1>7. FlightInv'
  BY <1>1, <1>2, <1>3, <1>4, <1>5 DEF FlightInv
<1>8. PhaseInv'
  BY <1>1 DEF IndInv, PhaseInv
<1> QED
  BY <1>6, <1>7, <1>8 DEF IndInv

(* The body ends.                                                          *)
LEMMA DisconnectStep ==
    ASSUME IndInv, Disconnect, UNCHANGED streamVars
    PROVE  IndInv'
<1>1. /\ conn = "open" /\ conn' \in {"eof", "reset"} /\ lines' \in Remainders(lines)
      /\ faults < MaxFaults /\ faults' = faults + 1
      /\ UNCHANGED <<published, next, cancelled, reading, pc, defers, env, events, got, since>>
  BY DEF Disconnect, Fault, streamVars
<1>2. lines \in Seq(Line) /\ Sent' = Sent
  BY <1>1 DEF IndInv, TypeOK, SSETypeOK, Sent
<1>3. /\ lines' \in Seq(Line) /\ Len(lines') <= Len(lines)
      /\ \A i \in 1..Len(lines') : lines'[i] = lines[i] \/ lines'[i].text \notin {"whole", "long"}
  BY <1>1, <1>2, Remains
<1>4. Len(lines) \in Nat /\ Len(lines') \in Nat
  BY <1>2, <1>3
<1>5. \A i \in 1..Len(lines') :
          /\ i + 0 \in 1..Len(lines)
          /\ lines'[i] = lines[i + 0] \/ lines'[i].text \notin {"whole", "long"}
  BY <1>3, <1>4
<1>6. /\ \A i, j \in 1..Len(lines') : Whole(lines'[i]) /\ Whole(lines'[j]) => i = j
      /\ \A i \in 1..Len(lines') : Whole(lines'[i]) => lines'[i].seq = Expected'
      /\ InFlight' => InFlight
      /\ Stuck' => Stuck
  BY <1>1, <1>2, <1>3, <1>5, FlightShrinks
<1>7. Expected' = Expected
  BY <1>1, <1>2 DEF Expected
<1>8. TypeOK' /\ LogInv' /\ LiveAndContiguous'
  BY <1>1, <1>2, <1>3, BoundsAssumption DEF IndInv, TypeOK, SSETypeOK, LogInv, LiveAndContiguous
<1>9. FlightInv'
  BY <1>1, <1>6, <1>7 DEF IndInv, FlightInv
<1>10. pc = "idle" => lines' = <<>>
  <2> SUFFICES ASSUME pc = "idle" PROVE lines' = <<>>
    OBVIOUS
  <2>1. Len(lines) = 0
    BY DEF IndInv, PhaseInv
  <2> QED
    BY <1>3, <1>4, <2>1, EmptySeq
<1>11. PhaseInv'
  BY <1>1, <1>6, <1>10 DEF IndInv, PhaseInv
<1> QED
  BY <1>8, <1>9, <1>11 DEF IndInv

(* Every step preserves the invariant.                                     *)
LEMMA NextInv == IndInv /\ [Next]_vars => IndInv'
<1> SUFFICES ASSUME IndInv, [Next]_vars PROVE IndInv'
  OBVIOUS
<1>1. CASE Subscribe
  BY <1>1, SubscribeStep
<1>2. CASE SubscribeRefused
  BY <1>2, AsideStep DEF SubscribeRefused
<1>3. CASE Goroutine
  BY <1>3, SkipLineStep, ScanEnvelopeStep, SendEnvelopeStep, LeaveStep, ReturnStep DEF Goroutine
<1>4. CASE Receive
  BY <1>4, ReceiveStep
<1>5. CASE Daemon
  BY <1>5, WriteEnvelopeStep, AsideStep, WriteNoiseStep, DisconnectStep DEF Daemon
<1>6. CASE CancelContext
  BY <1>6, AsideStep DEF CancelContext
<1>7. CASE UNCHANGED vars
  <2>1. UNCHANGED <<published, next, lines, conn, faults, cancelled, reading, pc, defers, env, events, got, since>>
    BY <1>7 DEF vars, sseVars, streamVars
  <2>2. Sent' = Sent
    BY <2>1 DEF Sent
  <2>3. FlightInv' /\ LiveAndContiguous' /\ Stuck' = Stuck
    BY <2>1, <2>2, FlightStays
  <2> QED
    BY <2>1, <2>3 DEF IndInv, TypeOK, SSETypeOK, LogInv, PhaseInv
<1> QED
  BY <1>1, <1>2, <1>3, <1>4, <1>5, <1>6, <1>7 DEF Next

-----------------------------------------------------------------------------
(* IndInv holds in every reachable state.                                  *)
THEOREM Invariance == Spec => []IndInv
  BY InitInv, NextInv, PTL DEF Spec

(* What Subscribe delivers is what was sent after it returned, each        *)
(* envelope once and in order, whatever comes in between.                  *)
THEOREM DeliversInOrder == Spec => []LiveAndContiguous
<1>1. IndInv => LiveAndContiguous
  BY DEF IndInv
<1> QED
  BY <1>1, Invariance, PTL

(* The reasons for which Subscribe's channel closes: the context, the end  *)
(* of the stream, and an envelope longer than the scanner's limit, which   *)
(* the comment does not name.                                              *)
ClosesFor ==
    pc # "idle" /\ ~Pending("events") =>
        cancelled \/ conn \in {"eof", "reset"} \/ (Stuck /\ Oversize # {})

(* The channel closes for one of these reasons only.                       *)
THEOREM ClosesForAReason == Spec => []ClosesFor
<1>1. IndInv => ClosesFor
  <2> SUFFICES ASSUME IndInv, pc # "idle", ~Pending("events")
               PROVE  cancelled \/ conn \in {"eof", "reset"} \/ (Stuck /\ Oversize # {})
    BY DEF ClosesFor
  <2>1. pc \notin {"scan", "send"}
    <3> SUFFICES ASSUME pc \in {"scan", "send"} PROVE FALSE
      OBVIOUS
    <3>1. defers = <<"body", "events">>
      BY DEF IndInv, PhaseInv
    <3>2. Len(defers) = 2 /\ defers[2] = "events"
      BY <3>1
    <3> QED
      BY <3>2 DEF Pending
  <2> QED
    BY <2>1 DEF IndInv, PhaseInv, FlightInv
<1> QED
  BY <1>1, Invariance, PTL

(* When every envelope fits the scanner's limit, Subscribe's channel       *)
(* closes as its comment says.                                             *)
THEOREM ClosesAsPromised ==
    ASSUME Oversize = {}
    PROVE  Spec => []ClosesOnlyOnCancelOrEnd
<1>1. ClosesFor => ClosesOnlyOnCancelOrEnd
  BY DEF ClosesFor, ClosesOnlyOnCancelOrEnd
<1> QED
  BY <1>1, ClosesForAReason, PTL
=============================================================================
