-------------------------- MODULE EventStreamProofs --------------------------
(***************************************************************************)
(* Proofs about EventStream, for any number of events, faults and calls    *)
(* and any set of over-long events.                                        *)
(***************************************************************************)
EXTENDS EventStream, SequenceTheorems, TLAPS

(* The goroutine has not returned from streamEvents.                       *)
Running == pc \in {"scan", "send", "final", "sendFinal"}

(* The Seq of the frame that is being read, 0 when it has none.            *)
FrameSeq == IF lines # <<>> /\ lines[1].field = "id" THEN lines[1].seq ELSE ev.seq

(* The rest of the frame is on its way, up to the blank line.              *)
Complete == lines # <<>> /\ lines[Len(lines)].field = "blank"

HasData(ls) == \E i \in 1..Len(ls) : ls[i].field = "data"

(* The Kind that a frame with this data line has.  Data without a Seq that *)
(* is not the unrelated event's does not parse.                            *)
Fits(kind, line) ==
    IF line.seq # 0 THEN kind = "message" ELSE kind = "unrelated" \/ line.text \in {"bad", "cut"}

(* Every data line on its way fits the Kind of its frame, whether that is  *)
(* still on its way too or was read.                                       *)
KindInv ==
    /\ \A i, j \in 1..Len(lines) :
          lines[i].field = "event" /\ lines[j].field = "data" => i < j /\ Fits(lines[i].text, lines[j])
    /\ \A j \in 1..Len(lines) : lines[j].field = "data" =>
          Fits(ev.kind, lines[j]) \/ \E i \in 1..Len(lines) : lines[i].field = "event"

(* The lines on their way are the rest of one frame: its id is first, its  *)
(* event line is before its data, its data carries its Seq, and only the   *)
(* last line may be cut.  A frame with data is the last one the daemon     *)
(* wrote, and a frame without is a keep-alive or incomplete.               *)
LinesInv ==
    /\ \A i \in 1..Len(lines) :
          /\ lines[i].field = "blank" => i = Len(lines)
          /\ lines[i].field = "id" => i = 1
          /\ lines[i].field = "event" => data = <<>> /\ (lines[i].text = "cut" => i = Len(lines))
          /\ lines[i].field = "data" => lines[i].seq = FrameSeq
    /\ lines # <<>> /\ lines[1].field = "id" =>
          ev = NoEvent /\ data = <<>> /\ (lines[1].seq = 0 => Len(lines) = 1)
    /\ FrameSeq # 0 /\ HasData(lines) => FrameSeq = next - 1
    /\ Complete => \/ data # <<>> \/ HasData(lines)
                   \/ ev = NoEvent /\ \A i \in 1..Len(lines) : lines[i].field \notin {"id", "event"}
    /\ ev.kind = "cut" => lines = <<>> /\ data = <<>>
    /\ conn = "open" => Complete \/ (lines = <<>> /\ ev = NoEvent /\ data = <<>>)

(* What was read of the frame.                                             *)
DataInv ==
    /\ \A i \in 1..Len(data) : data[i].seq = ev.seq /\ Fits(ev.kind, data[i])
    /\ data # <<>> /\ ev.seq # 0 => ev.seq = next - 1
    /\ pc # "scan" => lines = <<>>
    /\ pc = "send" => Parses(data) /\ data # <<>>
    /\ pc \in {"final", "sendFinal"} => conn = "eof"
    /\ pc = "sendFinal" => Parses(data)

(* How far the daemon, the frame and the consumer are.                     *)
SeqInv ==
    /\ next <= published + 1 /\ seen <= published /\ cursor <= seen
    /\ cursor = 0 => seen = 0
    /\ Running => /\ FrameSeq < next
                  /\ seen > 0 => FrameSeq <= seen + 1
    /\ pc \in {"scan", "send"} /\ conn = "open" /\ seen > 0 =>
          next <= seen + (IF FrameSeq # 0 THEN 2 ELSE 1)

(* The numbered events handed over in this call are before Seq n, and      *)
(* every Seq from any of them up to n was handed over after it.            *)
UpTo(n) ==
    \A i \in 1..Len(got) : Numbered(got[i]) =>
        /\ got[i].seq < n
        /\ \A m \in got[i].seq..(n - 1) : \E k \in i..Len(got) : got[k].seq = m

(* The frame that is read is the next one for the consumer.                *)
OrderInv ==
    /\ FrameSeq # 0 => UpTo(next - 1)
    /\ FrameSeq = 0 /\ conn = "open" => UpTo(next)

(* What was handed over, and the result.                                   *)
ResultInv ==
    /\ Running => defers # <<>> /\ errs = <<>> /\ \A i \in 1..Len(got) : Whole(got[i])
    /\ pc \in {"return", "done"} => Len(errs) = 1 /\ (errs[1] = "nil" => conn = "eof")
    /\ pc = "return" => defers # <<>>

IndInv ==
    /\ TypeOK /\ SeqInv /\ ResultInv /\ WholeExceptLast
    /\ pc = "scan" => LinesInv /\ KindInv
    /\ Running => DataInv /\ OrderInv

-----------------------------------------------------------------------------
(* Lines and sequences. *)

(* The head and the tail of what is on its way.                            *)
LEMMA NonEmpty ==
    ASSUME NEW S, NEW s \in Seq(S), s # <<>>
    PROVE  /\ Len(s) \in Nat /\ Len(s) >= 1 /\ Head(s) = s[1] /\ Head(s) \in S
           /\ Tail(s) \in Seq(S) /\ Len(Tail(s)) = Len(s) - 1
           /\ \A i \in 1..(Len(s) - 1) : Tail(s)[i] = s[i + 1]
<1>1. Len(s) \in Nat /\ Len(s) # 0
  BY EmptySeq
<1> QED
  BY <1>1, HeadTailProperties

(* A cut line keeps its field; cut data keeps its Seq, a cut id is smaller. *)
LEMMA CutFacts ==
    ASSUME NEW line \in Line, NEW c \in Cuts(line)
    PROVE  /\ c \in Line /\ c.field = line.field /\ c.field # "blank"
           /\ c.field = "id" => c.seq < line.seq
           /\ c.field # "id" => c.seq = line.seq /\ c.text = "cut"
<1>1. CASE line.field \in {"data", "event"}
  <2>1. c = [line EXCEPT !.text = "cut"]
    BY <1>1 DEF Cuts
  <2> QED
    BY <1>1, <2>1 DEF Line, Texts
<1>2. CASE line.field = "id"
  <2>1. PICK m \in 0..(line.seq - 1) : c = Id(m)
    BY <1>2 DEF Cuts
  <2>2. m \in Nat /\ m < line.seq
    BY DEF Line
  <2> QED
    BY <1>2, <2>1, <2>2 DEF Line, Texts, Id
<1>3. CASE line.field \notin {"data", "event", "id"}
  BY <1>3 DEF Cuts
<1> QED
  BY <1>1, <1>2, <1>3

(* What survives a disconnect: a prefix, whose last line may be cut.       *)
LEMMA Remains ==
    ASSUME NEW ls \in Seq(Line), NEW r \in Remainders(ls)
    PROVE  /\ r \in Seq(Line) /\ Len(r) \in Nat /\ Len(ls) \in Nat /\ Len(r) <= Len(ls)
           /\ \A i \in 1..Len(r) :
                 /\ r[i].field = ls[i].field
                 /\ i < Len(r) \/ r[i].field = "blank" => r[i] = ls[i]
                 /\ r[i].field = "id" => r[i].seq <= ls[i].seq
                 /\ r[i].field # "id" => r[i].seq = ls[i].seq /\ (r[i] = ls[i] \/ r[i].text = "cut")
<1>1. Len(ls) \in Nat /\ \A i \in 1..Len(ls) : ls[i] \in Line /\ ls[i].seq \in Nat
  <2>1. Len(ls) \in Nat /\ \A i \in 1..Len(ls) : ls[i] \in Line
    OBVIOUS
  <2>2. \A line \in Line : line.seq \in Nat
    BY DEF Line
  <2> QED
    BY <2>1, <2>2
<1>2. CASE \E k \in 0..Len(ls) : r = SubSeq(ls, 1, k)
  <2>1. PICK k \in 0..Len(ls) : r = SubSeq(ls, 1, k)
    BY <1>2
  <2>2. r \in Seq(Line) /\ Len(r) = k /\ \A i \in 1..k : r[i] = ls[i]
    BY <2>1
  <2> QED
    BY <1>1, <2>2
<1>3. CASE \E k \in 1..Len(ls) : \E c \in Cuts(ls[k]) : r = Append(SubSeq(ls, 1, k - 1), c)
  <2>1. PICK k \in 1..Len(ls) : \E c \in Cuts(ls[k]) : r = Append(SubSeq(ls, 1, k - 1), c)
    BY <1>3
  <2>2. PICK c \in Cuts(ls[k]) : r = Append(SubSeq(ls, 1, k - 1), c)
    BY <2>1
  <2>3. /\ c \in Line /\ c.field = ls[k].field /\ c.field # "blank"
        /\ c.field = "id" => c.seq < ls[k].seq
        /\ c.field # "id" => c.seq = ls[k].seq /\ c.text = "cut"
    BY <1>1, CutFacts
  <2>4. /\ SubSeq(ls, 1, k - 1) \in Seq(Line) /\ Len(SubSeq(ls, 1, k - 1)) = k - 1
        /\ \A i \in 1..(k - 1) : SubSeq(ls, 1, k - 1)[i] = ls[i]
    OBVIOUS
  <2>5. /\ r \in Seq(Line) /\ Len(r) = k /\ r[k] = c
        /\ \A i \in 1..(k - 1) : r[i] = ls[i]
    BY <2>2, <2>3, <2>4
  <2>6. c.seq \in Nat
    BY <2>3 DEF Line
  <2> QED
    BY <1>1, <2>3, <2>5, <2>6
<1> QED
  BY <1>2, <1>3 DEF Remainders

(* Two sequences put together, by position.                                *)
LEMMA Joined ==
    ASSUME NEW p \in Seq(Line), NEW q \in Seq(Line), NEW t, t = p \o q
    PROVE  /\ t \in Seq(Line) /\ Len(p) \in Nat /\ Len(q) \in Nat /\ Len(t) = Len(p) + Len(q)
           /\ \A i \in 1..Len(p) : t[i] = p[i]
           /\ \A i \in 1..Len(q) : t[Len(p) + i] = q[i]
<1>1. Len(p) \in Nat /\ Len(q) \in Nat
  OBVIOUS
<1>2. /\ t \in Seq(Line) /\ Len(t) = Len(p) + Len(q)
      /\ \A i \in 1..(Len(p) + Len(q)) : t[i] = IF i <= Len(p) THEN p[i] ELSE q[i - Len(p)]
  BY ConcatProperties
<1>3. ASSUME NEW i \in 1..Len(q) PROVE t[Len(p) + i] = q[i]
  <2>1. Len(p) + i \in 1..(Len(p) + Len(q)) /\ ~(Len(p) + i <= Len(p)) /\ (Len(p) + i) - Len(p) = i
    BY <1>1
  <2> QED
    BY <1>2, <2>1
<1>4. ASSUME NEW i \in 1..Len(p) PROVE t[i] = p[i]
  BY <1>1, <1>2
<1> QED
  BY <1>1, <1>2, <1>3, <1>4

(* What a publication's frame holds.                                       *)
LEMMA FrameFacts ==
    ASSUME NEW n \in Nat, NEW ls \in Frames(n)
    PROVE  /\ ls \in Seq(Line) /\ Len(ls) \in 4..5
           /\ ls[1].field = "id" /\ ls[1].seq = n
           /\ ls[2].field = "event" /\ ls[2].text = "message"
           /\ ls[Len(ls)].field = "blank"
           /\ \A i \in 3..(Len(ls) - 1) : ls[i].field = "data" /\ ls[i].seq = n
<1>1. /\ Blank \in Line /\ Blank.field = "blank"
      /\ Event("message") \in Line /\ Event("message").text = "message" /\ Event("message").field = "event"
  BY DEF Blank, Event, Line, Texts
<1>2. Id(n) \in Line /\ Id(n).field = "id" /\ Id(n).seq = n
  BY DEF Id, Line, Texts
<1>3. \A text \in {"whole", "long", "head", "tail"} :
         Data(n, text) \in Line /\ Data(n, text).field = "data" /\ Data(n, text).seq = n
  BY DEF Data, Line, Texts
<1>4. PICK d \in DataLines(n) : ls = <<Id(n), Event("message")>> \o d \o <<Blank>>
  BY DEF Frames
<1>5. PICK p, r : p = <<Id(n), Event("message")>> /\ r = <<Blank>>
  OBVIOUS
<1>6. /\ p \in Seq(Line) /\ Len(p) = 2 /\ p[1] = Id(n) /\ p[2] = Event("message")
      /\ r \in Seq(Line) /\ Len(r) = 1 /\ r[1] = Blank
  BY <1>1, <1>2, <1>5
<1>7. PICK t : t = p \o d
  OBVIOUS
<1>8. ls = t \o r
  BY <1>4, <1>5, <1>7
<1>9. CASE \E text \in {"whole", "long"} : d = <<Data(n, text)>>
  <2>1. PICK text \in {"whole", "long"} : d = <<Data(n, text)>>
    BY <1>9
  <2>2. PICK x : x = Data(n, text)
    OBVIOUS
  <2>3. x \in Line /\ x.field = "data" /\ x.seq = n
    BY <1>3, <2>2
  <2>4. d \in Seq(Line) /\ Len(d) = 1 /\ d[1] = x
    BY <2>1, <2>2, <2>3
  <2>5. /\ ls \in Seq(Line) /\ Len(ls) = 4
        /\ ls[1] = Id(n) /\ ls[2] = Event("message") /\ ls[3] = x /\ ls[4] = Blank
    <3>1. /\ t \in Seq(Line) /\ Len(t) = Len(p) + Len(d)
          /\ \A i \in 1..Len(p) : t[i] = p[i]
          /\ \A i \in 1..Len(d) : t[Len(p) + i] = d[i]
      <4>1. p \in Seq(Line)
        BY <1>6
      <4>2. d \in Seq(Line)
        BY <2>4
      <4>3. t = p \o d
        BY <1>7
      <4> QED
        BY <4>1, <4>2, <4>3, Joined
    <3>2. /\ ls \in Seq(Line) /\ Len(ls) = Len(t) + Len(r)
          /\ \A i \in 1..Len(t) : ls[i] = t[i]
          /\ \A i \in 1..Len(r) : ls[Len(t) + i] = r[i]
      <4>1. t \in Seq(Line)
        BY <3>1
      <4>2. r \in Seq(Line)
        BY <1>6
      <4> QED
        BY <1>8, <4>1, <4>2, Joined
    <3> QED
      BY <1>6, <2>4, <3>1, <3>2
  <2> QED
    BY <1>1, <1>2, <2>3, <2>5
<1>10. CASE d = <<Data(n, "head"), Data(n, "tail")>>
  <2>1. PICK x, y : x = Data(n, "head") /\ y = Data(n, "tail")
    OBVIOUS
  <2>2. x \in Line /\ x.field = "data" /\ x.seq = n /\ y \in Line /\ y.field = "data" /\ y.seq = n
    BY <1>3, <2>1
  <2>3. d \in Seq(Line) /\ Len(d) = 2 /\ d[1] = x /\ d[2] = y
    BY <1>10, <2>1, <2>2
  <2>4. /\ ls \in Seq(Line) /\ Len(ls) = 5
        /\ ls[1] = Id(n) /\ ls[2] = Event("message") /\ ls[3] = x /\ ls[4] = y /\ ls[5] = Blank
    <3>1. /\ t \in Seq(Line) /\ Len(t) = Len(p) + Len(d)
          /\ \A i \in 1..Len(p) : t[i] = p[i]
          /\ \A i \in 1..Len(d) : t[Len(p) + i] = d[i]
      <4>1. p \in Seq(Line)
        BY <1>6
      <4>2. d \in Seq(Line)
        BY <2>3
      <4>3. t = p \o d
        BY <1>7
      <4> QED
        BY <4>1, <4>2, <4>3, Joined
    <3>2. /\ ls \in Seq(Line) /\ Len(ls) = Len(t) + Len(r)
          /\ \A i \in 1..Len(t) : ls[i] = t[i]
          /\ \A i \in 1..Len(r) : ls[Len(t) + i] = r[i]
      <4>1. t \in Seq(Line)
        BY <3>1
      <4>2. r \in Seq(Line)
        BY <1>6
      <4> QED
        BY <1>8, <4>1, <4>2, Joined
    <3> QED
      BY <1>6, <2>3, <3>1, <3>2
  <2> QED
    BY <1>1, <1>2, <2>2, <2>4
<1> QED
  BY <1>9, <1>10 DEF DataLines

(* What a frame without a publication holds: no id, and data without one.  *)
LEMMA NoiseFacts ==
    ASSUME NEW ls \in Noise
    PROVE  /\ ls \in Seq(Line) /\ Len(ls) \in 2..3
           /\ ls[Len(ls)].field = "blank"
           /\ ls[1].field \in {"comment", "event"} /\ ls[1].text # "cut"
           /\ \A i \in 2..(Len(ls) - 1) :
                 ls[i].field = "data" /\ ls[i].seq = 0 /\ ls[1].field = "event" /\ Fits(ls[1].text, ls[i])
           /\ ls[1].field = "event" => Len(ls) = 3
<1>1. /\ Blank \in Line /\ Blank.field = "blank"
      /\ Comment \in Line /\ Comment.field = "comment" /\ Comment.text = "none"
  BY DEF Blank, Comment, Line, Texts
<1>2. \A k \in {"message", "unrelated"} :
         Event(k) \in Line /\ Event(k).field = "event" /\ Event(k).text = k
  BY DEF Event, Line, Texts
<1>3. \A t \in {"whole", "bad"} :
         /\ Data(0, t) \in Line /\ Data(0, t).field = "data" /\ Data(0, t).seq = 0
         /\ Data(0, t).text = t
  BY DEF Data, Line, Texts
<1>4. CASE ls = <<Comment, Blank>>
  <2>1. ls \in Seq(Line) /\ Len(ls) = 2 /\ ls[1] = Comment /\ ls[2] = Blank
    BY <1>1, <1>4
  <2> QED
    BY <1>1, <2>1
<1>5. ASSUME NEW x, NEW y, x \in Line, x.field = "event", x.text # "cut",
             y \in Line, y.field = "data", y.seq = 0, Fits(x.text, y), ls = <<x, y, Blank>>
      PROVE  /\ ls \in Seq(Line) /\ Len(ls) = 3 /\ ls[3].field = "blank"
             /\ ls[1].field = "event" /\ ls[1].text # "cut"
             /\ \A i \in 2..2 : ls[i].field = "data" /\ ls[i].seq = 0 /\ Fits(ls[1].text, ls[i])
  <2>1. ls \in Seq(Line) /\ Len(ls) = 3 /\ ls[1] = x /\ ls[2] = y /\ ls[3] = Blank
    BY <1>1, <1>5
  <2> QED
    BY <1>1, <1>5, <2>1
<1>6. CASE ls = <<Event("unrelated"), Data(0, "whole"), Blank>>
  <2>1. PICK x, y : x = Event("unrelated") /\ y = Data(0, "whole")
    OBVIOUS
  <2>2. /\ x \in Line /\ x.field = "event" /\ x.text = "unrelated" /\ x.text # "cut"
        /\ y \in Line /\ y.field = "data" /\ y.seq = 0 /\ ls = <<x, y, Blank>>
    BY <1>2, <1>3, <1>6, <2>1
  <2>3. Fits(x.text, y)
    BY <2>2 DEF Fits
  <2> QED
    BY <1>5, <2>2, <2>3
<1>7. CASE ls = <<Event("message"), Data(0, "bad"), Blank>>
  <2>1. PICK x, y : x = Event("message") /\ y = Data(0, "bad")
    OBVIOUS
  <2>2. /\ x \in Line /\ x.field = "event" /\ x.text = "message" /\ x.text # "cut"
        /\ y \in Line /\ y.field = "data" /\ y.seq = 0 /\ y.text = "bad" /\ ls = <<x, y, Blank>>
    BY <1>2, <1>3, <1>7, <2>1
  <2>3. Fits(x.text, y)
    BY <2>2 DEF Fits
  <2> QED
    BY <1>5, <2>2, <2>3
<1> QED
  BY <1>4, <1>6, <1>7 DEF Noise

-----------------------------------------------------------------------------
(* Steps. *)

(* The types of the counters.                                              *)
LEMMA Numbers ==
    ASSUME IndInv
    PROVE  /\ MaxPublished \in Nat /\ MaxFaults \in Nat
           /\ published \in Nat /\ published <= MaxPublished
           /\ next \in Nat /\ next >= 1 /\ next <= MaxPublished + 1
           /\ cursor \in Nat /\ seen \in Nat /\ faults \in Nat
           /\ ev.seq \in Nat /\ ev.seq <= MaxPublished /\ ev.kind \in Texts
           /\ lines \in Seq(Line) /\ data \in Seq(Line)
<1>1. ev.seq \in 0..MaxPublished /\ ev.kind \in Texts
  BY DEF IndInv, TypeOK
<1> QED
  BY <1>1, BoundsAssumption DEF IndInv, TypeOK, SSETypeOK

(* What is left to show of a state in which no goroutine reads.            *)
LEMMA Stopped ==
    ASSUME TypeOK', ~Running', next' <= published' + 1, seen' <= published', cursor' <= seen',
           cursor' = 0 => seen' = 0, ResultInv', WholeExceptLast'
    PROVE  IndInv'
<1>1. pc' \notin {"scan", "send"}
  BY DEF Running
<1>2. SeqInv'
  BY <1>1 DEF SeqInv
<1> QED
  BY <1>1, <1>2 DEF IndInv, Running

(* streamEvents returns with a result.                                     *)
LEMMA ResultStep ==
    ASSUME IndInv, Running, NEW err \in {"nil", "connect", "parse", "read", "ctx"}, Result(err),
           err = "nil" => conn = "eof", lines' \in Seq(Line),
           UNCHANGED <<published, next, conn, faults, cancelled, reading, defers, ev, data, got, cursor, seen>>
    PROVE  IndInv'
<1>1. errs = <<>> /\ pc' = "return" /\ errs' = Append(errs, err)
  BY DEF IndInv, ResultInv, Result
<1>2. errs' = <<err>> /\ errs' \in Seq({"nil", "connect", "parse", "read", "ctx"}) /\ Len(errs') = 1 /\ errs'[1] = err
  BY <1>1
<1>3. TypeOK'
  BY <1>1, <1>2 DEF IndInv, TypeOK, SSETypeOK
<1>4. ResultInv'
  BY <1>1, <1>2 DEF IndInv, ResultInv, Running
<1>5. WholeExceptLast' /\ ~Running'
  BY <1>1 DEF IndInv, WholeExceptLast, Running
<1> QED
  BY <1>3, <1>4, <1>5, Stopped DEF IndInv, SeqInv

(* A step that leaves the reader, its connection and the consumer alone.   *)
LEMMA AsideStep ==
    ASSUME IndInv, published' \in Nat, published' >= published, published' <= MaxPublished,
           faults' \in 0..MaxFaults, cancelled' \in BOOLEAN, reading' \in BOOLEAN,
           UNCHANGED <<next, lines, conn, pc, defers, ev, data, errs, got, cursor, seen>>
    PROVE  IndInv'
<1>1. TypeOK'
  BY BoundsAssumption DEF IndInv, TypeOK, SSETypeOK
<1>2. Running' = Running /\ FrameSeq' = FrameSeq /\ Complete' = Complete
  BY DEF Running, FrameSeq, Complete
<1>3. SeqInv'
  BY <1>2, Numbers DEF IndInv, SeqInv
<1>4. ResultInv' /\ WholeExceptLast'
  BY <1>2 DEF IndInv, ResultInv, WholeExceptLast
<1>5. pc' = "scan" => LinesInv' /\ KindInv'
  BY <1>2 DEF IndInv, LinesInv, KindInv, HasData
<1>6. Running' => DataInv' /\ OrderInv'
  BY <1>2 DEF IndInv, DataInv, OrderInv, UpTo
<1> QED
  BY <1>1, <1>3, <1>4, <1>5, <1>6 DEF IndInv

(* Initially there was no call.                                            *)
LEMMA InitInv == Init => IndInv
<1> SUFFICES ASSUME Init PROVE IndInv
  OBVIOUS
<1>1. ev \in [seq : 0..MaxPublished, kind : Texts]
  BY BoundsAssumption DEF Init, NoEvent, Texts
<1>2. pc = "idle" /\ ~Running
  BY DEF Init, SSEInit, Running
<1>3. TypeOK
  <2>1. SSETypeOK
    <3>1. published \in 0..MaxPublished /\ next \in 1..MaxPublished + 1 /\ faults \in 0..MaxFaults
      BY BoundsAssumption DEF Init, SSEInit
    <3>2. lines \in Seq(Line) /\ defers \in Seq({"body", "errs", "events"})
      BY DEF Init, SSEInit
    <3> QED
      BY <3>1, <3>2 DEF Init, SSEInit, SSETypeOK
  <2>2. Len(errs) = 0 /\ errs \in Seq({"nil", "connect", "parse", "read", "ctx"}) /\ data \in Seq(Line)
    BY DEF Init
  <2>3. got \in Seq([seq : 0..MaxPublished, kind : Texts, payload : NoPayload..MaxPublished])
    BY DEF Init
  <2> QED
    BY <1>1, <2>1, <2>2, <2>3, BoundsAssumption DEF Init, TypeOK
<1>4. SeqInv /\ ResultInv /\ WholeExceptLast
  BY <1>2 DEF Init, SSEInit, SeqInv, ResultInv, WholeExceptLast
<1> QED
  BY <1>2, <1>3, <1>4 DEF IndInv

(* A state in which the reader is at the start of a frame.                 *)
LEMMA AtFrameStart ==
    ASSUME lines' = <<>>, ev' = NoEvent, data' = <<>>, pc' = "scan"
    PROVE  LinesInv' /\ KindInv' /\ DataInv' /\ FrameSeq' = 0 /\ Running'
<1>1. ev'.seq = 0 /\ ev'.kind = "none"
  BY DEF NoEvent
<1>2. FrameSeq' = 0 /\ ~Complete' /\ Len(lines') = 0 /\ Len(data') = 0 /\ Running'
  BY <1>1 DEF FrameSeq, Complete, Running
<1>3. LinesInv' /\ KindInv'
  <2>1. \A i \in 1..Len(lines') : FALSE
    BY <1>2
  <2> QED
    BY <1>1, <1>2, <2>1 DEF LinesInv, KindInv
<1>4. DataInv'
  BY <1>1, <1>2 DEF DataInv
<1> QED
  BY <1>2, <1>3, <1>4

(* A call connects: it resumes from the cursor, which is no later than     *)
(* what the consumer has seen.                                             *)
LEMMA StreamEventsStep ==
    ASSUME IndInv, StreamEvents
    PROVE  IndInv'
<1>1. PICK from \in IF cursor > 0 THEN {cursor} ELSE {0, published} :
         Connected(from, <<"body", "errs", "events">>)
  BY DEF StreamEvents
<1>2. /\ pc \in {"idle", "done"} /\ next' = from + 1 /\ lines' = <<>> /\ conn' = "open" /\ cancelled' = FALSE
      /\ reading' = TRUE /\ pc' = "scan" /\ defers' = <<"body", "errs", "events">>
      /\ UNCHANGED <<published, faults>>
  BY <1>1 DEF Connected
<1>3. /\ errs' = <<>> /\ ev' = NoEvent /\ data' = <<>> /\ got' = <<>> /\ UNCHANGED <<cursor, seen>>
  BY DEF StreamEvents, Fresh
<1>4. next <= published + 1 /\ seen <= published /\ cursor <= seen /\ (cursor = 0 => seen = 0)
  BY DEF IndInv, SeqInv
<1>5. from \in Nat /\ from <= published /\ (seen > 0 => from <= seen)
  BY <1>1, <1>4, Numbers
<1>6. LinesInv' /\ KindInv' /\ DataInv' /\ FrameSeq' = 0 /\ Running'
  BY <1>2, <1>3, AtFrameStart
<1>7. TypeOK'
  <2>1. ev' \in [seq : 0..MaxPublished, kind : Texts]
    BY <1>3, BoundsAssumption DEF NoEvent, Texts
  <2>2. defers' \in Seq({"body", "errs", "events"}) /\ lines' \in Seq(Line) /\ data' \in Seq(Line)
    BY <1>2, <1>3
  <2>3. next' \in 1..MaxPublished + 1
    BY <1>2, <1>5, Numbers
  <2>4. SSETypeOK'
    BY <1>2, <2>2, <2>3 DEF IndInv, TypeOK, SSETypeOK
  <2> QED
    BY <1>3, <2>1, <2>2, <2>4 DEF IndInv, TypeOK
<1>8. SeqInv'
  BY <1>2, <1>3, <1>4, <1>5, <1>6, Numbers DEF SeqInv
<1>9. ResultInv' /\ WholeExceptLast' /\ OrderInv'
  <2>1. defers' # <<>> /\ Len(got') = 0 /\ \A i \in 1..Len(got') : FALSE
    BY <1>2, <1>3
  <2> QED
    BY <1>2, <1>3, <1>6, <2>1 DEF ResultInv, WholeExceptLast, OrderInv, UpTo
<1> QED
  BY <1>6, <1>7, <1>8, <1>9 DEF IndInv

(* A call does not connect.                                                *)
LEMMA ConnectFailsStep ==
    ASSUME IndInv, ConnectFails
    PROVE  IndInv'
<1>1. /\ pc \in {"idle", "done"} /\ faults < MaxFaults /\ faults' = faults + 1
      /\ conn' = "none" /\ cancelled' = FALSE /\ reading' = TRUE /\ lines' = <<>> /\ pc' = "return"
      /\ defers' = <<"errs", "events">> /\ errs' = <<"connect">>
      /\ ev' = NoEvent /\ data' = <<>> /\ got' = <<>> /\ UNCHANGED <<published, next, cursor, seen>>
  BY DEF ConnectFails, Fault, Fresh
<1>2. ev' \in [seq : 0..MaxPublished, kind : Texts]
  BY <1>1, BoundsAssumption DEF NoEvent, Texts
<1>3. /\ defers' \in Seq({"body", "errs", "events"}) /\ defers' # <<>> /\ lines' \in Seq(Line) /\ data' \in Seq(Line)
      /\ errs' \in Seq({"nil", "connect", "parse", "read", "ctx"}) /\ Len(errs') = 1 /\ errs'[1] = "connect"
  BY <1>1
<1>4. faults' \in 0..MaxFaults
  BY <1>1, Numbers
<1>5. SSETypeOK'
  BY <1>1, <1>3, <1>4 DEF IndInv, TypeOK, SSETypeOK
<1>6. TypeOK'
  BY <1>1, <1>2, <1>3, <1>5 DEF IndInv, TypeOK
<1>7. ~Running' /\ ResultInv'
  BY <1>1, <1>3 DEF Running, ResultInv
<1>8. WholeExceptLast'
  BY <1>1 DEF WholeExceptLast
<1> QED
  BY <1>1, <1>6, <1>7, <1>8, Stopped DEF IndInv, SeqInv

(* A page of history between two calls.                                    *)
LEMMA ListEventsStep ==
    ASSUME IndInv, ListEvents
    PROVE  IndInv' /\ (seen > 0 => seen' <= seen + 1)
<1>1. /\ pc \in {"idle", "done"} /\ cursor < published /\ cursor' = cursor + 1
      /\ seen' = IF cursor' > seen THEN cursor' ELSE seen
      /\ UNCHANGED <<published, next, lines, conn, faults, cancelled, reading, pc, defers, ev, data, errs, got>>
  BY DEF ListEvents, sseVars
<1>2. next <= published + 1 /\ seen <= published /\ cursor <= seen /\ (cursor = 0 => seen = 0)
  BY DEF IndInv, SeqInv
<1>3. /\ cursor' \in 0..MaxPublished /\ seen' \in 0..MaxPublished /\ seen' <= published /\ cursor' <= seen'
      /\ cursor' # 0 /\ seen' <= seen + 1
  BY <1>1, <1>2, Numbers
<1>4. TypeOK'
  BY <1>1, <1>3 DEF IndInv, TypeOK, SSETypeOK
<1>5. ~Running' /\ ResultInv' /\ WholeExceptLast'
  BY <1>1 DEF IndInv, Running, ResultInv, WholeExceptLast
<1> QED
  BY <1>1, <1>2, <1>3, <1>4, <1>5, Stopped

(* The scanner takes a line: the others move up, and none of them is an id. *)
LEMMA ScanFacts ==
    ASSUME IndInv, NEW f, Scanning(f)
    PROVE  /\ pc = "scan" /\ Running /\ LinesInv /\ KindInv /\ DataInv /\ OrderInv
           /\ Len(lines) \in Nat /\ Len(lines) >= 1 /\ Head(lines) = lines[1] /\ lines[1].field = f
           /\ Head(lines) \in Line
           /\ lines' \in Seq(Line) /\ Len(lines') = Len(lines) - 1 /\ (lines' = <<>> <=> Len(lines) = 1)
           /\ \A i \in 1..(Len(lines) - 1) : lines'[i] = lines[i + 1] /\ lines'[i].field # "id"
           /\ UNCHANGED <<published, next, conn, faults, cancelled, reading, defers>>
           /\ FrameSeq' = ev'.seq
<1>1. /\ pc = "scan" /\ lines # <<>> /\ Head(lines).field = f /\ lines' = Tail(lines)
      /\ UNCHANGED <<published, next, conn, faults, cancelled, reading, defers>>
  BY DEF Scanning
<1>2. Running /\ LinesInv /\ KindInv /\ DataInv /\ OrderInv
  BY <1>1 DEF IndInv, Running
<1>3. /\ Len(lines) \in Nat /\ Len(lines) >= 1 /\ Head(lines) = lines[1] /\ Head(lines) \in Line
      /\ lines' \in Seq(Line) /\ Len(lines') = Len(lines) - 1
      /\ \A i \in 1..(Len(lines) - 1) : lines'[i] = lines[i + 1]
  BY <1>1, Numbers, NonEmpty
<1>4. lines' = <<>> <=> Len(lines) = 1
  BY <1>3, EmptySeq
<1>5. \A i \in 1..Len(lines) : lines[i].field = "id" => i = 1
  BY <1>2 DEF LinesInv
<1>6. \A i \in 1..(Len(lines) - 1) : lines'[i].field # "id"
  <2> TAKE i \in 1..(Len(lines) - 1)
  <2>1. i + 1 \in 1..Len(lines) /\ i + 1 # 1
    BY <1>3
  <2> QED
    BY <1>3, <1>5, <2>1
<1>7. FrameSeq' = ev'.seq
  <2>1. lines' # <<>> => lines'[1].field # "id"
    BY <1>3, <1>4, <1>6
  <2> QED
    BY <2>1 DEF FrameSeq
<1> QED
  BY <1>1, <1>2, <1>3, <1>4, <1>6, <1>7

(* A field of the frame is read: the rest is still the rest of that frame. *)
LEMMA FieldStep ==
    ASSUME IndInv, NEW f \in {"id", "event", "data", "comment"}, Scanning(f),
           UNCHANGED <<pc, errs, got, cursor, seen>>,
           ev' \in [seq : 0..MaxPublished, kind : Texts], data' \in Seq(Line), ev'.seq = FrameSeq,
           \A i \in 1..Len(data') : data'[i].seq = FrameSeq,
           f = "data" => data' # <<>>,
           f \in {"data", "comment"} => ev' = ev,
           f # "data" => data' = data,
           ev'.kind = "cut" => Len(lines) = 1 /\ data' = <<>>,
           f # "event" => ev'.kind = ev.kind,
           f = "event" => ev'.kind = Head(lines).text,
           \A i \in 1..Len(data') : Fits(ev'.kind, data'[i])
    PROVE  IndInv'
<1>1. /\ pc = "scan" /\ Running /\ LinesInv /\ KindInv /\ DataInv /\ OrderInv
      /\ Len(lines) \in Nat /\ Len(lines) >= 1 /\ Head(lines) = lines[1] /\ lines[1].field = f
      /\ lines' \in Seq(Line) /\ Len(lines') = Len(lines) - 1 /\ (lines' = <<>> <=> Len(lines) = 1)
      /\ \A i \in 1..(Len(lines) - 1) : lines'[i] = lines[i + 1] /\ lines'[i].field # "id"
      /\ UNCHANGED <<published, next, conn, faults, cancelled, reading, defers>>
      /\ FrameSeq' = ev'.seq
  BY ScanFacts
<1>2. FrameSeq' = FrameSeq /\ pc' = "scan" /\ Running'
  BY <1>1 DEF Running
<1>3. /\ \A i \in 1..Len(lines) :
          /\ lines[i].field = "blank" => i = Len(lines)
          /\ lines[i].field = "event" => data = <<>> /\ (lines[i].text = "cut" => i = Len(lines))
          /\ lines[i].field = "data" => lines[i].seq = FrameSeq
      /\ \A i, j \in 1..Len(lines) : lines[i].field = "event" /\ lines[j].field = "data" => i < j
  BY <1>1 DEF LinesInv, KindInv
<1>4. /\ FrameSeq # 0 /\ HasData(lines) => FrameSeq = next - 1
      /\ Complete => \/ data # <<>> \/ HasData(lines)
                     \/ ev = NoEvent /\ \A i \in 1..Len(lines) : lines[i].field \notin {"id", "event"}
      /\ conn = "open" => Complete \/ lines = <<>>
  BY <1>1 DEF LinesInv
<1>5. Complete => Len(lines) # 1
  BY <1>1 DEF Complete
<1>6. Complete' <=> Complete
  <2>1. lines # <<>>
    BY <1>1
  <2>2. CASE Len(lines) = 1
    BY <1>1, <1>5, <2>2 DEF Complete
  <2>3. CASE Len(lines) # 1
    <3>1. lines'[Len(lines')] = lines[Len(lines)]
      BY <1>1, <2>3
    <3> QED
      BY <1>1, <2>1, <2>3, <3>1 DEF Complete
  <2> QED
    BY <2>2, <2>3
<1>7. \A i \in 1..Len(lines') : i + 1 \in 1..Len(lines) /\ lines'[i] = lines[i + 1] /\ lines'[i].field # "id"
  BY <1>1
<1>8. \A i \in 1..Len(lines') : lines'[i].field = "event" => data' = <<>>
  <2> SUFFICES ASSUME NEW i \in 1..Len(lines'), lines'[i].field = "event" PROVE data' = <<>>
    OBVIOUS
  <2>1. data = <<>>
    BY <1>3, <1>7
  <2>2. f # "data"
    <3> SUFFICES ASSUME f = "data" PROVE FALSE
      OBVIOUS
    <3>1. i + 1 < 1
      <4>1. 1 \in 1..Len(lines) /\ lines[1].field = "data"
        BY <1>1
      <4> QED
        BY <1>3, <1>7, <4>1
    <3> QED
      BY <3>1
  <2> QED
    BY <2>1, <2>2
<1>9. HasData(lines) => HasData(lines') \/ data' # <<>>
  <2> SUFFICES ASSUME HasData(lines), f # "data" PROVE HasData(lines')
    OBVIOUS
  <2>1. PICK i \in 1..Len(lines) : lines[i].field = "data"
    BY DEF HasData
  <2>2. i # 1
    BY <1>1, <2>1
  <2>3. i - 1 \in 1..Len(lines') /\ lines'[i - 1] = lines[i]
    BY <1>1, <2>2
  <2> QED
    BY <2>1, <2>3 DEF HasData
<1>10. data # <<>> => data' # <<>>
  OBVIOUS
<1>11. LinesInv'
  <2>1. ASSUME NEW i \in 1..Len(lines')
        PROVE  /\ lines'[i].field = "blank" => i = Len(lines')
               /\ lines'[i].field # "id"
               /\ lines'[i].text = "cut" /\ lines'[i].field = "event" => i = Len(lines')
               /\ lines'[i].field = "data" => lines'[i].seq = FrameSeq'
    <3>1. i + 1 \in 1..Len(lines) /\ lines'[i] = lines[i + 1] /\ lines'[i].field # "id"
      BY <1>7
    <3>2. PICK k \in 1..Len(lines) : k = i + 1
      BY <3>1
    <3>3. /\ lines[k].field = "blank" => k = Len(lines)
          /\ lines[k].field = "event" /\ lines[k].text = "cut" => k = Len(lines)
          /\ lines[k].field = "data" => lines[k].seq = FrameSeq
      BY <1>3
    <3>4. k = Len(lines) => i = Len(lines')
      BY <1>1, <3>2
    <3> QED
      BY <1>2, <3>1, <3>2, <3>3, <3>4
  <2>2. HasData(lines') => HasData(lines)
    BY <1>7 DEF HasData
  <2>3. lines' # <<>> => lines'[1].field # "id"
    BY <1>1, <2>1
  <2>4. Complete' => \/ data' # <<>> \/ HasData(lines')
                     \/ ev' = NoEvent /\ \A i \in 1..Len(lines') : lines'[i].field \notin {"id", "event"}
    <3> SUFFICES ASSUME Complete, data = <<>>, ~HasData(lines), ev = NoEvent,
                        \A i \in 1..Len(lines) : lines[i].field \notin {"id", "event"}
                 PROVE  ev' = NoEvent /\ \A i \in 1..Len(lines') : lines'[i].field \notin {"id", "event"}
      BY <1>4, <1>6, <1>9, <1>10
    <3>1. 1 \in 1..Len(lines)
      BY <1>1
    <3>2. f = "comment"
      BY <1>1, <3>1 DEF HasData
    <3>3. ev' = ev
      BY <3>2
    <3> QED
      BY <1>7, <3>3
  <2>5. ev'.kind = "cut" => lines' = <<>> /\ data' = <<>>
    BY <1>1
  <2>6. conn' = "open" => Complete'
    BY <1>1, <1>4, <1>6
  <2> QED
    BY <1>1, <1>2, <1>4, <1>8, <2>1, <2>2, <2>3, <2>4, <2>5, <2>6 DEF LinesInv
<1>12. DataInv'
  <2>1. data' # <<>> /\ ev'.seq # 0 => ev'.seq = next' - 1
    <3>1. CASE f # "data"
      BY <1>1, <1>2, <3>1 DEF DataInv, FrameSeq
    <3>2. CASE f = "data"
      <4>1. HasData(lines)
        <5>1. 1 \in 1..Len(lines)
          BY <1>1
        <5> QED
          BY <1>1, <3>2, <5>1 DEF HasData
      <4> QED
        BY <1>1, <1>2, <1>4, <4>1
    <3> QED
      BY <3>1, <3>2
  <2> QED
    BY <1>1, <1>2, <2>1 DEF DataInv
<1>13. KindInv'
  <2>1. ASSUME NEW i \in 1..Len(lines'), NEW j \in 1..Len(lines'), lines'[i].field = "event", lines'[j].field = "data"
        PROVE  i < j /\ Fits(lines'[i].text, lines'[j])
    <3>1. i + 1 < j + 1 /\ Fits(lines[i + 1].text, lines[j + 1])
      BY <1>1, <1>7, <2>1 DEF KindInv
    <3> QED
      BY <1>7, <3>1
  <2>2. ASSUME NEW j \in 1..Len(lines'), lines'[j].field = "data"
        PROVE  Fits(ev'.kind, lines'[j]) \/ \E i \in 1..Len(lines') : lines'[i].field = "event"
    <3>1. j + 1 \in 1..Len(lines) /\ lines[j + 1] = lines'[j] /\ lines[j + 1].field = "data"
      BY <1>7, <2>2
    <3>2. CASE f = "event"
      <4>1. 1 \in 1..Len(lines) /\ lines[1].field = "event"
        BY <1>1, <3>2
      <4>2. Fits(lines[1].text, lines[j + 1])
        BY <1>1, <3>1, <4>1 DEF KindInv
      <4> QED
        BY <1>1, <3>1, <3>2, <4>2
    <3>3. CASE f # "event"
      <4>1. Fits(ev.kind, lines[j + 1]) \/ \E i \in 1..Len(lines) : lines[i].field = "event"
        BY <1>1, <3>1 DEF KindInv
      <4>2. ASSUME NEW i \in 1..Len(lines), lines[i].field = "event"
            PROVE  \E k \in 1..Len(lines') : lines'[k].field = "event"
        <5>1. i # 1
          BY <1>1, <3>3, <4>2
        <5>2. i - 1 \in 1..Len(lines') /\ lines'[i - 1] = lines[i]
          BY <1>1, <5>1
        <5> QED
          BY <4>2, <5>2
      <4> QED
        BY <3>1, <3>3, <4>1, <4>2
    <3> QED
      BY <3>2, <3>3
  <2> QED
    BY <2>1, <2>2 DEF KindInv
<1>14. OrderInv'
  BY <1>1, <1>2 DEF OrderInv, UpTo
<1>15. TypeOK'
  BY <1>1 DEF IndInv, TypeOK, SSETypeOK
<1>16. SeqInv'
  BY <1>1, <1>2 DEF IndInv, SeqInv
<1>17. ResultInv' /\ WholeExceptLast'
  BY <1>1, <1>2 DEF IndInv, ResultInv, WholeExceptLast
<1> QED
  BY <1>2, <1>11, <1>12, <1>15, <1>16, <1>17, <1>13, <1>14 DEF IndInv

(* A line is read into the frame.                                          *)
LEMMA ScanFieldStep ==
    ASSUME IndInv, ScanField
    PROVE  IndInv'
<1>1. UNCHANGED <<pc, errs, got, cursor, seen>>
  BY DEF ScanField
<1>2. ASSUME NEW f, Scanning(f)
      PROVE  /\ f # "id" => FrameSeq = ev.seq
             /\ f = "id" => FrameSeq = Head(lines).seq /\ ev = NoEvent /\ data = <<>>
             /\ f = "id" /\ Head(lines).seq = 0 => Len(lines) = 1
             /\ f \in {"event", "data", "comment"} => ev.kind # "cut"
             /\ f = "event" => data = <<>> /\ (Head(lines).text = "cut" => Len(lines) = 1)
             /\ f = "data" => Head(lines).seq = FrameSeq /\ Fits(ev.kind, Head(lines))
             /\ FrameSeq \in 0..MaxPublished /\ Head(lines) \in Line
             /\ \A i \in 1..Len(data) : data[i].seq = ev.seq /\ Fits(ev.kind, data[i])
  <2>1. /\ pc = "scan" /\ Running /\ LinesInv /\ KindInv /\ DataInv
        /\ Len(lines) \in Nat /\ Len(lines) >= 1 /\ Head(lines) = lines[1] /\ lines[1].field = f
        /\ Head(lines) \in Line
    BY <1>2, ScanFacts
  <2>2. lines # <<>> /\ 1 \in 1..Len(lines)
    BY <2>1
  <2>3. FrameSeq = IF f = "id" THEN Head(lines).seq ELSE ev.seq
    BY <2>1, <2>2 DEF FrameSeq
  <2>4. /\ f = "event" => data = <<>> /\ (lines[1].text = "cut" => 1 = Len(lines))
        /\ f = "data" => lines[1].seq = FrameSeq
        /\ f = "id" => ev = NoEvent /\ data = <<>> /\ (lines[1].seq = 0 => Len(lines) = 1)
        /\ ev.kind # "cut"
    BY <2>1, <2>2 DEF LinesInv
  <2>5. FrameSeq < next
    BY <2>1 DEF IndInv, SeqInv
  <2>6. FrameSeq \in Nat
    BY <2>1, <2>3, Numbers DEF Line
  <2>7. FrameSeq \in 0..MaxPublished
    BY <2>5, <2>6, Numbers
  <2>8. \A i \in 1..Len(data) : data[i].seq = ev.seq /\ Fits(ev.kind, data[i])
    BY <2>1 DEF DataInv
  <2>9. f = "data" => Fits(ev.kind, lines[1])
    <3> SUFFICES ASSUME f = "data" PROVE Fits(ev.kind, lines[1])
      OBVIOUS
    <3>1. \A i \in 1..Len(lines) : lines[i].field = "event" => i < 1
      BY <2>1, <2>2 DEF KindInv
    <3>2. ~ \E i \in 1..Len(lines) : lines[i].field = "event"
      BY <2>1, <3>1
    <3> QED
      BY <2>1, <2>2, <3>2 DEF KindInv
  <2> QED
    BY <2>1, <2>3, <2>4, <2>7, <2>8, <2>9
<1>3. ev \in [seq : 0..MaxPublished, kind : Texts] /\ data \in Seq(Line)
  BY DEF IndInv, TypeOK
<1>4. CASE Scanning("id") /\ UNCHANGED data
           /\ ev' = IF Head(lines).seq = 0 THEN ev ELSE [ev EXCEPT !.seq = Head(lines).seq]
  <2>1. /\ FrameSeq = Head(lines).seq /\ ev = NoEvent /\ data = <<>> /\ FrameSeq \in 0..MaxPublished
        /\ Head(lines).seq = 0 => Len(lines) = 1
    BY <1>2, <1>4
  <2>2. ev.seq = 0 /\ ev.kind = "none"
    BY <2>1 DEF NoEvent
  <2>3. PICK n : n = Head(lines).seq
    OBVIOUS
  <2>4. [ev EXCEPT !.seq = n] \in [seq : 0..MaxPublished, kind : Texts]
        /\ [ev EXCEPT !.seq = n].seq = n /\ [ev EXCEPT !.seq = n].kind = "none"
    BY <1>3, <2>1, <2>2, <2>3
  <2>5. ev' \in [seq : 0..MaxPublished, kind : Texts] /\ ev'.seq = FrameSeq /\ ev'.kind = "none"
    BY <1>3, <1>4, <2>1, <2>2, <2>3, <2>4
  <2>6. data' = data /\ Len(data') = 0 /\ data' \in Seq(Line)
    BY <1>3, <1>4, <2>1
  <2>7. \A i \in 1..Len(data') : data'[i].seq = FrameSeq /\ Fits(ev'.kind, data'[i])
    BY <2>6
  <2> QED
    BY <1>1, <1>4, <2>2, <2>5, <2>6, <2>7, FieldStep
<1>5. CASE Scanning("event") /\ ev' = [ev EXCEPT !.kind = Head(lines).text] /\ UNCHANGED data
  <2>1. /\ FrameSeq = ev.seq /\ data = <<>> /\ Head(lines) \in Line
        /\ Head(lines).text = "cut" => Len(lines) = 1
    BY <1>2, <1>5
  <2>2. PICK t : t = Head(lines).text
    OBVIOUS
  <2>3. t \in Texts
    BY <2>1, <2>2 DEF Line
  <2>4. ev' = [ev EXCEPT !.kind = t]
    BY <1>5, <2>2
  <2>5. ev' \in [seq : 0..MaxPublished, kind : Texts] /\ ev'.seq = FrameSeq /\ ev'.kind = t
    BY <1>3, <2>1, <2>3, <2>4
  <2>6. data' = data /\ data' = <<>> /\ Len(data') = 0 /\ data' \in Seq(Line)
    BY <1>3, <1>5, <2>1
  <2>7. \A i \in 1..Len(data') : data'[i].seq = FrameSeq /\ Fits(ev'.kind, data'[i])
    BY <2>6
  <2>8. ev'.kind = "cut" => Len(lines) = 1
    BY <2>1, <2>2, <2>5
  <2> QED
    BY <1>1, <1>5, <2>2, <2>5, <2>6, <2>7, <2>8, FieldStep
<1>6. CASE Scanning("data") /\ data' = Append(data, Head(lines)) /\ UNCHANGED ev
  <2>1. /\ FrameSeq = ev.seq /\ Head(lines).seq = FrameSeq /\ Head(lines) \in Line /\ ev.kind # "cut"
        /\ Fits(ev.kind, Head(lines))
        /\ \A i \in 1..Len(data) : data[i].seq = ev.seq /\ Fits(ev.kind, data[i])
    BY <1>2, <1>6
  <2>2. PICK x : x = Head(lines)
    OBVIOUS
  <2>3. /\ data' \in Seq(Line) /\ Len(data) \in Nat /\ Len(data') = Len(data) + 1 /\ data'[Len(data) + 1] = x
        /\ \A i \in 1..Len(data) : data'[i] = data[i]
    BY <1>3, <1>6, <2>1, <2>2
  <2>4. data' # <<>>
    BY <2>3, EmptySeq
  <2>5. \A i \in 1..Len(data') : data'[i].seq = FrameSeq /\ Fits(ev'.kind, data'[i])
    <3>1. \A i \in 1..Len(data') : i \in 1..Len(data) \/ i = Len(data) + 1
      BY <2>3
    <3> QED
      BY <1>6, <2>1, <2>2, <2>3, <3>1
  <2>6. ev' = ev /\ ev' \in [seq : 0..MaxPublished, kind : Texts] /\ ev'.seq = FrameSeq /\ ev'.kind # "cut"
    BY <1>3, <1>6, <2>1
  <2> QED
    BY <1>1, <1>6, <2>3, <2>4, <2>5, <2>6, FieldStep
<1>7. CASE Scanning("comment") /\ UNCHANGED <<ev, data>>
  <2>1. /\ FrameSeq = ev.seq /\ ev.kind # "cut"
        /\ \A i \in 1..Len(data) : data[i].seq = ev.seq /\ Fits(ev.kind, data[i])
    BY <1>2, <1>7
  <2>2. \A i \in 1..Len(data') : data'[i].seq = FrameSeq /\ Fits(ev'.kind, data'[i])
    BY <1>7, <2>1
  <2>3. ev' = ev /\ data' = data /\ ev' \in [seq : 0..MaxPublished, kind : Texts] /\ data' \in Seq(Line)
        /\ ev'.seq = FrameSeq /\ ev'.kind # "cut"
    BY <1>3, <1>7, <2>1
  <2> QED
    BY <1>1, <1>7, <2>2, <2>3, FieldStep
<1> QED
  BY <1>4, <1>5, <1>6, <1>7 DEF ScanField

(* The blank line: an empty frame is skipped, one that does not parse ends *)
(* the call, and the others are whole.                                     *)
LEMMA FlushStep ==
    ASSUME IndInv, Flush
    PROVE  IndInv'
<1>1. Scanning("blank") /\ UNCHANGED <<ev, data, got, cursor, seen>>
  BY DEF Flush
<1>2. /\ pc = "scan" /\ Running /\ LinesInv /\ DataInv /\ OrderInv
      /\ Len(lines) \in Nat /\ Len(lines) >= 1 /\ Head(lines) = lines[1] /\ lines[1].field = "blank"
      /\ lines' \in Seq(Line) /\ Len(lines') = Len(lines) - 1 /\ (lines' = <<>> <=> Len(lines) = 1)
      /\ UNCHANGED <<published, next, conn, faults, cancelled, reading, defers>>
      /\ FrameSeq' = ev'.seq
  BY <1>1, ScanFacts
<1>3. Len(lines) = 1 /\ lines # <<>> /\ lines' = <<>>
  BY <1>2 DEF LinesInv
<1>4. FrameSeq = ev.seq /\ FrameSeq' = ev.seq /\ Complete /\ ~HasData(lines)
  BY <1>1, <1>2, <1>3 DEF FrameSeq, Complete, HasData
<1>5. CASE Empty /\ UNCHANGED <<pc, errs>>
  <2>1. ev' = NoEvent /\ data' = <<>> /\ pc' = "scan" /\ ev.seq = 0
    BY <1>1, <1>2, <1>5 DEF Empty, NoEvent
  <2>2. LinesInv' /\ KindInv' /\ DataInv' /\ FrameSeq' = 0 /\ Running'
    BY <1>3, <2>1, AtFrameStart
  <2>3. OrderInv'
    BY <1>1, <1>2, <1>4, <2>1, <2>2 DEF OrderInv, UpTo
  <2>4. TypeOK'
    BY <1>1, <1>2, <1>5 DEF IndInv, TypeOK, SSETypeOK
  <2>5. SeqInv'
    BY <1>1, <1>2, <1>4, <1>5, <2>1, <2>2 DEF IndInv, SeqInv
  <2>6. ResultInv' /\ WholeExceptLast'
    BY <1>1, <1>2, <1>5, <2>1, <2>2 DEF IndInv, ResultInv, WholeExceptLast
  <2> QED
    BY <2>2, <2>4, <2>5, <2>6, <2>3 DEF IndInv
<1>6. CASE Result("parse")
  BY <1>1, <1>2, <1>6, ResultStep
<1>7. CASE ~Empty /\ Parses(data) /\ pc' = "send" /\ UNCHANGED errs
  <2>1. Running' /\ pc' = "send"
    BY <1>7 DEF Running
  <2>2. data # <<>>
    BY <1>2, <1>3, <1>4, <1>7 DEF LinesInv, Empty
  <2>3. /\ \A i \in 1..Len(data) : data[i].seq = ev.seq /\ Fits(ev.kind, data[i])
        /\ ev.seq # 0 => ev.seq = next - 1
    BY <1>2, <2>2 DEF DataInv
  <2>4. Parses(data')
    BY <1>1, <1>7
  <2>5. DataInv'
    BY <1>1, <1>2, <1>3, <2>1, <2>2, <2>3, <2>4 DEF DataInv
  <2>6. TypeOK'
    BY <1>1, <1>2, <1>7 DEF IndInv, TypeOK, SSETypeOK
  <2>7. SeqInv'
    BY <1>1, <1>2, <1>4, <2>1 DEF IndInv, SeqInv
  <2>8. ResultInv' /\ WholeExceptLast' /\ OrderInv'
    BY <1>1, <1>2, <1>4, <1>7, <2>1 DEF IndInv, ResultInv, WholeExceptLast, OrderInv, UpTo
  <2> QED
    BY <2>1, <2>5, <2>6, <2>7, <2>8 DEF IndInv
<1> QED
  BY <1>5, <1>6, <1>7 DEF Flush

(* The flush after the clean end of the body.                              *)
LEMMA FinalFlushStep ==
    ASSUME IndInv, FinalFlush
    PROVE  IndInv'
<1>1. /\ pc = "final"
      /\ UNCHANGED <<published, next, lines, conn, faults, cancelled, reading, defers, ev, data, got, cursor, seen>>
  BY DEF FinalFlush
<1>2. Running /\ DataInv /\ OrderInv /\ conn = "eof" /\ lines' \in Seq(Line)
  BY <1>1, Numbers DEF IndInv, Running, DataInv
<1>3. CASE Result("nil") \/ Result("parse")
  BY <1>1, <1>2, <1>3, ResultStep
<1>4. CASE Parses(data) /\ pc' = "sendFinal" /\ UNCHANGED errs
  <2>1. Running' /\ FrameSeq' = FrameSeq
    BY <1>1, <1>4 DEF Running, FrameSeq
  <2>2. Parses(data')
    BY <1>1, <1>4
  <2>3. DataInv'
    BY <1>1, <1>2, <1>4, <2>2 DEF DataInv
  <2>4. TypeOK'
    BY <1>1, <1>4 DEF IndInv, TypeOK, SSETypeOK
  <2>5. SeqInv'
    BY <1>1, <1>2, <1>4, <2>1 DEF IndInv, SeqInv
  <2>6. ResultInv' /\ WholeExceptLast' /\ OrderInv'
    BY <1>1, <1>2, <1>4, <2>1 DEF IndInv, ResultInv, WholeExceptLast, OrderInv, UpTo
  <2> QED
    BY <1>4, <2>3, <2>4, <2>5, <2>6 DEF IndInv
<1> QED
  BY <1>3, <1>4 DEF FinalFlush

(* The event that is handed over: whole, or without payload when the body  *)
(* ended inside its frame; and its Seq is at most one beyond the others.   *)
LEMMA AssembledFacts ==
    ASSUME IndInv, pc \in {"send", "sendFinal"}
    PROVE  /\ Assembled \in [seq : 0..MaxPublished, kind : Texts, payload : NoPayload..MaxPublished]
           /\ Assembled.seq = ev.seq
           /\ Running /\ lines = <<>> /\ FrameSeq = ev.seq /\ ev.seq < next /\ ev.seq \in Nat
           /\ seen > 0 => ev.seq <= seen + 1
           /\ pc = "send" => Whole(Assembled)
           /\ Numbered(Assembled) => ev.seq = next - 1
           /\ ev.seq # 0 /\ pc = "send" => Numbered(Assembled)
           /\ pc = "sendFinal" => conn = "eof" /\ (Whole(Assembled) \/ Assembled.payload = NoPayload)
<1>1. Running /\ DataInv
  BY DEF IndInv, Running
<1>2. lines = <<>>
  BY <1>1 DEF DataInv
<1>3. FrameSeq = ev.seq
  BY <1>2 DEF FrameSeq
<1>4. ev.seq < next /\ (seen > 0 => ev.seq <= seen + 1)
  BY <1>1, <1>3 DEF IndInv, SeqInv
<1>5. PICK y : y = IF data = <<>> THEN NoPayload ELSE data[1].seq
  OBVIOUS
<1>6. data # <<>> => y = ev.seq /\ Fits(ev.kind, data[1])
  <2>1. data # <<>> => 1 \in 1..Len(data)
    BY Numbers, EmptySeq
  <2> QED
    BY <1>1, <1>5, <2>1 DEF DataInv
<1>7. y \in NoPayload..MaxPublished
  BY <1>5, <1>6, Numbers DEF NoPayload
<1>8. Assembled = [seq |-> ev.seq, kind |-> ev.kind, payload |-> y]
  BY <1>5 DEF Assembled
<1>9. Assembled \in [seq : 0..MaxPublished, kind : Texts, payload : NoPayload..MaxPublished]
  BY <1>7, <1>8, Numbers
<1>10. Assembled.seq = ev.seq /\ Assembled.kind = ev.kind /\ Assembled.payload = y
  BY <1>8
<1>11. data # <<>> => Whole(Assembled)
  <2> SUFFICES ASSUME data # <<>> PROVE Whole(Assembled)
    OBVIOUS
  <2>1. y = ev.seq /\ Fits(ev.kind, data[1]) /\ data[1].seq = ev.seq
    BY <1>5, <1>6
  <2>2. data[1].text \in {"whole", "head"}
    BY <1>1 DEF DataInv, Parses
  <2>3. CASE ev.seq = 0
    <3>1. ev.kind = "unrelated"
      BY <2>1, <2>2, <2>3 DEF Fits
    <3>2. Assembled = [seq |-> 0, kind |-> "unrelated", payload |-> 0]
      BY <1>8, <2>1, <2>3, <3>1
    <3> QED
      BY <3>2 DEF Whole
  <2>4. CASE ev.seq # 0
    <3>1. ev.kind = "message" /\ ev.seq > 0
      BY <2>1, <2>4, Numbers DEF Fits
    <3> QED
      BY <1>10, <2>1, <3>1 DEF Whole, Numbered
  <2> QED
    BY <2>3, <2>4
<1>12. pc = "send" => data # <<>>
  BY <1>1 DEF DataInv
<1>13. Numbered(Assembled) => ev.seq = next - 1
  <2> SUFFICES ASSUME Numbered(Assembled) PROVE ev.seq = next - 1
    OBVIOUS
  <2>1. ev.seq > 0 /\ y = ev.seq
    BY <1>10 DEF Numbered
  <2>2. data # <<>>
    BY <1>5, <2>1 DEF NoPayload
  <2> QED
    BY <1>1, <2>1, <2>2, Numbers DEF DataInv
<1>14. ev.seq # 0 /\ pc = "send" => Numbered(Assembled)
  BY <1>6, <1>10, <1>12, Numbers DEF Numbered
<1>15. pc = "sendFinal" => conn = "eof" /\ (Whole(Assembled) \/ Assembled.payload = NoPayload)
  BY <1>1, <1>5, <1>10, <1>11 DEF DataInv
<1> QED
  BY <1>1, <1>2, <1>3, <1>4, <1>9, <1>10, <1>11, <1>12, <1>13, <1>14, <1>15, Numbers

(* One more event keeps the order: a numbered one is the next, and the     *)
(* others do not count.                                                    *)
LEMMA Appended ==
    ASSUME IndInv, NEW e \in [seq : 0..MaxPublished, kind : Texts, payload : NoPayload..MaxPublished],
           NEW n \in Nat, UpTo(n), Numbered(e) => e.seq = n, got' = Append(got, e)
    PROVE  /\ Numbered(e) => UpTo(n + 1)'
           /\ ~Numbered(e) => UpTo(n)'
           /\ \A i, j \in 1..Len(got') : i < j /\ Numbered(got'[i]) /\ Numbered(got'[j]) =>
                 /\ got'[i].seq < got'[j].seq
                 /\ \A m \in got'[i].seq..got'[j].seq : \E k \in i..j : got'[k].seq = m
<1>1. got \in Seq([seq : 0..MaxPublished, kind : Texts, payload : NoPayload..MaxPublished])
  BY DEF IndInv, TypeOK
<1>2. /\ Len(got) \in Nat /\ Len(got') = Len(got) + 1 /\ got'[Len(got) + 1] = e
      /\ \A i \in 1..Len(got) : got'[i] = got[i] /\ got[i].seq \in Nat
  <2>1. /\ Len(got) \in Nat /\ Len(got') = Len(got) + 1 /\ got'[Len(got) + 1] = e
        /\ \A i \in 1..Len(got) : got'[i] = got[i]
    <3>1. PICK S : S = [seq : 0..MaxPublished, kind : Texts, payload : NoPayload..MaxPublished]
      OBVIOUS
    <3>2. got \in Seq(S) /\ e \in S
      BY <1>1, <3>1
    <3> QED
      BY <3>2
  <2>2. \A i \in 1..Len(got) : got[i].seq \in Nat
    <3>1. PICK S : S = [seq : 0..MaxPublished, kind : Texts, payload : NoPayload..MaxPublished]
      OBVIOUS
    <3>2. got \in Seq(S)
      BY <1>1, <3>1
    <3>3. \A i \in 1..Len(got) : got[i] \in S
      BY <3>2
    <3>4. \A x \in S : x.seq \in Nat
      BY <3>1, BoundsAssumption
    <3> QED
      BY <3>3, <3>4
  <2> QED
    BY <2>1, <2>2
<1>3. PICK len \in Nat : len = Len(got)
  BY <1>2
<1>4. /\ \A i \in 1..Len(got') : i \in 1..len \/ i = len + 1
      /\ \A i \in 1..len : i \in 1..Len(got') /\ got'[i] = got[i] /\ got[i].seq \in Nat
      /\ got'[len + 1] = e /\ Len(got') = len + 1
  BY <1>2, <1>3
<1>5. ASSUME NEW i \in 1..len, Numbered(got[i])
      PROVE  got[i].seq < n /\ \A m \in got[i].seq..(n - 1) : \E k \in i..len : got'[k].seq = m
  <2>1. /\ got[i].seq < n
        /\ \A m \in got[i].seq..(n - 1) : \E k \in i..len : got[k].seq = m
    BY <1>3, <1>5 DEF UpTo
  <2>2. \A k \in i..len : k \in 1..len
    OBVIOUS
  <2> QED
    BY <1>4, <2>1, <2>2
<1>6. ASSUME NEW i \in 1..len, Numbered(got[i]), Numbered(e)
      PROVE  got[i].seq < n /\ \A m \in got[i].seq..n : \E k \in i..(len + 1) : got'[k].seq = m
  <2> SUFFICES ASSUME NEW m \in got[i].seq..n PROVE \E k \in i..(len + 1) : got'[k].seq = m
    BY <1>5, <1>6
  <2>1. CASE m = n
    <3>1. len + 1 \in i..(len + 1) /\ got'[len + 1].seq = n
      BY <1>4, <1>6
    <3> QED
      BY <1>5, <1>6, <2>1, <3>1
  <2>2. CASE m # n
    <3>1. m \in got[i].seq..(n - 1)
      BY <1>4, <2>2
    <3>2. \A k \in i..len : k \in i..(len + 1)
      OBVIOUS
    <3> QED
      BY <1>5, <1>6, <3>1, <3>2
  <2> QED
    BY <2>1, <2>2
<1>7. ASSUME NEW i \in 1..len, Numbered(got[i])
       PROVE  got[i].seq < n
  BY <1>5, <1>7
<1>8. ASSUME Numbered(e) PROVE UpTo(n + 1)'
  <2> SUFFICES ASSUME NEW i \in 1..Len(got'), Numbered(got'[i])
               PROVE  /\ got'[i].seq < n + 1
                      /\ \A m \in got'[i].seq..((n + 1) - 1) : \E k \in i..Len(got') : got'[k].seq = m
    BY DEF UpTo
  <2>1. (n + 1) - 1 = n
    OBVIOUS
  <2>2. CASE i \in 1..len
    <3>1. /\ got[i].seq < n
          /\ \A m \in got[i].seq..n : \E k \in i..(len + 1) : got'[k].seq = m
      BY <1>4, <1>6, <1>8, <2>2
    <3>2. got'[i] = got[i] /\ got[i].seq \in Nat
      BY <1>4, <2>2
    <3>3. got[i].seq < n + 1
      BY <3>1, <3>2
    <3> QED
      BY <1>4, <2>1, <3>1, <3>2, <3>3
  <2>3. CASE i = len + 1
    <3>1. got'[i].seq = n /\ i \in i..Len(got')
      BY <1>4, <1>8, <2>3
    <3>2. \A m \in n..n : m = n
      OBVIOUS
    <3> QED
      BY <2>1, <3>1, <3>2
  <2> QED
    BY <1>4, <2>2, <2>3
<1>9. ASSUME ~Numbered(e) PROVE UpTo(n)'
  <2> SUFFICES ASSUME NEW i \in 1..Len(got'), Numbered(got'[i])
               PROVE  /\ got'[i].seq < n
                      /\ \A m \in got'[i].seq..(n - 1) : \E k \in i..Len(got') : got'[k].seq = m
    BY DEF UpTo
  <2>1. i \in 1..len
    BY <1>4, <1>9
  <2>2. \A k \in i..len : k \in i..Len(got')
    BY <1>4
  <2> QED
    BY <1>4, <1>5, <2>1, <2>2
<1>10. \A i, j \in 1..Len(got') : i < j /\ Numbered(got'[i]) /\ Numbered(got'[j]) =>
          /\ got'[i].seq < got'[j].seq
          /\ \A m \in got'[i].seq..got'[j].seq : \E k \in i..j : got'[k].seq = m
  <2> TAKE i, j \in 1..Len(got')
  <2> HAVE i < j /\ Numbered(got'[i]) /\ Numbered(got'[j])
  <2>1. i \in 1..len
    BY <1>4
  <2>2. CASE j \in 1..len
    <3>1. i \in 1..Len(got) /\ j \in 1..Len(got) /\ Numbered(got[i]) /\ Numbered(got[j])
      BY <1>3, <1>4, <2>1, <2>2
    <3>2. /\ got[i].seq < got[j].seq
          /\ \A m \in got[i].seq..got[j].seq : \E k \in i..j : got[k].seq = m
      BY <3>1 DEF IndInv, WholeExceptLast
    <3>3. \A k \in i..j : k \in 1..len
      BY <2>1, <2>2
    <3> QED
      BY <1>4, <2>1, <2>2, <3>2, <3>3
  <2>3. CASE j = len + 1
    <3>1. Numbered(e) /\ got'[j].seq = n /\ Numbered(got[i]) /\ got'[i] = got[i]
      BY <1>4, <2>1, <2>3
    <3> QED
      BY <1>6, <1>7, <2>1, <2>3, <3>1
  <2> QED
    BY <1>4, <2>2, <2>3
<1> QED
  BY <1>8, <1>9, <1>10

(* The consumer receives an event.                                         *)
LEMMA SendEventStep ==
    ASSUME IndInv, SendEvent
    PROVE  IndInv' /\ (seen > 0 => seen' <= seen + 1)
<1>1. /\ pc \in {"send", "sendFinal"} /\ got' = Append(got, Assembled)
      /\ cursor' = IF ev.seq = 0 THEN cursor ELSE ev.seq
      /\ seen' = IF ev.seq > seen THEN ev.seq ELSE seen
      /\ ev' = NoEvent /\ data' = <<>>
      /\ UNCHANGED <<published, next, lines, conn, faults, cancelled, reading, defers>>
  BY DEF SendEvent
<1>2. PICK e : e = Assembled
  OBVIOUS
<1>3. /\ e \in [seq : 0..MaxPublished, kind : Texts, payload : NoPayload..MaxPublished]
      /\ e.seq = ev.seq
      /\ Running /\ lines = <<>> /\ FrameSeq = ev.seq /\ ev.seq < next /\ ev.seq \in Nat
      /\ seen > 0 => ev.seq <= seen + 1
      /\ pc = "send" => Whole(e)
      /\ Numbered(e) => ev.seq = next - 1
      /\ ev.seq # 0 /\ pc = "send" => Numbered(e)
      /\ pc = "sendFinal" => conn = "eof" /\ (Whole(e) \/ e.payload = NoPayload)
  BY <1>1, <1>2, AssembledFacts
<1>4. next <= published + 1 /\ seen <= published /\ cursor <= seen /\ (cursor = 0 => seen = 0)
  BY DEF IndInv, SeqInv
<1>5. /\ cursor' \in 0..MaxPublished /\ seen' \in 0..MaxPublished /\ seen' <= published /\ cursor' <= seen'
      /\ cursor' = 0 => seen' = 0
      /\ seen > 0 => seen' <= seen + 1
      /\ ev.seq <= seen' /\ seen <= seen'
  BY <1>1, <1>3, <1>4, Numbers
<1>6. got \in Seq([seq : 0..MaxPublished, kind : Texts, payload : NoPayload..MaxPublished])
  BY DEF IndInv, TypeOK
<1>7. /\ got' \in Seq([seq : 0..MaxPublished, kind : Texts, payload : NoPayload..MaxPublished])
      /\ Len(got) \in Nat /\ Len(got') = Len(got) + 1 /\ got'[Len(got) + 1] = e
      /\ \A i \in 1..Len(got) : got'[i] = got[i]
  BY <1>1, <1>2, <1>3, <1>6
<1>8. \A i \in 1..Len(got) : Whole(got[i])
  BY <1>3 DEF IndInv, ResultInv
<1>9. \A i \in 1..Len(got') : Whole(got'[i]) \/ (i = Len(got') /\ got'[i] = e)
  <2>1. \A i \in 1..Len(got') : i \in 1..Len(got) \/ i = Len(got) + 1
    BY <1>7
  <2> QED
    BY <1>7, <1>8, <2>1
<1>10. got' = Append(got, e) /\ (Whole(e) \/ e.payload = NoPayload) /\ e.seq \in Nat /\ OrderInv
  BY <1>1, <1>2, <1>3 DEF IndInv
<1>11. ev.seq = 0 => ~Numbered(e)
  BY <1>3 DEF Numbered
<1>12. /\ ev.seq # 0 /\ Numbered(e) => UpTo(next)'
       /\ ev.seq = 0 /\ conn = "open" => UpTo(next)'
       /\ ev.seq # 0 \/ conn = "open" =>
             \A i, j \in 1..Len(got') : i < j /\ Numbered(got'[i]) /\ Numbered(got'[j]) =>
                 /\ got'[i].seq < got'[j].seq
                 /\ \A m \in got'[i].seq..got'[j].seq : \E k \in i..j : got'[k].seq = m
  <2>1. PICK n : n = next
    OBVIOUS
  <2>2. n \in Nat /\ n - 1 \in Nat /\ (n - 1) + 1 = n /\ n' = next'
    BY <1>1, <2>1, Numbers
  <2>3. CASE ev.seq # 0
    <3>1. UpTo(n - 1) /\ (Numbered(e) => e.seq = n - 1)
      BY <1>3, <1>10, <2>1, <2>3 DEF OrderInv
    <3>2. /\ Numbered(e) => UpTo((n - 1) + 1)'
          /\ \A i, j \in 1..Len(got') : i < j /\ Numbered(got'[i]) /\ Numbered(got'[j]) =>
                 /\ got'[i].seq < got'[j].seq
                 /\ \A m \in got'[i].seq..got'[j].seq : \E k \in i..j : got'[k].seq = m
      BY <1>3, <1>10, <2>2, <3>1, Appended
    <3>3. Numbered(e) => UpTo(n)'
      BY <2>2, <3>2
    <3>4. UpTo(n)' => UpTo(next)'
      BY <1>1, <2>1 DEF UpTo
    <3> QED
      BY <2>3, <3>2, <3>3, <3>4
  <2>4. CASE ev.seq = 0 /\ conn = "open"
    <3>1. UpTo(n) /\ ~Numbered(e)
      BY <1>3, <1>10, <1>11, <2>1, <2>4 DEF OrderInv
    <3>2. /\ UpTo(n)'
          /\ \A i, j \in 1..Len(got') : i < j /\ Numbered(got'[i]) /\ Numbered(got'[j]) =>
                 /\ got'[i].seq < got'[j].seq
                 /\ \A m \in got'[i].seq..got'[j].seq : \E k \in i..j : got'[k].seq = m
      BY <1>3, <1>10, <2>2, <3>1, Appended
    <3>3. UpTo(n)' => UpTo(next)'
      BY <1>1, <2>1 DEF UpTo
    <3> QED
      BY <2>4, <3>2, <3>3
  <2> QED
    BY <2>3, <2>4
<1>13. \A i, j \in 1..Len(got') : i < j /\ Numbered(got'[i]) /\ Numbered(got'[j]) =>
          /\ got'[i].seq < got'[j].seq
          /\ \A m \in got'[i].seq..got'[j].seq : \E k \in i..j : got'[k].seq = m
  <2>1. CASE ev.seq # 0
    BY <1>12, <2>1
  <2>2. CASE ev.seq = 0
    <3> SUFFICES ASSUME NEW i \in 1..Len(got'), NEW j \in 1..Len(got'),
                        i < j, Numbered(got'[i]), Numbered(got'[j])
                 PROVE  /\ got'[i].seq < got'[j].seq
                        /\ \A m \in got'[i].seq..got'[j].seq : \E k \in i..j : got'[k].seq = m
      OBVIOUS
    <3>1. PICK len \in Nat : len = Len(got)
      BY <1>7
    <3>2. Len(got') = len + 1
      BY <1>7, <3>1
    <3>3. \A k \in 1..Len(got') : k \in 1..len \/ k = len + 1
      BY <3>2
    <3>4. got'[len + 1] = e /\ ~Numbered(e)
      BY <1>7, <1>11, <2>2, <3>1
    <3>5. i # len + 1 /\ j # len + 1
      BY <3>4
    <3>6. i \in 1..Len(got) /\ j \in 1..Len(got)
      BY <3>1, <3>3, <3>5
    <3>7. /\ got[i].seq < got[j].seq
          /\ \A m \in got[i].seq..got[j].seq : \E k \in i..j : got[k].seq = m
      BY <1>7, <3>6 DEF IndInv, WholeExceptLast
    <3>8. \A k \in i..j : k \in 1..Len(got)
      BY <1>7, <3>6
    <3> QED
      BY <1>7, <3>6, <3>7, <3>8
  <2> QED
    BY <2>1, <2>2
<1>14. WholeExceptLast'
  <2>1. \A i \in 1..Len(got') : Whole(got'[i]) \/ (i = Len(got') /\ got'[i].payload = NoPayload /\ conn' = "eof")
    BY <1>1, <1>3, <1>9
  <2> QED
    BY <1>13, <2>1 DEF WholeExceptLast
<1>15. errs = <<>> /\ defers # <<>>
  BY <1>3 DEF IndInv, ResultInv
<1>16. ev' \in [seq : 0..MaxPublished, kind : Texts] /\ data' \in Seq(Line)
  BY <1>1, BoundsAssumption DEF NoEvent, Texts
<1>17. CASE pc = "send" /\ pc' = "scan" /\ UNCHANGED errs
  <2>1. LinesInv' /\ KindInv' /\ DataInv' /\ FrameSeq' = 0 /\ Running'
    BY <1>1, <1>3, <1>17, AtFrameStart
  <2>2. TypeOK'
    <3>1. SSETypeOK'
      BY <1>1, <1>17 DEF IndInv, TypeOK, SSETypeOK
    <3> QED
      BY <1>5, <1>7, <1>16, <1>17, <3>1 DEF IndInv, TypeOK
  <2>3. ev.seq # 0 => ev.seq = next - 1
    BY <1>3, <1>17
  <2>4. conn = "open" /\ seen > 0 => next <= seen + (IF FrameSeq # 0 THEN 2 ELSE 1)
    BY <1>17 DEF IndInv, SeqInv
  <2>5. conn' = "open" /\ seen' > 0 => next' <= seen' + 1
    BY <1>1, <1>3, <1>5, <2>3, <2>4, Numbers
  <2>6. SeqInv'
    BY <1>1, <1>4, <1>5, <1>17, <2>1, <2>5, Numbers DEF SeqInv
  <2>7. ResultInv'
    <3>1. \A i \in 1..Len(got') : Whole(got'[i])
      BY <1>3, <1>9, <1>17
    <3> QED
      BY <1>1, <1>15, <1>17, <3>1 DEF ResultInv
  <2>8. OrderInv'
    <3>1. conn = "open" => UpTo(next)'
      BY <1>3, <1>17, <1>12
    <3> QED
      BY <1>1, <2>1, <3>1 DEF OrderInv
  <2> QED
    BY <1>5, <1>14, <2>1, <2>2, <2>6, <2>7, <2>8 DEF IndInv
<1>18. CASE pc = "sendFinal" /\ Result("nil")
  <2>1. pc' = "return" /\ errs' = Append(errs, "nil")
    BY <1>18 DEF Result
  <2>2. errs' = <<"nil">> /\ errs' \in Seq({"nil", "connect", "parse", "read", "ctx"}) /\ Len(errs') = 1
    BY <1>15, <2>1
  <2>3. TypeOK'
    <3>1. SSETypeOK'
      BY <1>1, <2>1 DEF IndInv, TypeOK, SSETypeOK
    <3> QED
      BY <1>5, <1>7, <1>16, <2>2, <3>1 DEF TypeOK
  <2>4. ResultInv' /\ ~Running'
    BY <1>1, <1>3, <1>15, <1>18, <2>1, <2>2 DEF ResultInv, Running
  <2> QED
    BY <1>1, <1>4, <1>5, <1>14, <2>3, <2>4, Stopped
<1> QED
  BY <1>17, <1>18 DEF SendEvent

(* The context is done while an event waits for the consumer.              *)
LEMMA SendCancelledStep ==
    ASSUME IndInv, SendCancelled
    PROVE  IndInv'
<1>1. UNCHANGED <<published, next, lines, conn, faults, cancelled, reading, defers, ev, data, got, cursor, seen>>
  BY DEF SendCancelled
<1>2. lines' \in Seq(Line)
  BY <1>1, Numbers
<1>3. CASE pc = "send" /\ Result("ctx")
  <2>1. Running
    BY <1>3 DEF Running
  <2> QED
    BY <1>1, <1>2, <1>3, <2>1, ResultStep
<1>4. CASE pc = "sendFinal" /\ Result("nil")
  <2>1. Running /\ conn = "eof"
    BY <1>4 DEF IndInv, Running, DataInv
  <2> QED
    BY <1>1, <1>2, <1>4, <2>1, ResultStep
<1> QED
  BY <1>3, <1>4 DEF SendCancelled

(* The scanner stops: at the clean end, or with an error.                  *)
LEMMA ScanEndStep ==
    ASSUME IndInv, ScanEnd
    PROVE  IndInv'
<1>1. UNCHANGED <<published, next, lines, conn, faults, cancelled, reading, defers, ev, data, got, cursor, seen>>
  BY DEF ScanEnd
<1>2. pc = "scan" /\ Running /\ LinesInv /\ DataInv /\ OrderInv /\ lines' \in Seq(Line)
  BY <1>1, Numbers DEF ScanEnd, ScanEOF, ScanFails, IndInv, Running
<1>3. CASE ScanEOF /\ pc' = "final" /\ UNCHANGED errs
  <2>1. lines' = <<>> /\ conn' = "eof" /\ Running' /\ FrameSeq' = FrameSeq
    BY <1>1, <1>3 DEF ScanEOF, Running, FrameSeq
  <2>2. DataInv'
    BY <1>1, <1>2, <1>3, <2>1 DEF DataInv
  <2>3. TypeOK'
    BY <1>1, <1>3 DEF IndInv, TypeOK, SSETypeOK
  <2>4. SeqInv'
    BY <1>1, <1>2, <1>3, <2>1 DEF IndInv, SeqInv
  <2>5. ResultInv' /\ WholeExceptLast' /\ OrderInv'
    BY <1>1, <1>2, <1>3, <2>1 DEF IndInv, ResultInv, WholeExceptLast, OrderInv, UpTo
  <2> QED
    BY <1>3, <2>2, <2>3, <2>4, <2>5 DEF IndInv
<1>4. CASE Result("ctx") \/ Result("read")
  BY <1>1, <1>2, <1>4, ResultStep
<1> QED
  BY <1>3, <1>4 DEF ScanEnd

(* A deferred call.                                                        *)
LEMMA ReturnStep ==
    ASSUME IndInv, Return
    PROVE  IndInv'
<1>1. /\ pc = "return" /\ defers' = Tail(defers) /\ pc' = IF Len(defers) = 1 THEN "done" ELSE "return"
      /\ UNCHANGED <<published, next, lines, conn, faults, cancelled, reading, ev, data, errs, got, cursor, seen>>
  BY DEF Return, Deferred, streamVars
<1>2. defers \in Seq({"body", "errs", "events"}) /\ defers # <<>>
  BY <1>1 DEF IndInv, TypeOK, SSETypeOK, ResultInv
<1>3. /\ Len(defers) \in Nat /\ Len(defers) >= 1 /\ defers' \in Seq({"body", "errs", "events"})
      /\ Len(defers') = Len(defers) - 1
  BY <1>1, <1>2, NonEmpty
<1>4. pc' \in {"return", "done"} /\ (pc' = "return" => defers' # <<>>)
  <2>1. defers' = <<>> => Len(defers') = 0
    OBVIOUS
  <2> QED
    BY <1>1, <1>3, <2>1
<1>5. TypeOK'
  BY <1>1, <1>3, <1>4 DEF IndInv, TypeOK, SSETypeOK
<1>6. ~Running' /\ WholeExceptLast'
  BY <1>1, <1>4 DEF IndInv, Running, WholeExceptLast
<1>7. ResultInv'
  BY <1>1, <1>4, <1>6 DEF IndInv, ResultInv
<1> QED
  BY <1>1, <1>5, <1>6, <1>7, Stopped DEF IndInv, SeqInv

(* A frame of event n, or of none when n is 0: its k-th line is the event  *)
(* or comment line, data lines follow, and a blank line ends it.           *)
FrameWith(ls, n, k) ==
    /\ ls \in Seq(Line) /\ Len(ls) \in Nat /\ k \in {1, 2} /\ n \in Nat /\ k < Len(ls)
    /\ ls[Len(ls)].field = "blank"
    /\ n # 0 => k = 2 /\ ls[1].field = "id" /\ ls[1].seq = n /\ ls[2].field = "event" /\ 3 < Len(ls)
    /\ n = 0 => k = 1 /\ ls[1].field \in {"comment", "event"}
    /\ ls[1].field # "comment" => k + 1 < Len(ls)
    /\ ls[k].text # "cut"
    /\ \A i \in (k + 1)..(Len(ls) - 1) :
          ls[i].field = "data" /\ ls[i].seq = n /\ ls[k].field = "event" /\ Fits(ls[k].text, ls[i])

(* The lines of such a frame, by field.                                    *)
LEMMA FrameLines ==
    ASSUME NEW ls, NEW n, NEW k, FrameWith(ls, n, k)
    PROVE  /\ ls # <<>> /\ ls \in Seq(Line) /\ ls[Len(ls)].field = "blank"
           /\ n \in Nat /\ (ls[1].field = "id" <=> n # 0) /\ (n # 0 => ls[1].seq = n)
           /\ HasData(ls) \/ \A i \in 1..Len(ls) : ls[i].field \notin {"id", "event"}
           /\ \A i \in 1..Len(ls) :
                 /\ ls[i].field = "blank" => i = Len(ls)
                 /\ ls[i].field = "id" => i = 1
                 /\ ls[i].field = "event" => i = k /\ ls[i].text # "cut"
                 /\ ls[i].field = "data" => i > k /\ ls[i].seq = n /\ ls[k].field = "event" /\ Fits(ls[k].text, ls[i])
<1>1. /\ ls \in Seq(Line) /\ Len(ls) \in Nat /\ k \in {1, 2} /\ n \in Nat /\ k < Len(ls)
      /\ ls[Len(ls)].field = "blank"
      /\ n # 0 => k = 2 /\ ls[1].field = "id" /\ ls[1].seq = n /\ ls[2].field = "event" /\ 3 < Len(ls)
      /\ n = 0 => k = 1 /\ ls[1].field \in {"comment", "event"}
      /\ ls[1].field # "comment" => k + 1 < Len(ls)
      /\ ls[k].text # "cut"
      /\ \A i \in (k + 1)..(Len(ls) - 1) :
            ls[i].field = "data" /\ ls[i].seq = n /\ ls[k].field = "event" /\ Fits(ls[k].text, ls[i])
  BY DEF FrameWith
<1>2. ls # <<>>
  BY <1>1
<1>3. ASSUME NEW i \in 1..Len(ls)
      PROVE  /\ ls[i].field = "blank" => i = Len(ls)
             /\ ls[i].field = "id" => i = 1
             /\ ls[i].field = "event" => i = k /\ ls[i].text # "cut"
             /\ ls[i].field = "data" => i > k /\ ls[i].seq = n /\ ls[k].field = "event" /\ Fits(ls[k].text, ls[i])
  <2>1. CASE i = Len(ls)
    BY <1>1, <2>1
  <2>2. CASE i \in (k + 1)..(Len(ls) - 1)
    BY <1>1, <2>2
  <2>3. CASE i = k
    BY <1>1, <2>3
  <2>4. CASE i = 1 /\ k = 2
    BY <1>1, <2>4
  <2> QED
    BY <1>1, <2>1, <2>2, <2>3, <2>4
<1>4. ASSUME ls[1].field # "comment" PROVE HasData(ls)
  <2>1. k + 1 \in 1..Len(ls) /\ k + 1 \in (k + 1)..(Len(ls) - 1)
    BY <1>1, <1>4
  <2>2. ls[k + 1].field = "data"
    BY <1>1, <2>1
  <2> QED
    BY <2>1, <2>2 DEF HasData
<1>5. ASSUME ls[1].field = "comment" PROVE \A i \in 1..Len(ls) : ls[i].field \notin {"id", "event"}
  <2>1. 1 \in 1..Len(ls) /\ k = 1
    BY <1>1, <1>5
  <2> QED
    BY <1>3, <1>5, <2>1
<1> QED
  BY <1>1, <1>2, <1>3, <1>4, <1>5

(* A frame is on its way, and the reader is at its start.                  *)
LEMMA FrameArrives ==
    ASSUME IndInv, Idle, NEW n, NEW k, FrameWith(lines', n, k),
           next' = IF n = 0 THEN next ELSE next + 1, n # 0 => n = next,
           next' \in 1..MaxPublished + 1, next' <= published + 1, faults' \in 0..MaxFaults,
           UNCHANGED <<published, conn, cancelled, reading, pc, defers, ev, data, errs, got, cursor, seen>>
    PROVE  IndInv'
<1>1. conn = "open" /\ pc = "scan" /\ lines = <<>> /\ Running /\ LinesInv /\ DataInv /\ OrderInv
  BY DEF Idle, IndInv, Running
<1>2. ev = NoEvent /\ data = <<>> /\ ev.seq = 0 /\ ev.kind = "none" /\ FrameSeq = 0
  <2>1. ev = NoEvent /\ data = <<>>
    BY <1>1 DEF LinesInv, Complete
  <2> QED
    BY <1>1, <2>1 DEF NoEvent, FrameSeq
<1>3. /\ lines' # <<>> /\ lines' \in Seq(Line) /\ lines'[Len(lines')].field = "blank"
      /\ n \in Nat /\ (lines'[1].field = "id" <=> n # 0) /\ (n # 0 => lines'[1].seq = n)
      /\ HasData(lines') \/ \A i \in 1..Len(lines') : lines'[i].field \notin {"id", "event"}
  BY FrameLines
<1>4. \A i \in 1..Len(lines') :
         /\ lines'[i].field = "blank" => i = Len(lines')
         /\ lines'[i].field = "id" => i = 1
         /\ lines'[i].field = "event" => i = k /\ lines'[i].text # "cut"
         /\ lines'[i].field = "data" =>
               i > k /\ lines'[i].seq = n /\ lines'[k].field = "event" /\ Fits(lines'[k].text, lines'[i])
  BY FrameLines
<1>5. FrameSeq' = n /\ Complete' /\ Running'
  BY <1>1, <1>2, <1>3 DEF FrameSeq, Complete, Running
<1>6. LinesInv'
  <2>1. data' = <<>> /\ ev' = NoEvent /\ ev'.kind # "cut"
    BY <1>2
  <2>2. k \in {1, 2}
    BY DEF FrameWith
  <2>3. \A i \in 1..Len(lines') :
             /\ lines'[i].field = "blank" => i = Len(lines')
             /\ lines'[i].field = "id" => i = 1
             /\ lines'[i].field = "event" => data' = <<>> /\ (lines'[i].text = "cut" => i = Len(lines'))
             /\ lines'[i].field = "data" => lines'[i].seq = FrameSeq'
    BY <1>4, <1>5, <2>1, <2>2
  <2>4. FrameSeq' # 0 => FrameSeq' = next' - 1
    BY <1>3, <1>5, Numbers
  <2>5. lines' # <<>> /\ lines'[1].field = "id" =>
             ev' = NoEvent /\ data' = <<>> /\ (lines'[1].seq = 0 => Len(lines') = 1)
    BY <1>3, <2>1
  <2> QED
    BY <1>3, <1>5, <2>1, <2>3, <2>4, <2>5 DEF LinesInv
<1>7. KindInv'
  <2>1. k \in 1..Len(lines')
    BY <1>3 DEF FrameWith
  <2> QED
    BY <1>4, <2>1 DEF KindInv
<1>8. OrderInv'
  <2>1. UpTo(next)
    BY <1>1, <1>2 DEF OrderInv
  <2>2. PICK a : a = next
    OBVIOUS
  <2>3. UpTo(a)'
    BY <2>1, <2>2 DEF UpTo
  <2>4. n # 0 => next' - 1 = a
    BY <2>2, Numbers
  <2>5. n = 0 => next' = a
    BY <2>2
  <2> QED
    BY <1>5, <2>3, <2>4, <2>5 DEF OrderInv, UpTo
<1>9. DataInv'
  <2>1. Len(data') = 0 /\ pc' = "scan"
    BY <1>1, <1>2
  <2> QED
    BY <1>2, <2>1 DEF DataInv
<1>10. SSETypeOK'
  BY <1>3 DEF IndInv, TypeOK, SSETypeOK
<1>11. TypeOK'
  BY <1>10 DEF IndInv, TypeOK
<1>12. /\ seen <= published /\ cursor <= seen /\ (cursor = 0 => seen = 0)
       /\ seen > 0 => next <= seen + 1
  BY <1>1, <1>2 DEF IndInv, SeqInv
<1>13. SeqInv'
  <2>1. n < next' /\ (seen > 0 => n <= seen + 1) /\ (seen > 0 => next' <= seen + (IF n # 0 THEN 2 ELSE 1))
    BY <1>3, <1>12, Numbers
  <2> QED
    BY <1>5, <1>12, <2>1 DEF SeqInv
<1>14. ResultInv' /\ WholeExceptLast'
  BY <1>1, <1>5 DEF IndInv, ResultInv, WholeExceptLast
<1> QED
  BY <1>6, <1>9, <1>11, <1>13, <1>14, <1>7, <1>8 DEF IndInv

(* The daemon writes an event.                                             *)
LEMMA WritePublicationStep ==
    ASSUME IndInv, WritePublication(Frames(next)), UNCHANGED streamVars
    PROVE  IndInv'
<1>1. /\ Idle /\ next <= published /\ lines' \in Frames(next) /\ next' = next + 1
      /\ UNCHANGED <<published, conn, faults, cancelled, reading, pc, defers, ev, data, errs, got, cursor, seen>>
  BY DEF WritePublication, streamVars
<1>2. PICK n : n = next
  OBVIOUS
<1>3. n \in Nat /\ n # 0 /\ next' \in 1..MaxPublished + 1 /\ next' <= published + 1
  BY <1>1, <1>2, Numbers
<1>4. lines' \in Frames(n)
  BY <1>1, <1>2
<1>5. /\ lines' \in Seq(Line) /\ Len(lines') \in 4..5
      /\ lines'[1].field = "id" /\ lines'[1].seq = n
      /\ lines'[2].field = "event" /\ lines'[2].text = "message"
      /\ lines'[Len(lines')].field = "blank"
      /\ \A i \in 3..(Len(lines') - 1) : lines'[i].field = "data" /\ lines'[i].seq = n
  BY <1>3, <1>4, FrameFacts
<1>6. faults' \in 0..MaxFaults
  BY <1>1 DEF IndInv, TypeOK, SSETypeOK
<1>7. FrameWith(lines', n, 2)
  <2>1. PICK ls : ls = lines'
    OBVIOUS
  <2>2. /\ ls \in Seq(Line) /\ Len(ls) \in Nat /\ 2 + 1 < Len(ls)
        /\ ls[1].field = "id" /\ ls[1].seq = n
        /\ ls[2].field = "event" /\ ls[2].text = "message"
        /\ ls[Len(ls)].field = "blank"
        /\ \A i \in (2 + 1)..(Len(ls) - 1) : ls[i].field = "data" /\ ls[i].seq = n
    <3>1. /\ ls \in Seq(Line) /\ Len(ls) \in 4..5
          /\ ls[1].field = "id" /\ ls[1].seq = n
          /\ ls[2].field = "event" /\ ls[2].text = "message"
          /\ ls[Len(ls)].field = "blank"
      BY <1>5, <2>1
    <3>2. \A i \in 3..(Len(ls) - 1) : ls[i].field = "data" /\ ls[i].seq = n
      BY <1>5, <2>1
    <3>3. 2 + 1 = 3
      OBVIOUS
    <3> QED
      BY <3>1, <3>2, <3>3
  <2>3. ASSUME NEW i \in (2 + 1)..(Len(ls) - 1) PROVE Fits(ls[2].text, ls[i])
    BY <1>3, <2>2 DEF Fits
  <2>4. FrameWith(ls, n, 2)
    BY <1>3, <2>2, <2>3 DEF FrameWith
  <2> QED
    BY <2>1, <2>4
<1> QED
  BY <1>1, <1>2, <1>3, <1>6, <1>7, FrameArrives

(* The daemon writes a frame that is no event of its log.                  *)
LEMMA WriteNoiseStep ==
    ASSUME IndInv, WriteNoise(Noise), UNCHANGED streamVars
    PROVE  IndInv'
<1>1. /\ Idle /\ lines' \in Noise /\ faults < MaxFaults /\ faults' = faults + 1
      /\ UNCHANGED <<published, next, conn, cancelled, reading, pc, defers, ev, data, errs, got, cursor, seen>>
  BY DEF WriteNoise, Fault, streamVars
<1>2. /\ lines' \in Seq(Line) /\ Len(lines') \in 2..3
      /\ lines'[Len(lines')].field = "blank"
      /\ lines'[1].field \in {"comment", "event"} /\ lines'[1].text # "cut"
      /\ \A i \in 2..(Len(lines') - 1) :
            /\ lines'[i].field = "data" /\ lines'[i].seq = 0
            /\ lines'[1].field = "event" /\ Fits(lines'[1].text, lines'[i])
      /\ lines'[1].field = "event" => Len(lines') = 3
  BY <1>1, NoiseFacts
<1>3. next' = next /\ next' \in 1..MaxPublished + 1 /\ next' <= published + 1 /\ faults' \in 0..MaxFaults
  BY <1>1, Numbers DEF IndInv, SeqInv
<1>4. FrameWith(lines', 0, 1)
  BY <1>2 DEF FrameWith
<1> QED
  BY <1>1, <1>3, <1>4, FrameArrives

(* The body ends inside a frame, or between two.                           *)
LEMMA DisconnectStep ==
    ASSUME IndInv, Disconnect, UNCHANGED streamVars
    PROVE  IndInv'
<1>1. /\ conn = "open" /\ conn' \in {"eof", "reset"} /\ lines' \in Remainders(lines)
      /\ faults < MaxFaults /\ faults' = faults + 1
      /\ UNCHANGED <<published, next, cancelled, reading, pc, defers, ev, data, errs, got, cursor, seen>>
  BY DEF Disconnect, Fault, streamVars
<1>2. /\ lines' \in Seq(Line) /\ Len(lines') \in Nat /\ Len(lines) \in Nat /\ Len(lines') <= Len(lines)
      /\ \A i \in 1..Len(lines') :
            /\ lines'[i].field = lines[i].field
            /\ i < Len(lines') \/ lines'[i].field = "blank" => lines'[i] = lines[i]
            /\ lines'[i].field = "id" => lines'[i].seq <= lines[i].seq
            /\ lines'[i].field # "id" =>
                  lines'[i].seq = lines[i].seq /\ (lines'[i] = lines[i] \/ lines'[i].text = "cut")
  BY <1>1, Numbers, Remains
<1>3. Running' = Running /\ (lines = <<>> => lines' = <<>>) /\ (lines' # <<>> => Len(lines') >= 1 /\ lines # <<>>)
  <2>1. lines = <<>> => Len(lines) = 0
    OBVIOUS
  <2> QED
    BY <1>1, <1>2, <2>1, EmptySeq DEF Running
<1>4. SSETypeOK'
  <2>1. faults' \in 0..MaxFaults
    BY <1>1, Numbers
  <2> QED
    BY <1>1, <1>2, <2>1 DEF IndInv, TypeOK, SSETypeOK
<1>5. TypeOK'
  BY <1>1, <1>4 DEF IndInv, TypeOK
<1>6. WholeExceptLast'
  BY <1>1 DEF IndInv, WholeExceptLast
<1>7. ResultInv'
  BY <1>1, <1>3 DEF IndInv, ResultInv
<1>8. CASE ~Running
  BY <1>1, <1>3, <1>5, <1>6, <1>7, <1>8, Stopped DEF IndInv, SeqInv
<1>9. CASE Running
  <2>1. DataInv /\ DataInv' /\ OrderInv
    BY <1>1, <1>3, <1>9 DEF IndInv, DataInv
  <2>2. FrameSeq' \in Nat /\ FrameSeq \in Nat /\ FrameSeq' <= FrameSeq
    <3>1. \A line \in Line : line.seq \in Nat
      BY DEF Line
    <3>2. CASE lines' = <<>>
      <4>1. lines # <<>> => lines[1] \in Line
        BY Numbers, EmptySeq
      <4>2. lines # <<>> /\ lines[1].field = "id" => ev = NoEvent
        BY <1>9, <2>1 DEF IndInv, LinesInv, DataInv
      <4>3. NoEvent.seq = 0
        BY DEF NoEvent
      <4> QED
        BY <1>1, <3>1, <3>2, <4>1, <4>2, <4>3, Numbers DEF FrameSeq
    <3>3. CASE lines' # <<>>
      <4>1. 1 \in 1..Len(lines') /\ lines # <<>> /\ lines'[1] \in Line /\ lines[1] \in Line
        BY <1>2, <1>3, <3>3, Numbers
      <4>2. lines'[1].field = lines[1].field /\ (lines'[1].field = "id" => lines'[1].seq <= lines[1].seq)
        BY <1>2, <4>1
      <4>3. FrameSeq' = IF lines'[1].field = "id" THEN lines'[1].seq ELSE ev.seq
        BY <1>1, <3>3 DEF FrameSeq
      <4>4. FrameSeq = IF lines[1].field = "id" THEN lines[1].seq ELSE ev.seq
        BY <4>1 DEF FrameSeq
      <4>5. lines'[1].seq \in Nat /\ lines[1].seq \in Nat /\ ev.seq \in Nat
        BY <3>1, <4>1, Numbers
      <4> QED
        BY <4>2, <4>3, <4>4, <4>5
    <3> QED
      BY <3>2, <3>3
  <2>3. SeqInv'
    BY <1>1, <1>3, <2>2, Numbers DEF IndInv, SeqInv
  <2>4. OrderInv'
    <3>1. FrameSeq' # 0 => FrameSeq # 0
      BY <2>2
    <3> QED
      BY <1>1, <2>1, <3>1 DEF OrderInv, UpTo
  <2>5. ASSUME pc = "scan" PROVE LinesInv' /\ KindInv'
    <3>1. LinesInv /\ KindInv
      BY <2>5 DEF IndInv
    <3>2. /\ \A i \in 1..Len(lines) :
             /\ lines[i].field = "blank" => i = Len(lines)
             /\ lines[i].field = "id" => i = 1
             /\ lines[i].field = "event" => data = <<>> /\ (lines[i].text = "cut" => i = Len(lines))
             /\ lines[i].field = "data" => lines[i].seq = FrameSeq
          /\ \A i, j \in 1..Len(lines) :
                lines[i].field = "event" /\ lines[j].field = "data" => i < j /\ Fits(lines[i].text, lines[j])
      BY <3>1 DEF LinesInv, KindInv
    <3>3. \A i \in 1..Len(lines') : i \in 1..Len(lines)
      BY <1>2
    <3>4. Complete' => Len(lines') = Len(lines) /\ Complete
                       /\ \A i \in 1..Len(lines) : lines'[i] = lines[i]
      <4> SUFFICES ASSUME Complete'
                   PROVE  Len(lines') = Len(lines) /\ Complete /\ \A i \in 1..Len(lines) : lines'[i] = lines[i]
        OBVIOUS
      <4>1. lines' # <<>> /\ lines'[Len(lines')].field = "blank" /\ Len(lines') \in 1..Len(lines')
        BY <1>2, <1>3 DEF Complete
      <4>2. lines[Len(lines')].field = "blank"
        BY <1>2, <4>1
      <4>3. Len(lines') = Len(lines)
        BY <3>2, <3>3, <4>1, <4>2
      <4>4. \A i \in 1..Len(lines) : i < Len(lines') \/ i = Len(lines')
        BY <1>2, <4>3
      <4> QED
        BY <1>2, <1>3, <4>1, <4>2, <4>3, <4>4 DEF Complete
    <3>5. Complete' => FrameSeq' = FrameSeq /\ (HasData(lines) => HasData(lines'))
      <4> SUFFICES ASSUME Complete' PROVE FrameSeq' = FrameSeq /\ (HasData(lines) => HasData(lines'))
        OBVIOUS
      <4>1. lines' # <<>> /\ lines # <<>> /\ lines'[1] = lines[1]
        BY <1>2, <1>3, <3>4 DEF Complete
      <4>2. FrameSeq' = FrameSeq
        BY <1>1, <4>1 DEF FrameSeq
      <4> QED
        BY <3>4, <4>2 DEF HasData
    <3>6. ASSUME NEW i \in 1..Len(lines'), lines'[i].field = "data" PROVE lines'[i].seq = FrameSeq'
      <4>1. lines[i].field = "data" /\ lines'[i].seq = lines[i].seq /\ i \in 1..Len(lines)
        BY <1>2, <3>3, <3>6
      <4>2. lines'[i].seq = FrameSeq
        BY <3>2, <4>1
      <4>3. 1 \in 1..Len(lines') /\ lines' # <<>> /\ lines # <<>> /\ lines'[1].field = lines[1].field
        BY <1>2, <1>3
      <4>4. CASE lines[1].field = "id"
        <5>1. i # 1
          BY <4>1, <4>4
        <5>2. lines'[1] = lines[1]
          BY <1>2, <4>3, <5>1
        <5> QED
          BY <4>2, <4>3, <4>4, <5>2 DEF FrameSeq
      <4>5. CASE lines[1].field # "id"
        BY <1>1, <4>2, <4>3, <4>5 DEF FrameSeq
      <4> QED
        BY <4>4, <4>5
    <3>7. ASSUME NEW i \in 1..Len(lines')
          PROVE  /\ lines'[i].field = "blank" => i = Len(lines')
                 /\ lines'[i].field = "id" => i = 1
                 /\ lines'[i].field = "event" => data' = <<>> /\ (lines'[i].text = "cut" => i = Len(lines'))
      <4>1. i \in 1..Len(lines) /\ lines'[i].field = lines[i].field /\ (i < Len(lines') => lines'[i] = lines[i])
        BY <1>2, <3>3
      <4>2. i = Len(lines) => i = Len(lines')
        BY <1>2
      <4>3. \A j \in 1..Len(lines') : j \in 1..Len(lines) /\ lines'[j].field = lines[j].field
        BY <1>2, <3>3
      <4>4. i < Len(lines') \/ i = Len(lines')
        BY <1>2
      <4> QED
        BY <1>1, <3>2, <4>1, <4>2, <4>3, <4>4
    <3>8. lines' # <<>> /\ lines'[1].field = "id" =>
             ev' = NoEvent /\ data' = <<>> /\ (lines'[1].seq = 0 => Len(lines') = 1)
      <4> SUFFICES ASSUME lines' # <<>>, lines'[1].field = "id"
                   PROVE  ev' = NoEvent /\ data' = <<>> /\ (lines'[1].seq = 0 => Len(lines') = 1)
        OBVIOUS
      <4>1. 1 \in 1..Len(lines') /\ lines # <<>> /\ lines[1].field = "id" /\ (1 < Len(lines') => lines'[1] = lines[1])
        BY <1>2, <1>3
      <4>2. ev = NoEvent /\ data = <<>> /\ (lines[1].seq = 0 => Len(lines) = 1)
        BY <3>1, <4>1 DEF LinesInv
      <4>3. Len(lines') = 1 \/ (1 < Len(lines') /\ Len(lines) # 1)
        <5>1. PICK a, b : a = Len(lines') /\ b = Len(lines)
          OBVIOUS
        <5>2. a \in Nat /\ b \in Nat /\ a <= b /\ a >= 1
          BY <1>2, <1>3, <5>1
        <5>3. a = 1 \/ (1 < a /\ b # 1)
          BY <5>2
        <5> QED
          BY <5>1, <5>3
      <4> QED
        BY <1>1, <4>1, <4>2, <4>3
    <3>9. Complete' => \/ data' # <<>> \/ HasData(lines')
                       \/ ev' = NoEvent /\ \A i \in 1..Len(lines') : lines'[i].field \notin {"id", "event"}
      BY <1>1, <3>1, <3>4, <3>5 DEF LinesInv
    <3>10. FrameSeq' # 0 /\ HasData(lines') => FrameSeq' = next' - 1
      <4> SUFFICES ASSUME FrameSeq' # 0, HasData(lines') PROVE FrameSeq' = next - 1
        BY <1>1
      <4>1. PICK i \in 1..Len(lines') : lines'[i].field = "data"
        BY DEF HasData
      <4>2. lines[i].field = "data" /\ i \in 1..Len(lines) /\ lines'[i].seq = lines[i].seq
        BY <1>2, <3>3, <4>1
      <4>3. lines'[i].seq = FrameSeq' /\ lines[i].seq = FrameSeq /\ HasData(lines)
        BY <3>2, <3>6, <4>1, <4>2 DEF HasData
      <4> QED
        BY <3>1, <4>2, <4>3 DEF LinesInv
    <3>11. ASSUME NEW kind, NEW i \in 1..Len(lines'), lines'[i].field = "data", Fits(kind, lines[i])
           PROVE  Fits(kind, lines'[i])
      <4>1. lines'[i].seq = lines[i].seq /\ (lines'[i] = lines[i] \/ lines'[i].text = "cut")
        BY <1>2, <3>11
      <4> QED
        BY <3>11, <4>1 DEF Fits
    <3>12. ASSUME NEW i \in 1..Len(lines'), NEW j \in 1..Len(lines'), lines'[i].field = "event", lines'[j].field = "data"
           PROVE  i < j /\ Fits(lines'[i].text, lines'[j])
      <4>1. lines[i].field = "event" /\ lines[j].field = "data" /\ i \in 1..Len(lines) /\ j \in 1..Len(lines)
        BY <1>2, <3>3, <3>12
      <4>2. i < j /\ Fits(lines[i].text, lines[j])
        BY <3>2, <4>1
      <4>3. lines'[i] = lines[i]
        BY <1>2, <4>2
      <4> QED
        BY <3>11, <3>12, <4>2, <4>3
    <3>13. ASSUME NEW j \in 1..Len(lines'), lines'[j].field = "data"
           PROVE  Fits(ev'.kind, lines'[j]) \/ \E i \in 1..Len(lines') : lines'[i].field = "event"
      <4>1. lines[j].field = "data" /\ j \in 1..Len(lines)
        BY <1>2, <3>3, <3>13
      <4>2. CASE Fits(ev.kind, lines[j])
        BY <1>1, <3>11, <3>13, <4>2
      <4>3. ASSUME NEW i \in 1..Len(lines), lines[i].field = "event"
            PROVE  \E k \in 1..Len(lines') : lines'[k].field = "event"
        <5>1. i < j
          BY <3>2, <4>1, <4>3
        <5>2. i \in 1..Len(lines') /\ lines'[i].field = "event"
          BY <1>2, <4>3, <5>1
        <5> QED
          BY <5>2
      <4> QED
        BY <3>1, <4>1, <4>2, <4>3 DEF KindInv
    <3>14. KindInv'
      BY <3>12, <3>13 DEF KindInv
    <3>15. ev'.kind = "cut" => lines' = <<>> /\ data' = <<>>
      BY <1>1, <1>3, <3>1 DEF LinesInv
    <3>16. conn' # "open"
      BY <1>1
    <3> QED
      BY <3>6, <3>7, <3>8, <3>9, <3>15, <3>16, <3>10, <3>14 DEF LinesInv
  <2> QED
    BY <1>1, <1>5, <1>6, <1>7, <2>1, <2>3, <2>5, <2>4 DEF IndInv
<1> QED
  BY <1>8, <1>9

(* Every step preserves the invariant, and shows the consumer at most one  *)
(* event beyond those it has seen.                                         *)
LEMMA NextInv ==
    ASSUME IndInv, [Next]_vars
    PROVE  IndInv' /\ (seen > 0 => seen' <= seen + 1)
<1>1. CASE ListEvents
  BY <1>1, ListEventsStep
<1>2. CASE SendEvent
  BY <1>2, SendEventStep
<1>3. CASE UNCHANGED seen
  <2>1. seen > 0 => seen' <= seen + 1
    BY <1>3, Numbers
  <2>2. CASE StreamEvents \/ ConnectFails
    BY <2>1, <2>2, StreamEventsStep, ConnectFailsStep
  <2>3. CASE ScanField \/ Flush \/ FinalFlush \/ SendCancelled \/ ScanEnd \/ Return
    BY <2>1, <2>3, ScanFieldStep, FlushStep, FinalFlushStep, SendCancelledStep, ScanEndStep, ReturnStep
  <2>4. CASE Daemon
    <3>1. CASE Publish /\ UNCHANGED streamVars
      <4>1. /\ published' \in Nat /\ published' >= published /\ published' <= MaxPublished
            /\ UNCHANGED <<next, lines, conn, faults, cancelled, reading, pc, defers, ev, data, errs, got, cursor, seen>>
        BY <3>1, Numbers DEF Publish, streamVars
      <4>2. faults' \in 0..MaxFaults /\ cancelled' \in BOOLEAN /\ reading' \in BOOLEAN
        BY <4>1 DEF IndInv, TypeOK, SSETypeOK
      <4> QED
        BY <2>1, <4>1, <4>2, AsideStep
    <3> QED
      BY <2>1, <2>4, <3>1, WritePublicationStep, WriteNoiseStep, DisconnectStep DEF Daemon
  <2>5. CASE CancelContext
    <3>1. /\ cancelled' \in BOOLEAN /\ reading' \in BOOLEAN /\ faults < MaxFaults /\ faults' = faults + 1
          /\ UNCHANGED <<published, next, lines, conn, pc, defers, ev, data, errs, got, cursor, seen>>
      BY <2>5 DEF CancelContext, Cancel, Fault, streamVars
    <3>2. faults' \in 0..MaxFaults /\ published' \in Nat /\ published' >= published /\ published' <= MaxPublished
      BY <3>1, Numbers
    <3> QED
      BY <2>1, <3>1, <3>2, AsideStep
  <2>6. CASE UNCHANGED vars
    <3>1. UNCHANGED <<published, next, lines, conn, faults, cancelled, reading, pc, defers,
                      ev, data, errs, got, cursor, seen>>
      BY <2>6 DEF vars, sseVars, streamVars
    <3>2. /\ published' \in Nat /\ published' >= published /\ published' <= MaxPublished
          /\ faults' \in 0..MaxFaults /\ cancelled' \in BOOLEAN /\ reading' \in BOOLEAN
      BY <3>1, Numbers DEF IndInv, TypeOK, SSETypeOK
    <3> QED
      BY <2>1, <3>1, <3>2, AsideStep
  <2> QED
    BY <1>1, <1>2, <2>2, <2>3, <2>4, <2>5, <2>6 DEF Next, Goroutine
<1>4. ListEvents \/ SendEvent \/ UNCHANGED seen
  BY DEF Next, Goroutine, StreamEvents, ConnectFails, Fresh, ScanField, Flush, FinalFlush, SendCancelled,
         ScanEnd, Return, Daemon, CancelContext, vars, streamVars
<1> QED
  BY <1>1, <1>2, <1>3, <1>4

-----------------------------------------------------------------------------
(* IndInv holds in every reachable state.                                  *)
THEOREM Invariance == Spec => []IndInv
<1>1. IndInv /\ [Next]_vars => IndInv'
  BY NextInv
<1> QED
  BY <1>1, InitInv, PTL DEF Spec

(* Every event that StreamEvents hands over has the Seq, the Kind and the  *)
(* payload of one frame, but for the last one when the body ended cleanly  *)
(* inside its frame, which has no payload; and those with a Seq and its    *)
(* payload come in the order of the log, without a gap.                    *)
THEOREM EventsAreWhole == Spec => []WholeExceptLast
<1>1. IndInv => WholeExceptLast
  BY DEF IndInv
<1> QED
  BY <1>1, Invariance, PTL

(* errs carries one result per call, and nil only after a clean end.       *)
THEOREM ResultIsHonest == Spec => []OneHonestResult
<1>1. IndInv => OneHonestResult
  BY DEF IndInv, ResultInv, OneHonestResult
<1> QED
  BY <1>1, Invariance, PTL

(* A consumer that resumes from the last Seq it received, or pages through *)
(* the history from there, never skips an event, however often the stream  *)
(* breaks and wherever in a frame.                                         *)
THEOREM NeverSkips == Spec => NoSkip
<1>1. IndInv /\ [Next]_vars => [seen > 0 => seen' <= seen + 1]_vars
  BY NextInv
<1> QED
  BY <1>1, Invariance, PTL DEF Spec, NoSkip
=============================================================================
