------------------------- MODULE ChannelStreamProofs -------------------------
(***************************************************************************)
(* Proofs about ChannelStream and, in the second half, about AIChatStream, *)
(* for every value of their constants.  The two readers have the same      *)
(* variables and constants and share the lemmas about lines and frames, so *)
(* AIChatStream is instantiated here with its own names.                   *)
(***************************************************************************)
EXTENDS ChannelStream, ChatAnswer, SequenceTheorems, TLAPS

-----------------------------------------------------------------------------
(* Facts about lines and frames. *)

(* The ends of a nonempty sequence, and its tail.                          *)
LEMMA NonEmpty ==
    ASSUME NEW S, NEW s \in Seq(S), s # <<>>
    PROVE  /\ Len(s) \in Nat /\ Len(s) >= 1
           /\ s[1] \in S /\ s[Len(s)] \in S /\ Head(s) = s[1]
           /\ Tail(s) \in Seq(S) /\ Len(Tail(s)) = Len(s) - 1
           /\ \A i \in 1..(Len(s) - 1) : Tail(s)[i] = s[i + 1]
<1>1. Len(s) \in Nat /\ Len(s) # 0
  BY EmptySeq
<1> QED BY <1>1, HeadTailProperties

(* What appending does to a sequence.                                      *)
LEMMA Appending ==
    ASSUME NEW S, NEW s \in Seq(S), NEW x \in S
    PROVE  /\ Append(s, x) \in Seq(S) /\ Append(s, x) # <<>>
           /\ Len(Append(s, x)) = Len(s) + 1 /\ Len(s) \in Nat
           /\ Append(s, x)[Len(s) + 1] = x
           /\ \A i \in 1..Len(s) : Append(s, x)[i] = s[i]
BY AppendProperties

(* Short tuples of lines as sequences.                                     *)
LEMMA Tuples ==
    ASSUME NEW a \in Line, NEW b \in Line, NEW c \in Line, NEW d \in Line, NEW e \in Line
    PROVE  /\ <<a, b>> \in Seq(Line) /\ Len(<<a, b>>) = 2 /\ <<a, b>> # <<>>
           /\ <<a, b, c>> \in Seq(Line) /\ Len(<<a, b, c>>) = 3 /\ <<a, b, c>> # <<>>
           /\ <<a, b, c, d>> \in Seq(Line) /\ Len(<<a, b, c, d>>) = 4 /\ <<a, b, c, d>> # <<>>
           /\ <<a, b, c, d, e>> \in Seq(Line) /\ Len(<<a, b, c, d, e>>) = 5
           /\ <<a, b, c, d, e>> # <<>>
OBVIOUS

(* What FrameInv needs to know of a publication's frame g, or of noise     *)
(* when n is 0: it ends with its only blank line, and its data lines carry *)
(* publication n.                                                          *)
FrameOf(n, g) ==
    /\ g \in Seq(Line)
    /\ g # <<>>
    /\ g[Len(g)].field = "blank"
    /\ \A i \in 1..Len(g) : /\ g[i].field = "blank" => i = Len(g)
                            /\ g[i].field = "data" => g[i].seq = n

(* The event field of a publication's frame, if any, is "message", and the *)
(* frame has a piece of the publication.                                   *)
MessageFrame(n, g) ==
    /\ FrameOf(n, g)
    /\ HasPiece(g)
    /\ \A i \in 1..Len(g) : g[i].field = "event" => g[i].text = "message"

(* Every frame of publication n is a message frame.                        *)
LEMMA FrameFacts ==
    ASSUME NEW n \in Nat \ {0}, NEW f \in Frames(n)
    PROVE  MessageFrame(n, f)
<1> DEFINE D(t) == Data(n, t)
           M == Event("message")
<1>0. /\ \A t \in Texts : D(t) \in Line /\ D(t).field = "data" /\ D(t).seq = n
      /\ Blank \in Line /\ Blank.field = "blank"
      /\ M \in Line /\ M.field = "event" /\ M.text = "message"
      /\ Id(n) \in Line /\ Id(n).field = "id"
  BY DEF Blank, Data, Id, Event, Line, Texts
<1>t. {"long", "whole", "head", "tail"} \subseteq Texts
  BY DEF Texts
<1> HIDE DEF D, M
<1>1. ASSUME NEW t \in {"long", "whole"} PROVE MessageFrame(n, <<D(t), Blank>>)
  <2> DEFINE g == <<D(t), Blank>>
  <2>1. g \in Seq(Line) /\ Len(g) = 2 /\ g # <<>> /\ g[1] = D(t) /\ g[2] = Blank
    BY <1>0, <1>t, Tuples
  <2> HIDE DEF g
  <2>2. MessageFrame(n, g)
    BY <1>0, <1>t, <2>1 DEF MessageFrame, FrameOf, HasPiece
  <2> QED BY <2>2 DEF g
<1>2. ASSUME NEW t \in {"long", "whole"} PROVE MessageFrame(n, <<Id(n), M, D(t), Blank>>)
  <2> DEFINE g == <<Id(n), M, D(t), Blank>>
  <2>1. /\ g \in Seq(Line) /\ Len(g) = 4 /\ g # <<>>
        /\ g[1] = Id(n) /\ g[2] = M /\ g[3] = D(t) /\ g[4] = Blank
    BY <1>0, <1>t, Tuples
  <2> HIDE DEF g
  <2>2. MessageFrame(n, g)
    BY <1>0, <1>t, <2>1 DEF MessageFrame, FrameOf, HasPiece
  <2> QED BY <2>2 DEF g
<1>3. MessageFrame(n, <<D("head"), D("tail"), Blank>>)
  <2> DEFINE g == <<D("head"), D("tail"), Blank>>
  <2>1. /\ g \in Seq(Line) /\ Len(g) = 3 /\ g # <<>>
        /\ g[1] = D("head") /\ g[2] = D("tail") /\ g[3] = Blank
    BY <1>0, <1>t, Tuples
  <2> HIDE DEF g
  <2>2. MessageFrame(n, g)
    BY <1>0, <1>t, <2>1 DEF MessageFrame, FrameOf, HasPiece
  <2> QED BY <2>2 DEF g
<1>4. MessageFrame(n, <<Id(n), M, D("head"), D("tail"), Blank>>)
  <2> DEFINE g == <<Id(n), M, D("head"), D("tail"), Blank>>
  <2>1. /\ g \in Seq(Line) /\ Len(g) = 5 /\ g # <<>> /\ g[1] = Id(n) /\ g[2] = M
        /\ g[3] = D("head") /\ g[4] = D("tail") /\ g[5] = Blank
    BY <1>0, <1>t, Tuples
  <2> HIDE DEF g
  <2>2. MessageFrame(n, g)
    BY <1>0, <1>t, <2>1 DEF MessageFrame, FrameOf, HasPiece
  <2> QED BY <2>2 DEF g
<1> QED BY <1>1, <1>2, <1>3, <1>4 DEF Frames, D, M

(* A noise frame carries no publication.                                   *)
LEMMA NoiseFacts ==
    ASSUME NEW f \in Noise
    PROVE  FrameOf(0, f)
<1>0. /\ Blank \in Line /\ Blank.field = "blank"
      /\ Comment \in Line /\ Comment.field = "comment"
      /\ Event("message") \in Line /\ Event("message").field = "event"
      /\ Event("unrelated") \in Line /\ Event("unrelated").field = "event"
      /\ Data(0, "whole") \in Line /\ Data(0, "whole").field = "data" /\ Data(0, "whole").seq = 0
      /\ Data(0, "bad") \in Line /\ Data(0, "bad").field = "data" /\ Data(0, "bad").seq = 0
  BY DEF Blank, Comment, Data, Event, Line, Texts
<1>1. ASSUME NEW a \in Line, a.field # "blank", a.field = "data" => a.seq = 0
      PROVE  FrameOf(0, <<a, Blank>>)
  <2> DEFINE g == <<a, Blank>>
  <2>1. g \in Seq(Line) /\ Len(g) = 2 /\ g # <<>> /\ g[1] = a /\ g[2] = Blank
    BY <1>0, Tuples
  <2> HIDE DEF g
  <2>2. FrameOf(0, g)
    BY <1>0, <1>1, <2>1 DEF FrameOf
  <2> QED BY <2>2 DEF g
<1>2. FrameOf(0, <<Event("unrelated"), Data(0, "whole"), Blank>>)
  <2> DEFINE g == <<Event("unrelated"), Data(0, "whole"), Blank>>
  <2>1. /\ g \in Seq(Line) /\ Len(g) = 3 /\ g # <<>>
        /\ g[1] = Event("unrelated") /\ g[2] = Data(0, "whole") /\ g[3] = Blank
    BY <1>0, Tuples
  <2> HIDE DEF g
  <2>2. FrameOf(0, g)
    BY <1>0, <2>1 DEF FrameOf
  <2> QED BY <2>2 DEF g
<1> QED BY <1>0, <1>1, <1>2 DEF Noise

(* What survives a disconnect: a prefix, of which only the last line may   *)
(* have changed, and not its field nor, for data, its publication.         *)
LEMMA RemainderFacts ==
    ASSUME NEW ls \in Seq(Line), NEW r \in Remainders(ls)
    PROVE  /\ r \in Seq(Line)
           /\ Len(r) <= Len(ls)
           /\ \A i \in 1..Len(r) : /\ r[i].field = ls[i].field
                                   /\ r[i].field = "data" => r[i].seq = ls[i].seq
                                   /\ i < Len(r) \/ r[i].field = "blank" => r[i] = ls[i]
<1>1. ASSUME NEW line \in Line, NEW c \in Cuts(line)
      PROVE  /\ c \in Line
             /\ c.field = line.field
             /\ c.field = "data" => c.seq = line.seq
             /\ c.field # "blank"
  <2>1. CASE line.field \in {"data", "event"}
    <3>1. c = [line EXCEPT !.text = "cut"]
      BY <2>1 DEF Cuts
    <3> QED BY <2>1, <3>1 DEF Line, Texts
  <2>2. CASE line.field = "id"
    <3>1. PICK m \in 0..(line.seq - 1) : c = Id(m)
      BY <2>2 DEF Cuts
    <3>2. m \in Nat
      BY DEF Line
    <3> QED BY <2>2, <3>1, <3>2 DEF Line, Texts, Id
  <2>3. CASE line.field \notin {"data", "event", "id"}
    BY <2>3 DEF Cuts
  <2> QED BY <2>1, <2>2, <2>3
<1>2. CASE \E k \in 0..Len(ls) : r = SubSeq(ls, 1, k)
  BY <1>2
<1>3. CASE \E k \in 1..Len(ls) : \E c \in Cuts(ls[k]) : r = Append(SubSeq(ls, 1, k - 1), c)
  <2>0. PICK k \in 1..Len(ls) : \E c \in Cuts(ls[k]) : r = Append(SubSeq(ls, 1, k - 1), c)
    BY <1>3
  <2>1. PICK c \in Cuts(ls[k]) : r = Append(SubSeq(ls, 1, k - 1), c)
    BY <2>0
  <2>2. ls[k] \in Line
    OBVIOUS
  <2>3. /\ c \in Line
        /\ c.field = ls[k].field
        /\ c.field = "data" => c.seq = ls[k].seq
        /\ c.field # "blank"
    BY <2>2, <1>1
  <2>4. /\ SubSeq(ls, 1, k - 1) \in Seq(Line)
        /\ Len(SubSeq(ls, 1, k - 1)) = k - 1
        /\ \A i \in 1..(k - 1) : SubSeq(ls, 1, k - 1)[i] = ls[i]
    OBVIOUS
  <2>5. /\ r \in Seq(Line)
        /\ Len(r) = k
        /\ r[k] = c
        /\ \A i \in 1..(k - 1) : r[i] = ls[i]
    BY <2>1, <2>3, <2>4
  <2> QED BY <2>3, <2>5
<1> QED BY <1>2, <1>3 DEF Remainders

(* Where a piece of a publication is after a line was read or appended.    *)
LEMMA PieceFacts ==
    ASSUME NEW ls \in Seq(Line), NEW x \in Line
    PROVE  /\ ~HasPiece(<<>>)
           /\ HasPiece(Append(ls, x)) <=> HasPiece(ls) \/ (x.field = "data" /\ x.seq # 0)
           /\ ls # <<>> =>
                (HasPiece(ls) <=> \/ HasPiece(Tail(ls))
                                  \/ Head(ls).field = "data" /\ Head(ls).seq # 0)
<1>1. ~HasPiece(<<>>)
  BY DEF HasPiece
<1>2. HasPiece(Append(ls, x)) <=> HasPiece(ls) \/ (x.field = "data" /\ x.seq # 0)
  <2>1. /\ Len(Append(ls, x)) = Len(ls) + 1
        /\ Append(ls, x)[Len(ls) + 1] = x
        /\ \A i \in 1..Len(ls) : Append(ls, x)[i] = ls[i]
    OBVIOUS
  <2> QED BY <2>1 DEF HasPiece
<1>3. ASSUME ls # <<>>
      PROVE  HasPiece(ls) <=> \/ HasPiece(Tail(ls))
                              \/ Head(ls).field = "data" /\ Head(ls).seq # 0
  <2>1. /\ Len(Tail(ls)) = Len(ls) - 1 /\ Len(ls) > 0
        /\ \A i \in 1..(Len(ls) - 1) : Tail(ls)[i] = ls[i + 1]
        /\ Head(ls) = ls[1]
    BY <1>3
  <2>2. \A i \in 2..Len(ls) : ls[i] = Tail(ls)[i - 1] /\ i - 1 \in 1..(Len(ls) - 1)
    BY <2>1
  <2>3. ASSUME HasPiece(ls)
        PROVE  HasPiece(Tail(ls)) \/ (Head(ls).field = "data" /\ Head(ls).seq # 0)
    BY <2>1, <2>2, <2>3 DEF HasPiece
  <2>4. ASSUME HasPiece(Tail(ls)) PROVE HasPiece(ls)
    BY <2>1, <2>4 DEF HasPiece
  <2>5. ASSUME Head(ls).field = "data" /\ Head(ls).seq # 0 PROVE HasPiece(ls)
    BY <2>1, <2>5 DEF HasPiece
  <2> QED BY <2>3, <2>4, <2>5
<1> QED BY <1>1, <1>2, <1>3

-----------------------------------------------------------------------------
(* The inductive invariant. *)

(* It holds initially.                                                     *)
LEMMA InitIndInv == Init => IndInv
<1> SUFFICES ASSUME Init PROVE IndInv
  OBVIOUS
<1> USE BoundsAssumption, BufferAssumption, ChannelAssumption DEF Init, SSEInit
<1>1. TypeOK
  <2>0. cancelled \in BOOLEAN /\ reading \in BOOLEAN
    OBVIOUS
  <2>1. SSETypeOK
    BY <2>0 DEF SSETypeOK
  <2>2. cursor \in -1..MaxPublished
    OBVIOUS
  <2> QED BY <2>1, <2>2 DEF TypeOK, Texts
<1>2. RunInv
  BY DEF RunInv
<1>3. FrameInv
  BY DEF FrameInv
<1>4. FrontierInv
  BY DEF FrontierInv
<1>5. BufferInv
  BY DEF BufferInv
<1>6. CursorInv
  BY DEF CursorInv
<1> QED BY <1>1, <1>2, <1>3, <1>4, <1>5, <1>6 DEF IndInv

(* Opening a subscription, from the cursor or live.                        *)
LEMMA SubscribeStep == IndInv /\ SubscribeChannel => IndInv'
<1> SUFFICES ASSUME IndInv, SubscribeChannel PROVE IndInv'
  OBVIOUS
<1> USE DEF IndInv, SubscribeChannel, Connected, Defers
<1>0. /\ \A i \in 1..Len(lines') : FALSE
      /\ \A i \in 1..Len(data') : FALSE
      /\ \A i \in 1..Len(events') : FALSE
      /\ ~Undelivered'
  BY DEF Undelivered, HasPiece
<1>1. TypeOK'
  <2>0. cancelled' \in BOOLEAN /\ reading' \in BOOLEAN
    OBVIOUS
  <2>1. SSETypeOK'
    BY <2>0, BoundsAssumption DEF TypeOK, SSETypeOK, CursorInv
  <2> QED BY <2>1, BufferAssumption DEF TypeOK, Texts
<1>2. RunInv'
  BY DEF RunInv
<1>3. FrameInv'
  BY <1>0 DEF FrameInv, Complete
<1>4. FrontierInv'
  BY <1>0 DEF FrontierInv, Frontier, TypeOK
<1>5. BufferInv'
  BY <1>0 DEF BufferInv
<1>6. CursorInv'
  BY DEF CursorInv, TypeOK, SSETypeOK
<1> QED BY <1>1, <1>2, <1>3, <1>4, <1>5, <1>6

(* A refused subscription, a publication, a cancellation and a deferred    *)
(* call leave the stream's contents alone.                                 *)
LEMMA QuietStep ==
    ASSUME IndInv,
           \/ SubscribeRefused
           \/ CancelContext
           \/ Return
           \/ Publish /\ UNCHANGED <<events, errs, data, event, cursor, got>>
    PROVE  IndInv'
<1> USE DEF IndInv
<1>0. UNCHANGED <<next, lines, conn, events, errs, data, event, cursor, got>>
  BY DEF SubscribeRefused, Refused, CancelContext, Cancel, Return, Deferred, Publish
<1>1. /\ published' \in {published, published + 1}
      /\ published' \in 0..MaxPublished
  BY BoundsAssumption
  DEF SubscribeRefused, Refused, CancelContext, Cancel, Return, Deferred, Publish,
      TypeOK, SSETypeOK
<1>2. pc' \in {"scan", "send"} => pc = pc'
  BY DEF SubscribeRefused, Refused, CancelContext, Cancel, Return, Deferred, Publish
<1>3. RunInv' /\ defers' \in Seq({"body", "errs", "events"})
  <2>1. CASE SubscribeRefused
    BY <2>1 DEF SubscribeRefused, Refused, RunInv, TypeOK, SSETypeOK
  <2>2. CASE CancelContext
    BY <2>2 DEF CancelContext, Cancel, RunInv, TypeOK, SSETypeOK
  <2>3. CASE Return
    <3>1. /\ pc = "return" /\ defers' = Tail(defers)
          /\ pc' = IF Len(defers) = 1 THEN "done" ELSE "return"
          /\ UNCHANGED <<cancelled, conn, errs>>
      BY <2>3 DEF Return, Deferred
    <3>2. defers \in {<<"body", "errs", "events">>, <<"errs", "events">>, <<"events">>}
      BY <3>1 DEF RunInv, Defers
    <3>3. CASE defers = <<"body", "errs", "events">>
      BY <3>1, <3>3 DEF RunInv
    <3>4. CASE defers = <<"errs", "events">>
      BY <3>1, <3>4 DEF RunInv
    <3>5. CASE defers = <<"events">>
      BY <3>1, <3>5 DEF RunInv
    <3> QED BY <3>2, <3>3, <3>4, <3>5
  <2>4. CASE Publish /\ UNCHANGED <<events, errs, data, event, cursor, got>>
    BY <2>4 DEF Publish, RunInv, TypeOK, SSETypeOK
  <2> QED BY <2>1, <2>2, <2>3, <2>4
<1>4. TypeOK'
  <2>1. cancelled' \in BOOLEAN /\ reading' \in BOOLEAN
    BY DEF SubscribeRefused, Refused, CancelContext, Cancel, Return, Deferred, Publish,
           TypeOK, SSETypeOK
  <2>2. faults' \in 0..MaxFaults
    BY BoundsAssumption
    DEF SubscribeRefused, Refused, CancelContext, Cancel, Fault, Return, Deferred, Publish,
        TypeOK, SSETypeOK
  <2>3. SSETypeOK'
    BY <1>0, <1>1, <1>3, <2>1, <2>2 DEF TypeOK, SSETypeOK, RunInv
  <2> QED BY <1>0, <2>3 DEF TypeOK
<1>5. FrameInv'
  BY <1>0, <1>2 DEF FrameInv, Complete, Undelivered, HasPiece
<1>6. FrontierInv'
  BY <1>0, <1>2 DEF FrontierInv, Frontier, Undelivered, HasPiece
<1>7. BufferInv'
  <2>1. Finished => Finished'
    BY <1>0 DEF SubscribeRefused, Refused, CancelContext, Cancel, Return, Deferred, Publish,
                Finished
  <2>2. \A i \in 1..Len(events) : events[i] \in Int /\ published \in Int
    BY BoundsAssumption DEF TypeOK, SSETypeOK
  <2>3. \A i \in 1..Len(events) : events[i] <= published'
    BY <1>1, <2>2 DEF BufferInv
  <2> QED BY <1>0, <2>1, <2>3 DEF BufferInv
<1>8. CursorInv'
  <2>1. next \in Int /\ cursor \in Int /\ published \in Int
    BY DEF TypeOK, SSETypeOK
  <2>2. next - 1 <= published' /\ cursor <= published'
    BY <1>1, <2>1 DEF CursorInv
  <2> QED BY <1>0, <2>2 DEF CursorInv
<1> QED BY <1>3, <1>4, <1>5, <1>6, <1>7, <1>8

(* A page of history extends what was received by consecutive messages.    *)
LEMMA HistoryStep == IndInv /\ ChannelMessages => IndInv'
<1> SUFFICES ASSUME IndInv, ChannelMessages PROVE IndInv'
  OBVIOUS
<1> USE DEF IndInv
<1>0. /\ UNCHANGED <<published, next, lines, conn, faults, cancelled, reading, pc, defers>>
      /\ UNCHANGED <<events, errs, data, event>>
      /\ Finished /\ pc \in {"idle", "done"} /\ cursor >= 0
  BY DEF ChannelMessages, sseVars, Finished
<1>1. PICK nextSince \in cursor..published :
        /\ got' = got \o [i \in 1..(nextSince - cursor) |-> cursor + i]
        /\ cursor' = nextSince
  BY DEF ChannelMessages
<1> DEFINE page == [i \in 1..(nextSince - cursor) |-> cursor + i]
<1>2. /\ cursor \in Nat /\ nextSince \in Nat /\ published \in Nat
      /\ nextSince - cursor \in Nat
      /\ cursor <= nextSince /\ nextSince <= published /\ published <= MaxPublished
  BY <1>0, BoundsAssumption DEF TypeOK, SSETypeOK
<1>3. /\ page \in Seq(1..MaxPublished)
      /\ Len(page) = nextSince - cursor
      /\ \A i \in 1..Len(page) : page[i] = cursor + i
  BY <1>2, BoundsAssumption
<1>4. got \in Seq(1..MaxPublished)
  BY DEF TypeOK
<1> HIDE DEF page
<1>5. /\ got' \in Seq(1..MaxPublished)
      /\ Len(got') = Len(got) + Len(page)
      /\ \A i \in 1..Len(got) : got'[i] = got[i]
      /\ \A i \in (Len(got) + 1)..(Len(got) + Len(page)) : got'[i] = cursor + (i - Len(got))
  <2>1. got' = got \o page
    BY <1>1 DEF page
  <2>2. /\ got' \in Seq(1..MaxPublished)
        /\ Len(got') = Len(got) + Len(page)
        /\ \A i \in 1..(Len(got) + Len(page)) :
              got'[i] = IF i <= Len(got) THEN got[i] ELSE page[i - Len(got)]
    <3>1. page \in Seq(1..MaxPublished)
      BY <1>3
    <3> QED BY <1>4, <2>1, <3>1, ConcatProperties, Zenon
  <2>3. Len(got) \in Nat /\ Len(page) \in Nat
    BY <1>3, <1>4
  <2>4. ASSUME NEW i \in (Len(got) + 1)..(Len(got) + Len(page))
        PROVE  got'[i] = cursor + (i - Len(got))
    <3>1. i \in 1..(Len(got) + Len(page)) /\ ~(i <= Len(got)) /\ i - Len(got) \in 1..Len(page)
      BY <2>2, <2>3
    <3> QED BY <1>3, <2>2, <3>1
  <2> QED BY <2>2, <2>3, <2>4
<1>6. TypeOK'
  <2>1. SSETypeOK'
    BY <1>0 DEF TypeOK, SSETypeOK
  <2> QED BY <1>0, <1>1, <1>2, <1>5, <2>1, BoundsAssumption DEF TypeOK
<1>7. RunInv'
  BY <1>0 DEF RunInv
<1>8. FrameInv'
  BY <1>0 DEF FrameInv, Complete, Undelivered, HasPiece
<1>9. FrontierInv'
  BY <1>0 DEF FrontierInv
<1>10. BufferInv'
  <2>1. Finished'
    BY <1>0 DEF Finished
  <2> QED BY <1>0, <2>1 DEF BufferInv
<1>11. CursorInv'
  <2>1. next' - 1 <= published' /\ cursor' <= published'
    BY <1>0, <1>1, <1>2 DEF CursorInv
  <2>2. CASE got = <<>>
    <3>1. cursor = 0 /\ Len(got) = 0
      BY <2>2, <1>2 DEF CursorInv
    <3> QED BY <1>1, <1>2, <1>3, <1>5, <2>1, <2>2, <3>1 DEF CursorInv
  <2>3. CASE got # <<>>
    <3>1. Len(got) \in Nat /\ Len(got) > 0 /\ got[1] \in Nat
      <4>1. Len(got) \in Nat /\ Len(got) >= 1 /\ got[1] \in 1..MaxPublished
        BY <1>4, <2>3, NonEmpty, Zenon
      <4> QED BY <4>1
    <3>2. cursor = got[1] + Len(got) - 1
      BY <2>3, <3>1 DEF CursorInv
    <3>3. \A i \in 1..Len(got') : got'[i] = got'[1] + i - 1
      <4>1. Len(page) \in Nat /\ got'[1] = got[1]
        BY <1>2, <1>3, <1>5, <3>1
      <4>2. ASSUME NEW i \in 1..Len(got) PROVE got'[i] = got[1] + i - 1
        BY <1>5, <4>2 DEF CursorInv
      <4>3. ASSUME NEW i \in (Len(got) + 1)..(Len(got) + Len(page))
            PROVE  got'[i] = got[1] + i - 1
        <5>1. got'[i] = cursor + (i - Len(got))
          BY <1>5
        <5> QED BY <3>1, <3>2, <4>1, <5>1
      <4>4. ASSUME NEW i \in 1..Len(got') PROVE got'[i] = got'[1] + i - 1
        <5>1. i \in 1..Len(got) \/ i \in (Len(got) + 1)..(Len(got) + Len(page))
          BY <1>5, <3>1, <4>1
        <5> QED BY <4>1, <4>2, <4>3, <5>1
      <4> QED BY <4>4
    <3>4. got'[1] = got[1] /\ got' # <<>> /\ got'[Len(got')] = cursor'
      <4>1. Len(got') \in 1..Len(got') /\ got'[1] = got[1] /\ got' # <<>>
        BY <1>2, <1>3, <1>5, <3>1
      <4>2. CASE nextSince = cursor
        <5>1. Len(got') = Len(got) /\ Len(got) \in 1..Len(got)
          BY <1>2, <1>3, <1>5, <3>1, <4>2
        <5>2. got'[Len(got)] = got[Len(got)]
          BY <1>5, <5>1
        <5>3. got[Len(got)] = cursor /\ cursor' = cursor
          BY <1>1, <2>3, <4>2 DEF CursorInv
        <5> QED BY <4>1, <5>1, <5>2, <5>3
      <4>3. CASE nextSince # cursor
        <5>1. Len(page) \in Nat /\ Len(page) >= 1
          BY <1>2, <1>3, <4>3
        <5>2. Len(got) + Len(page) \in (Len(got) + 1)..(Len(got) + Len(page))
          BY <3>1, <5>1
        <5>3. got'[Len(got) + Len(page)] = cursor + (Len(got) + Len(page) - Len(got))
          BY <1>5, <5>2
        <5>4. Len(got) + Len(page) - Len(got) = Len(page)
          BY <3>1, <5>1
        <5>5. cursor + Len(page) = nextSince
          BY <1>2, <1>3
        <5> QED BY <1>1, <1>5, <4>1, <5>3, <5>4, <5>5
      <4> QED BY <4>1, <4>2, <4>3
    <3> QED BY <2>1, <2>3, <3>3, <3>4 DEF CursorInv
  <2> QED BY <2>2, <2>3
<1> QED BY <1>6, <1>7, <1>8, <1>9, <1>10, <1>11

(* The scanner's token is the first line; a blank one was the only line    *)
(* left, and the rest of a whole frame stays whole.                        *)
LEMMA ScanFacts ==
    ASSUME IndInv, NEW f, Scanning(f)
    PROVE  /\ pc = "scan" /\ lines # <<>> /\ lines' = Tail(lines)
           /\ UNCHANGED <<published, next, conn, faults, cancelled, reading, defers>>
           /\ Len(lines) \in Nat /\ Len(lines) >= 1
           /\ Head(lines) = lines[1] /\ lines[1] \in Line /\ lines[1].field = f
           /\ lines' \in Seq(Line) /\ Len(lines') = Len(lines) - 1
           /\ \A i \in 1..Len(lines') : lines'[i] = lines[i + 1]
           /\ f = "blank" => lines' = <<>> /\ Complete
           /\ f # "blank" /\ Complete => lines' # <<>>
           /\ lines' # <<>> => (Complete' <=> Complete)
<1>1. /\ pc = "scan" /\ lines # <<>> /\ lines' = Tail(lines)
      /\ UNCHANGED <<published, next, conn, faults, cancelled, reading, defers>>
      /\ Head(lines).field = f
  BY DEF Scanning
<1>2. lines \in Seq(Line)
  BY DEF IndInv, TypeOK, SSETypeOK
<1>3. /\ Len(lines) \in Nat /\ Len(lines) >= 1 /\ Head(lines) = lines[1]
      /\ lines[1] \in Line
      /\ Tail(lines) \in Seq(Line) /\ Len(Tail(lines)) = Len(lines) - 1
      /\ \A i \in 1..(Len(lines) - 1) : Tail(lines)[i] = lines[i + 1]
  BY <1>1, <1>2, NonEmpty, Zenon
<1>4. /\ lines' \in Seq(Line) /\ Len(lines') = Len(lines) - 1
      /\ \A i \in 1..Len(lines') : lines'[i] = lines[i + 1]
  BY <1>1, <1>3
<1>5. f = "blank" => Len(lines) = 1
  <2>1. \A i \in 1..Len(lines) : lines[i].field = "blank" => i = Len(lines)
    BY DEF IndInv, FrameInv
  <2>2. 1 \in 1..Len(lines)
    BY <1>3
  <2>3. lines[1].field = f
    BY <1>1, <1>3
  <2> QED BY <2>1, <2>2, <2>3, Zenon
<1>6. f = "blank" => lines' = <<>> /\ Complete
  BY <1>1, <1>3, <1>4, <1>5 DEF Complete
<1>7. f # "blank" /\ Complete => lines' # <<>>
  <2>1. f # "blank" /\ Complete => Len(lines) # 1
    BY <1>1, <1>3 DEF Complete
  <2> QED BY <1>3, <1>4, <2>1
<1>8. ASSUME lines' # <<>> PROVE Complete' <=> Complete
  <2>1. Len(lines') >= 1
    BY <1>3, <1>4, <1>8, EmptySeq
  <2>2. lines'[Len(lines')] = lines[Len(lines)]
    BY <1>3, <1>4, <2>1
  <2> QED BY <1>1, <1>8, <2>2 DEF Complete
<1> QED BY <1>1, <1>3, <1>4, <1>6, <1>7, <1>8

(* Reading a field line moves at most one piece of the publication from    *)
(* the wire to the frame being collected.                                  *)
LEMMA ScanFieldStep == IndInv /\ ScanField => IndInv'
<1> SUFFICES ASSUME IndInv, ScanField PROVE IndInv'
  OBVIOUS
<1>1. PICK f \in {"event", "data", "id", "comment"} :
        /\ Scanning(f)
        /\ event' = IF f = "event" THEN Head(lines).text ELSE event
        /\ data' = IF f = "data" THEN Append(data, Head(lines)) ELSE data
  BY DEF ScanField
<1>2. UNCHANGED <<pc, events, errs, cursor, got>>
  BY DEF ScanField
<1>3. /\ pc = "scan" /\ lines # <<>> /\ lines' = Tail(lines)
      /\ UNCHANGED <<published, next, conn, faults, cancelled, reading, defers>>
      /\ Len(lines) \in Nat /\ Len(lines) >= 1
      /\ Head(lines) = lines[1] /\ lines[1] \in Line /\ lines[1].field = f
      /\ lines' \in Seq(Line) /\ Len(lines') = Len(lines) - 1
      /\ \A i \in 1..Len(lines') : lines'[i] = lines[i + 1]
      /\ Complete => lines' # <<>>
      /\ lines' # <<>> => (Complete' <=> Complete)
  BY <1>1, ScanFacts
<1>4. data \in Seq(Line) /\ lines \in Seq(Line) /\ event \in Texts
  BY DEF IndInv, TypeOK, SSETypeOK
<1>5. data' \in Seq(Line) /\ event' \in Texts
  BY <1>1, <1>3, <1>4 DEF Line
<1>6. Undelivered' <=> Undelivered
  <2>1. HasPiece(lines) <=> HasPiece(lines') \/ (f = "data" /\ lines[1].seq # 0)
    BY <1>3, <1>4, PieceFacts
  <2>2. CASE f = "data"
    <3>1. data' = Append(data, lines[1])
      BY <1>1, <1>3, <2>2
    <3>2. HasPiece(data') <=> HasPiece(data) \/ lines[1].seq # 0
      BY <1>3, <1>4, <2>2, <3>1, PieceFacts
    <3> QED BY <2>1, <2>2, <3>2 DEF Undelivered
  <2>3. CASE f # "data"
    BY <1>1, <2>1, <2>3 DEF Undelivered
  <2> QED BY <2>2, <2>3
<1>7. TypeOK'
  <2>1. cancelled' \in BOOLEAN /\ reading' \in BOOLEAN
    BY <1>3 DEF IndInv, TypeOK, SSETypeOK
  <2>2. SSETypeOK'
    BY <1>2, <1>3, <2>1 DEF IndInv, TypeOK, SSETypeOK
  <2> QED BY <1>2, <1>5, <2>2 DEF IndInv, TypeOK
<1>8. RunInv'
  BY <1>2, <1>3 DEF IndInv, RunInv
<1>9. FrameInv'
  <2>0. /\ \A i \in 1..Len(lines) :
              /\ lines[i].field = "blank" => i = Len(lines)
              /\ lines[i].field = "data" => lines[i].seq \in {0, next - 1}
        /\ \A i \in 1..Len(data) : data[i].field = "data" /\ data[i].seq \in {0, next - 1}
        /\ conn = "open" => Complete
        /\ Complete /\ Undelivered =>
              /\ event \in {"none", "message"}
              /\ \A i \in 1..Len(lines) : lines[i].field = "event" => lines[i].text = "message"
    BY <1>3 DEF IndInv, FrameInv
  <2>1. ASSUME NEW i \in 1..Len(lines')
        PROVE  /\ lines'[i].field = "blank" => i = Len(lines')
               /\ lines'[i].field = "data" => lines'[i].seq \in {0, next - 1}
    <3>1. i + 1 \in 1..Len(lines) /\ lines'[i] = lines[i + 1]
      BY <1>3
    <3>2. i + 1 = Len(lines) => i = Len(lines')
      <4>1. Len(lines) \in Nat /\ Len(lines') = Len(lines) - 1 /\ i \in Int
        BY <1>3
      <4> QED BY <4>1
    <3> QED BY <2>0, <3>1, <3>2
  <2>2. ASSUME NEW i \in 1..Len(data')
        PROVE  data'[i].field = "data" /\ data'[i].seq \in {0, next - 1}
    <3>1. CASE f = "data"
      <4>1. data' = Append(data, lines[1])
        BY <1>1, <1>3, <3>1
      <4>2. /\ Len(data') = Len(data) + 1 /\ Len(data) \in Nat
            /\ data'[Len(data) + 1] = lines[1]
            /\ \A k \in 1..Len(data) : data'[k] = data[k]
        BY <1>3, <1>4, <4>1, Appending
      <4>3. lines[1].field = "data" /\ lines[1].seq \in {0, next - 1}
        <5>1. 1 \in 1..Len(lines) /\ lines[1].field = f
          BY <1>3
        <5> QED BY <2>0, <3>1, <5>1, Zenon
      <4>4. i = Len(data) + 1 \/ i \in 1..Len(data)
        BY <4>2
      <4> QED BY <2>0, <4>2, <4>3, <4>4
    <3>2. CASE f # "data"
      BY <1>1, <2>0, <3>2
    <3> QED BY <3>1, <3>2
  <2>3. conn' = "open" => lines' # <<>> /\ Complete'
    BY <1>3, <2>0
  <2>4. ASSUME Complete', Undelivered'
        PROVE  /\ event' \in {"none", "message"}
               /\ \A i \in 1..Len(lines') : lines'[i].field = "event" => lines'[i].text = "message"
    <3>1. Complete /\ Undelivered
      BY <1>3, <1>6, <2>4 DEF Complete
    <3>2. /\ event \in {"none", "message"}
          /\ \A i \in 1..Len(lines) : lines[i].field = "event" => lines[i].text = "message"
      BY <2>0, <3>1
    <3>3. event' \in {"none", "message"}
      <4>1. 1 \in 1..Len(lines)
        BY <1>3
      <4> QED BY <1>1, <1>3, <3>2, <4>1
    <3>4. ASSUME NEW i \in 1..Len(lines'), lines'[i].field = "event"
          PROVE  lines'[i].text = "message"
      <4>1. i + 1 \in 1..Len(lines) /\ lines'[i] = lines[i + 1]
        BY <1>3
      <4> QED BY <3>2, <3>4, <4>1
    <3> QED BY <3>3, <3>4
  <2>5. next' = next /\ pc' = "scan"
    BY <1>2, <1>3
  <2>6. \A i \in 1..Len(lines') :
          /\ lines'[i].field = "blank" => i = Len(lines')
          /\ lines'[i].field = "data" => lines'[i].seq \in {0, next' - 1}
    BY <2>1, <2>5
  <2>7. \A i \in 1..Len(data') : data'[i].field = "data" /\ data'[i].seq \in {0, next' - 1}
    BY <2>2, <2>5
  <2> QED BY <2>3, <2>4, <2>5, <2>6, <2>7 DEF FrameInv
<1>10. FrontierInv'
  <2>1. Frontier' = Frontier
    BY <1>2 DEF Frontier
  <2> QED BY <1>2, <1>3, <1>6, <2>1 DEF IndInv, FrontierInv
<1>11. BufferInv'
  <2>1. Finished' <=> Finished
    BY <1>2, <1>3 DEF Finished
  <2> QED BY <1>2, <1>3, <2>1 DEF IndInv, BufferInv
<1>12. CursorInv'
  BY <1>2, <1>3 DEF IndInv, CursorInv
<1> QED BY <1>7, <1>8, <1>9, <1>10, <1>11, <1>12 DEF IndInv

(* Leaving the loop: with an error unless cancelled or at a clean end, and *)
(* with nothing left to do but the deferred calls.                         *)
Leave(err) ==
    /\ pc \in {"scan", "send"} /\ pc' = "return"
    /\ UNCHANGED <<published, next, conn, faults, cancelled, reading, defers>>
    /\ UNCHANGED <<events, cursor, got>>
    /\ errs' = Append(errs, err) \/ (errs' = errs /\ (cancelled \/ conn = "eof"))
    /\ lines' \in {lines, <<>>}
    /\ (data' = data /\ event' = event) \/ ResetFrame

(* Whichever way the loop is left.                                         *)
LEMMA LeaveStep ==
    ASSUME IndInv, NEW err \in {"decode", "read", "ctx"}, Leave(err)
    PROVE  IndInv'
<1>0. /\ pc \in {"scan", "send"} /\ pc' = "return"
      /\ UNCHANGED <<published, next, conn, faults, cancelled, reading, defers>>
      /\ UNCHANGED <<events, cursor, got>>
      /\ lines' \in {lines, <<>>}
  BY DEF Leave
<1>1. errs = <<>> /\ defers = Defers
  BY <1>0 DEF IndInv, RunInv
<1>2. TypeOK'
  <2>1. cancelled' \in BOOLEAN /\ reading' \in BOOLEAN
    BY <1>0 DEF IndInv, TypeOK, SSETypeOK
  <2>2. lines \in Seq(Line) /\ data \in Seq(Line) /\ event \in Texts
    BY DEF IndInv, TypeOK, SSETypeOK
  <2>3. lines' \in Seq(Line)
    <3>1. lines' = lines \/ lines' = <<>>
      BY <1>0
    <3>2. <<>> \in Seq(Line)
      OBVIOUS
    <3> QED BY <2>2, <3>1, <3>2, Zenon
  <2>4. SSETypeOK'
    <3>1. pc' \in {"idle", "scan", "send", "final", "sendFinal", "return", "done"}
      BY <1>0
    <3> QED BY <1>0, <2>1, <2>3, <3>1 DEF IndInv, TypeOK, SSETypeOK
  <2>5. errs' \in Seq({"decode", "read", "ctx"}) /\ Len(errs') <= 1
    <3>1. errs' = <<>> \/ errs' = <<err>>
      BY <1>1 DEF Leave
    <3>2. CASE errs' = <<>>
      BY <3>2
    <3>3. CASE errs' = <<err>>
      BY <3>3
    <3> QED BY <3>1, <3>2, <3>3
  <2>6. data' \in Seq(Line) /\ event' \in Texts
    <3>1. (data' = data /\ event' = event) \/ (data' = <<>> /\ event' = "none")
      BY DEF Leave, ResetFrame
    <3>2. <<>> \in Seq(Line) /\ "none" \in Texts
      BY DEF Texts
    <3> QED BY <2>2, <3>1, <3>2, Zenon
  <2> QED BY <1>0, <2>4, <2>5, <2>6 DEF IndInv, TypeOK
<1>3. RunInv'
  <2>1. errs' = <<>> => cancelled \/ conn = "eof"
    BY <1>1 DEF Leave
  <2> QED BY <1>0, <1>1, <2>1 DEF RunInv, Defers
<1>4. FrameInv'
  <2>1. /\ \A i \in 1..Len(lines) :
              /\ lines[i].field = "blank" => i = Len(lines)
              /\ lines[i].field = "data" => lines[i].seq \in {0, next - 1}
        /\ \A i \in 1..Len(data) : data[i].field = "data" /\ data[i].seq \in {0, next - 1}
    BY DEF IndInv, FrameInv
  <2>2. /\ \A i \in 1..Len(lines') :
              /\ lines'[i].field = "blank" => i = Len(lines')
              /\ lines'[i].field = "data" => lines'[i].seq \in {0, next' - 1}
    BY <1>0, <2>1
  <2>3. \A i \in 1..Len(data') : data'[i].field = "data" /\ data'[i].seq \in {0, next' - 1}
    BY <1>0, <2>1 DEF Leave, ResetFrame
  <2> QED BY <1>0, <2>2, <2>3 DEF FrameInv
<1>5. FrontierInv'
  BY <1>0 DEF FrontierInv
<1>6. BufferInv'
  BY <1>0 DEF IndInv, BufferInv, Finished
<1>7. CursorInv'
  BY <1>0 DEF IndInv, CursorInv
<1> QED BY <1>2, <1>3, <1>4, <1>5, <1>6, <1>7 DEF IndInv

(* A malformed message, a cancelled send and the scanner's end all leave.  *)
LEMMA FailSteps == IndInv /\ (FlushMalformed \/ SendCancelled \/ ScanEnd) => IndInv'
<1>1. ASSUME IndInv, FlushMalformed PROVE IndInv'
  <2>1. Scanning("blank") /\ Fail("decode") /\ ResetFrame /\ UNCHANGED <<events, cursor, got>>
    BY <1>1 DEF FlushMalformed
  <2>2. /\ pc = "scan" /\ lines' = <<>>
        /\ UNCHANGED <<published, next, conn, faults, cancelled, reading, defers>>
    BY <1>1, <2>1, ScanFacts
  <2>3. pc' = "return" /\ (errs' = Append(errs, "decode") \/ (errs' = errs /\ cancelled))
    BY <2>1 DEF Fail
  <2>4. Leave("decode")
    BY <2>1, <2>2, <2>3 DEF Leave
  <2> QED BY <1>1, <2>4, LeaveStep
<1>2. ASSUME IndInv, SendCancelled PROVE IndInv'
  <2>1. Leave("ctx")
    BY <1>2 DEF SendCancelled, Fail, Leave
  <2> QED BY <1>2, <2>1, LeaveStep
<1>3. ASSUME IndInv, ScanEnd PROVE IndInv'
  <2>1. Leave("read")
    BY <1>3 DEF ScanEnd, ScanEOF, ScanFails, Fail, Leave
  <2> QED BY <1>3, <2>1, LeaveStep
<1> QED BY <1>1, <1>2, <1>3

(* A piece among the collected data lines: the frame is not ignored.       *)
LEMMA FlushFacts ==
    ASSUME IndInv, Scanning("blank")
    PROVE  /\ Undelivered <=> HasPiece(data)
           /\ Undelivered => ~Ignorable
<1>1. /\ pc = "scan" /\ lines # <<>> /\ lines' = Tail(lines) /\ lines' = <<>> /\ Complete
      /\ lines[1].field = "blank" /\ Head(lines) = lines[1] /\ lines[1] \in Line
  BY ScanFacts
<1>2. lines \in Seq(Line) /\ data \in Seq(Line)
  BY DEF IndInv, TypeOK, SSETypeOK
<1>3. ~HasPiece(lines)
  <2>1. HasPiece(lines) <=> HasPiece(Tail(lines))
    BY <1>1, <1>2, PieceFacts
  <2>2. ~HasPiece(<<>>)
    BY <1>1, <1>2, PieceFacts
  <2> QED BY <1>1, <2>1, <2>2
<1>4. Undelivered <=> HasPiece(data)
  BY <1>3 DEF Undelivered
<1>5. HasPiece(data) => data # <<>>
  BY <1>1, <1>2, PieceFacts
<1>6. Undelivered => event \in {"none", "message"}
  BY <1>1 DEF IndInv, FrameInv
<1> QED BY <1>4, <1>5, <1>6 DEF Ignorable

(* A frame that is ignored carried no publication.                         *)
LEMMA FlushIgnoredStep == IndInv /\ FlushIgnored => IndInv'
<1> SUFFICES ASSUME IndInv, FlushIgnored PROVE IndInv'
  OBVIOUS
<1>1. /\ Scanning("blank") /\ Ignorable /\ data' = <<>> /\ event' = "none"
      /\ UNCHANGED <<pc, events, errs, cursor, got>>
  BY DEF FlushIgnored, ResetFrame
<1>2. /\ pc = "scan" /\ lines' = <<>>
      /\ UNCHANGED <<published, next, conn, faults, cancelled, reading, defers>>
  BY <1>1, ScanFacts
<1>3. ~Undelivered
  BY <1>1, FlushFacts
<1>4. ~Undelivered' /\ ~Complete'
  BY <1>1, <1>2 DEF Undelivered, HasPiece, Complete
<1>5. TypeOK'
  <2>1. cancelled' \in BOOLEAN /\ reading' \in BOOLEAN
    BY <1>2 DEF IndInv, TypeOK, SSETypeOK
  <2>2. SSETypeOK'
    BY <1>1, <1>2, <2>1 DEF IndInv, TypeOK, SSETypeOK
  <2> QED BY <1>1, <2>2 DEF IndInv, TypeOK, Texts
<1>6. RunInv'
  BY <1>1, <1>2 DEF IndInv, RunInv
<1>7. FrameInv'
  BY <1>1, <1>2, <1>4 DEF FrameInv
<1>8. FrontierInv'
  <2>1. Frontier' = Frontier
    BY <1>1 DEF Frontier
  <2> QED BY <1>1, <1>2, <1>3, <1>4, <2>1 DEF IndInv, FrontierInv
<1>9. BufferInv'
  <2>1. Finished' <=> Finished
    BY <1>1, <1>2 DEF Finished
  <2> QED BY <1>1, <1>2, <2>1 DEF IndInv, BufferInv
<1>10. CursorInv'
  BY <1>1, <1>2 DEF IndInv, CursorInv
<1> QED BY <1>5, <1>6, <1>7, <1>8, <1>9, <1>10 DEF IndInv

(* A decoded message waits in the select with its frame still in place.    *)
LEMMA FlushMessageStep == IndInv /\ FlushMessage => IndInv'
<1> SUFFICES ASSUME IndInv, FlushMessage PROVE IndInv'
  OBVIOUS
<1>1. /\ Scanning("blank") /\ Decode(data) # 0 /\ pc' = "send"
      /\ UNCHANGED <<events, errs, data, event, cursor, got>>
  BY DEF FlushMessage
<1>2. /\ pc = "scan" /\ lines' = <<>>
      /\ UNCHANGED <<published, next, conn, faults, cancelled, reading, defers>>
  BY <1>1, ScanFacts
<1>3. Undelivered' => Undelivered
  BY <1>1, <1>2 DEF Undelivered, HasPiece
<1>4. TypeOK'
  <2>1. cancelled' \in BOOLEAN /\ reading' \in BOOLEAN
    BY <1>2 DEF IndInv, TypeOK, SSETypeOK
  <2>2. SSETypeOK'
    BY <1>1, <1>2, <2>1 DEF IndInv, TypeOK, SSETypeOK
  <2> QED BY <1>1, <2>2 DEF IndInv, TypeOK
<1>5. RunInv'
  BY <1>1, <1>2 DEF IndInv, RunInv
<1>6. FrameInv'
  <2>1. Decode(data)' # 0
    BY <1>1 DEF Decode
  <2>2. \A i \in 1..Len(data') : data'[i].field = "data" /\ data'[i].seq \in {0, next' - 1}
    BY <1>1, <1>2 DEF IndInv, FrameInv
  <2> QED BY <1>1, <1>2, <2>1, <2>2 DEF FrameInv
<1>7. FrontierInv'
  <2>1. Frontier' = Frontier
    BY <1>1 DEF Frontier
  <2> QED BY <1>1, <1>2, <1>3, <2>1 DEF IndInv, FrontierInv
<1>8. BufferInv'
  <2>1. ~Finished' /\ ~Finished
    BY <1>1, <1>2 DEF Finished
  <2> QED BY <1>1, <1>2, <2>1 DEF IndInv, BufferInv
<1>9. CursorInv'
  BY <1>1, <1>2 DEF IndInv, CursorInv
<1> QED BY <1>4, <1>5, <1>6, <1>7, <1>8, <1>9 DEF IndInv

(* What is decoded in the select is the last publication written.          *)
LEMMA DecodeFacts ==
    ASSUME IndInv, pc = "send"
    PROVE  /\ Decode(data) = next - 1
           /\ next - 1 \in 1..MaxPublished /\ next - 1 <= published
           /\ HasPiece(data) /\ Undelivered
<1>1. /\ Decode(data) # 0
      /\ \A i \in 1..Len(data) : data[i].field = "data" /\ data[i].seq \in {0, next - 1}
  BY DEF IndInv, FrameInv
<1>2. Len(data) \in {1, 2} /\ Decode(data) = data[1].seq
  BY <1>1 DEF Decode
<1>3. 1 \in 1..Len(data)
  BY <1>2
<1>4. data[1].field = "data" /\ data[1].seq = next - 1 /\ data[1].seq # 0
  BY <1>1, <1>2, <1>3
<1>5. HasPiece(data)
  BY <1>3, <1>4 DEF HasPiece
<1>6. /\ next \in 1..MaxPublished + 1 /\ next - 1 <= published /\ published \in 0..MaxPublished
  BY DEF IndInv, TypeOK, SSETypeOK, CursorInv
<1>7. next - 1 \in 1..MaxPublished
  BY <1>4, <1>6, BoundsAssumption
<1> QED BY <1>2, <1>4, <1>5, <1>6, <1>7 DEF Undelivered

(* Buffering the decoded message extends the buffer by its successor.      *)
LEMMA SendEventStep == IndInv /\ SendEvent => IndInv'
<1> SUFFICES ASSUME IndInv, SendEvent PROVE IndInv'
  OBVIOUS
<1>1. /\ pc = "send" /\ pc' = "scan" /\ data' = <<>> /\ event' = "none"
      /\ Len(events) < Cap /\ events' = Append(events, Decode(data))
      /\ UNCHANGED <<published, next, lines, conn, faults, cancelled, reading, defers>>
      /\ UNCHANGED <<errs, cursor, got>>
  BY DEF SendEvent, ResetFrame
<1>2. PICK n \in 1..MaxPublished : n = next - 1
  BY <1>1, DecodeFacts
<1>3. Decode(data) = n /\ n <= published /\ Undelivered
  BY <1>1, <1>2, DecodeFacts
<1>4. n \in Nat /\ n >= 1 /\ published \in Nat /\ next \in Nat /\ cursor \in Int
  BY BoundsAssumption DEF IndInv, TypeOK, SSETypeOK
<1>5. events \in Seq(1..MaxPublished)
  BY DEF IndInv, TypeOK
<1>6. /\ events' \in Seq(1..MaxPublished) /\ events' # <<>>
      /\ Len(events') = Len(events) + 1 /\ Len(events) \in Nat
      /\ events'[Len(events) + 1] = n
      /\ \A i \in 1..Len(events) : events'[i] = events[i]
  BY <1>1, <1>3, <1>5, Appending
<1>7. lines = <<>> /\ lines' = <<>>
  BY <1>1 DEF IndInv, FrameInv
<1>8. ~Undelivered' /\ ~Complete'
  BY <1>1, <1>7 DEF Undelivered, HasPiece, Complete
<1>9. TypeOK'
  <2>1. cancelled' \in BOOLEAN /\ reading' \in BOOLEAN
    BY <1>1 DEF IndInv, TypeOK, SSETypeOK
  <2>2. SSETypeOK'
    BY <1>1, <2>1 DEF IndInv, TypeOK, SSETypeOK
  <2>3. Len(events') <= Cap
    BY <1>1, <1>6, BufferAssumption
  <2> QED BY <1>1, <1>6, <2>2, <2>3 DEF IndInv, TypeOK, Texts
<1>10. RunInv'
  BY <1>1 DEF IndInv, RunInv
<1>11. FrameInv'
  BY <1>1, <1>7, <1>8 DEF FrameInv
<1>12. FrontierInv'
  <2>1. Frontier' = next' - 1
    BY <1>1, <1>2, <1>6 DEF Frontier
  <2> QED BY <1>8, <2>1 DEF FrontierInv
<1>13. BufferInv'
  <2>1. ~Finished
    BY <1>1 DEF Finished
  <2>2. Frontier >= 0 => Frontier = next - 2
    BY <1>1, <1>3 DEF IndInv, FrontierInv
  <2>3. CASE events = <<>>
    <3>1. Len(events) = 0 /\ Len(events') = 1 /\ events'[1] = n
      BY <1>6, <2>3
    <3>2. cursor >= 0 => n = cursor + 1
      BY <1>2, <1>4, <2>2, <2>3 DEF Frontier
    <3> QED BY <1>1, <1>3, <1>4, <3>1, <3>2 DEF BufferInv
  <2>4. CASE events # <<>>
    <3>1. /\ Len(events) \in Nat /\ Len(events) >= 1
          /\ events[1] \in 1..MaxPublished /\ events[Len(events)] \in 1..MaxPublished
      BY <1>5, <2>4, NonEmpty, Zenon
    <3>2. /\ \A i \in 1..Len(events) : events[i] = events[1] + i - 1 /\ events[i] <= published
          /\ cursor >= 0 => events[1] = cursor + 1
      BY <2>1, <2>4 DEF IndInv, BufferInv
    <3>3. events[1] \in Nat /\ events[Len(events)] = next - 2
      BY <2>2, <2>4, <3>1, BoundsAssumption DEF Frontier
    <3>4. events[1] + Len(events) = n
      <4>1. events[Len(events)] = events[1] + Len(events) - 1
        BY <3>1, <3>2
      <4> QED BY <1>2, <1>4, <3>1, <3>3, <4>1
    <3>5. events'[1] = events[1]
      BY <1>6, <3>1
    <3>6. ASSUME NEW i \in 1..Len(events')
          PROVE  events'[i] = events'[1] + i - 1 /\ events'[i] <= published
      <4>1. CASE i \in 1..Len(events)
        BY <1>6, <3>2, <3>5, <4>1
      <4>2. CASE i = Len(events) + 1
        <5>1. events'[i] = n /\ events[1] + i - 1 = n
          BY <1>6, <3>1, <3>3, <3>4, <4>2
        <5> QED BY <1>3, <3>5, <5>1
      <4>3. i \in 1..Len(events) \/ i = Len(events) + 1
        BY <1>6
      <4> QED BY <4>1, <4>2, <4>3
    <3> QED BY <1>1, <3>2, <3>5, <3>6 DEF BufferInv
  <2> QED BY <2>3, <2>4
<1>14. CursorInv'
  BY <1>1 DEF IndInv, CursorInv
<1> QED BY <1>9, <1>10, <1>11, <1>12, <1>13, <1>14 DEF IndInv

(* The consumer takes the successor of what it had.                        *)
LEMMA ReceiveStep == IndInv /\ Receive => IndInv'
<1> SUFFICES ASSUME IndInv, Receive PROVE IndInv'
  OBVIOUS
<1>1. /\ reading /\ events # <<>> /\ events' = Tail(events)
      /\ got' = Append(got, Head(events)) /\ cursor' = Head(events)
      /\ UNCHANGED <<published, next, lines, conn, faults, cancelled, reading, pc, defers>>
      /\ UNCHANGED <<errs, data, event>>
  BY DEF Receive, sseVars
<1>2. events \in Seq(1..MaxPublished) /\ got \in Seq(1..MaxPublished)
  BY DEF IndInv, TypeOK
<1>3. /\ Len(events) \in Nat /\ Len(events) >= 1 /\ Head(events) = events[1]
      /\ events[1] \in 1..MaxPublished
      /\ events' \in Seq(1..MaxPublished) /\ Len(events') = Len(events) - 1
      /\ \A i \in 1..(Len(events) - 1) : events'[i] = events[i + 1]
  BY <1>1, <1>2, NonEmpty, Zenon
<1>4. PICK n \in 1..MaxPublished : n = events[1]
  BY <1>3
<1>5. n \in Nat /\ n >= 1 /\ published \in Nat /\ next \in Nat /\ cursor \in Int
  BY BoundsAssumption DEF IndInv, TypeOK, SSETypeOK
<1>6. pc # "idle" /\ ~Finished
  <2>1. pc # "idle"
    BY <1>1 DEF IndInv, RunInv
  <2> QED BY <1>1, <2>1 DEF Finished
<1>7. /\ \A i \in 1..Len(events) : events[i] = n + i - 1 /\ events[i] <= published
      /\ cursor >= 0 => n = cursor + 1
  BY <1>1, <1>4, <1>6 DEF IndInv, BufferInv
<1>8. /\ got' \in Seq(1..MaxPublished) /\ got' # <<>>
      /\ Len(got') = Len(got) + 1 /\ Len(got) \in Nat
      /\ got'[Len(got) + 1] = n
      /\ \A i \in 1..Len(got) : got'[i] = got[i]
  BY <1>1, <1>2, <1>3, <1>4, Appending
<1>9. cursor' = n /\ n <= published
  BY <1>1, <1>3, <1>4, <1>7
<1>10. TypeOK'
  <2>1. cancelled' \in BOOLEAN /\ reading' \in BOOLEAN
    BY <1>1 DEF IndInv, TypeOK, SSETypeOK
  <2>2. SSETypeOK'
    BY <1>1, <2>1 DEF IndInv, TypeOK, SSETypeOK
  <2>3. Len(events') <= Cap
    BY <1>3, BufferAssumption DEF IndInv, TypeOK
  <2>4. cursor' \in -1..MaxPublished
    BY <1>5, <1>9, BoundsAssumption
  <2> QED BY <1>1, <1>3, <1>8, <2>2, <2>3, <2>4 DEF IndInv, TypeOK
<1>11. RunInv'
  BY <1>1, <1>6 DEF IndInv, RunInv
<1>12. FrameInv'
  BY <1>1 DEF IndInv, FrameInv, Complete, Undelivered, HasPiece, Decode
<1>13. FrontierInv'
  <2>1. Undelivered' <=> Undelivered
    BY <1>1 DEF Undelivered, HasPiece
  <2>2. Frontier = n + Len(events) - 1
    BY <1>1, <1>3, <1>7 DEF Frontier
  <2>3. Frontier' = Frontier
    <3>1. CASE events' = <<>>
      <4>1. Len(events) = 1
        BY <1>3, <3>1
      <4> QED BY <1>5, <1>9, <2>2, <3>1, <4>1 DEF Frontier
    <3>2. CASE events' # <<>>
      <4>1. Len(events) >= 2
        BY <1>3, <3>2, EmptySeq
      <4>2. events'[Len(events')] = events[Len(events)]
        BY <1>3, <4>1
      <4> QED BY <1>1, <3>2, <4>2 DEF Frontier
    <3> QED BY <3>1, <3>2
  <2> QED BY <1>1, <2>1, <2>3 DEF IndInv, FrontierInv
<1>14. BufferInv'
  <2>1. ASSUME NEW i \in 1..Len(events')
        PROVE  events'[i] = n + i /\ events'[i] <= published
    <3>1. i + 1 \in 1..Len(events) /\ events'[i] = events[i + 1] /\ i \in Int
      BY <1>3
    <3>2. events[i + 1] = n + (i + 1) - 1 /\ events[i + 1] <= published
      BY <1>7, <3>1
    <3> QED BY <1>5, <3>1, <3>2
  <2>2. events' # <<>> => 1 \in 1..Len(events')
    BY <1>3, EmptySeq
  <2>3. events' # <<>> => events'[1] = n + 1
    BY <2>1, <2>2
  <2>4. ASSUME NEW i \in 1..Len(events')
        PROVE  events'[i] = events'[1] + i - 1 /\ events'[i] <= published
    <3>1. i \in Int /\ 1 \in 1..Len(events')
      BY <1>3
    <3>2. events'[1] = n + 1 /\ events'[i] = n + i /\ events'[i] <= published
      BY <2>1, <3>1
    <3> QED BY <1>5, <3>1, <3>2
  <2> QED BY <1>1, <1>9, <2>3, <2>4 DEF BufferInv
<1>15. CursorInv'
  <2>1. /\ got = <<>> => cursor \in (IF Live THEN {-1, 0} ELSE {0})
        /\ got # <<>> => cursor = got[Len(got)] /\ (~Live => got[1] = 1)
        /\ \A i \in 1..Len(got) : got[i] = got[1] + i - 1
        /\ next - 1 <= published
    BY DEF IndInv, CursorInv
  <2>2. got'[Len(got')] = n
    BY <1>8
  <2>3. CASE got = <<>>
    <3>1. Len(got) = 0 /\ got'[1] = n /\ Len(got') = 1
      BY <1>8, <2>3
    <3>2. ~Live => n = 1
      BY <1>5, <1>7, <2>1, <2>3
    <3> QED BY <1>1, <1>5, <1>8, <1>9, <2>1, <2>2, <3>1, <3>2 DEF CursorInv
  <2>4. CASE got # <<>>
    <3>1. Len(got) >= 1 /\ got[1] \in 1..MaxPublished /\ got[Len(got)] \in 1..MaxPublished
      BY <1>2, <2>4, NonEmpty, Zenon
    <3>2. got[1] \in Nat /\ got[Len(got)] \in Nat
      BY <3>1, BoundsAssumption
    <3>3. got'[1] = got[1] /\ (~Live => got'[1] = 1)
      BY <1>8, <2>1, <2>4, <3>1
    <3>4. n = got[1] + Len(got)
      <4>1. cursor = got[Len(got)] /\ got[Len(got)] = got[1] + Len(got) - 1
        BY <1>8, <2>1, <2>4, <3>1
      <4>2. n = cursor + 1
        BY <1>7, <3>2, <4>1
      <4> QED BY <1>8, <3>2, <4>1, <4>2
    <3>5. ASSUME NEW i \in 1..Len(got') PROVE got'[i] = got'[1] + i - 1
      <4>1. CASE i \in 1..Len(got)
        BY <1>8, <2>1, <3>3, <4>1
      <4>2. CASE i = Len(got) + 1
        <5>1. got'[i] = n /\ got[1] + i - 1 = n
          BY <1>8, <3>2, <3>4, <4>2
        <5> QED BY <3>3, <5>1
      <4>3. i \in 1..Len(got) \/ i = Len(got) + 1
        BY <1>8
      <4> QED BY <4>1, <4>2, <4>3
    <3> QED BY <1>1, <1>8, <1>9, <2>1, <2>2, <3>3, <3>5 DEF CursorInv
  <2> QED BY <2>3, <2>4
<1> QED BY <1>10, <1>11, <1>12, <1>13, <1>14, <1>15 DEF IndInv

(* What the daemon writes: a frame of the next publication, or noise.      *)
Write(n) ==
    /\ Idle
    /\ UNCHANGED <<published, conn, cancelled, reading, pc, defers>>
    /\ UNCHANGED <<events, errs, data, event, cursor, got>>
    /\ FrameOf(n, lines')
    /\ \/ n = 0 /\ next' = next /\ faults' \in 0..MaxFaults
       \/ n = next /\ n <= published /\ next' = n + 1 /\ faults' = faults /\ MessageFrame(n, lines')

(* Either puts one whole frame on a wire that held nothing undelivered.    *)
LEMMA WriteStep ==
    ASSUME IndInv, NEW n \in Nat, Write(n)
    PROVE  IndInv'
<1>1. /\ conn = "open" /\ pc = "scan" /\ lines = <<>>
      /\ UNCHANGED <<published, conn, cancelled, reading, pc, defers>>
      /\ UNCHANGED <<events, errs, data, event, cursor, got>>
  BY DEF Write, Idle
<1>2. /\ lines' \in Seq(Line) /\ lines' # <<>> /\ lines'[Len(lines')].field = "blank"
      /\ \A i \in 1..Len(lines') : /\ lines'[i].field = "blank" => i = Len(lines')
                                   /\ lines'[i].field = "data" => lines'[i].seq = n
  BY DEF Write, FrameOf
<1>3. data = <<>> /\ event = "none"
  BY <1>1 DEF IndInv, FrameInv
<1>4. ~Undelivered
  BY <1>1, <1>3 DEF Undelivered, HasPiece
<1>5. next \in Nat /\ next >= 1 /\ published \in Nat /\ published <= MaxPublished
      /\ faults \in 0..MaxFaults /\ next \in 1..MaxPublished + 1 /\ next - 1 <= published
  BY DEF IndInv, TypeOK, SSETypeOK, CursorInv
<1>6. \/ n = 0 /\ next' = next /\ faults' \in 0..MaxFaults
      \/ n = next /\ n <= published /\ next' = n + 1 /\ faults' = faults /\ MessageFrame(n, lines')
  BY DEF Write
<1>7. next' \in 1..MaxPublished + 1 /\ faults' \in 0..MaxFaults
  BY <1>5, <1>6, BoundsAssumption
<1>8. next' - 1 <= published
  BY <1>5, <1>6
<1>9. n \in {0, next' - 1}
  BY <1>5, <1>6
<1>10. TypeOK'
  <2>1. cancelled' \in BOOLEAN /\ reading' \in BOOLEAN
    BY <1>1 DEF IndInv, TypeOK, SSETypeOK
  <2>2. SSETypeOK'
    BY <1>1, <1>2, <1>7, <2>1 DEF IndInv, TypeOK, SSETypeOK
  <2> QED BY <1>1, <2>2 DEF IndInv, TypeOK
<1>11. RunInv'
  BY <1>1 DEF IndInv, RunInv
<1>12. FrameInv'
  <2>1. Complete'
    BY <1>2 DEF Complete
  <2>2. Undelivered' => \A i \in 1..Len(lines') :
                            lines'[i].field = "event" => lines'[i].text = "message"
    <3>1. CASE n = 0
      <4>1. ~Undelivered'
        BY <1>1, <1>2, <1>3, <3>1 DEF Undelivered, HasPiece
      <4> QED BY <4>1
    <3>2. CASE n # 0
      BY <1>6, <3>2 DEF MessageFrame
    <3> QED BY <3>1, <3>2
  <2>3. \A i \in 1..Len(lines') :
          /\ lines'[i].field = "blank" => i = Len(lines')
          /\ lines'[i].field = "data" => lines'[i].seq \in {0, next' - 1}
    BY <1>2, <1>9
  <2>4. \A i \in 1..Len(data') : FALSE
    BY <1>1, <1>3
  <2> QED BY <1>1, <1>2, <1>3, <2>1, <2>2, <2>3, <2>4 DEF FrameInv
<1>13. FrontierInv'
  <2>1. Frontier' = Frontier
    BY <1>1 DEF Frontier
  <2>2. Frontier >= 0 => Frontier = next - 1
    BY <1>1, <1>4 DEF IndInv, FrontierInv
  <2>3. CASE n = 0
    <3>1. ~Undelivered'
      BY <1>1, <1>2, <1>3, <2>3 DEF Undelivered, HasPiece
    <3>2. next' = next
      BY <1>5, <1>6, <2>3
    <3> QED BY <2>1, <2>2, <3>1, <3>2 DEF FrontierInv
  <2>4. CASE n # 0
    <3>1. HasPiece(lines') /\ next' = n + 1 /\ n = next
      BY <1>6, <2>4 DEF MessageFrame
    <3>2. Undelivered'
      BY <3>1 DEF Undelivered, HasPiece
    <3>3. next - 1 = next' - 2
      BY <1>5, <3>1
    <3> QED BY <2>1, <2>2, <3>2, <3>3 DEF FrontierInv
  <2> QED BY <2>3, <2>4
<1>14. BufferInv'
  <2>1. Finished' <=> Finished
    BY <1>1 DEF Finished
  <2> QED BY <1>1, <2>1 DEF IndInv, BufferInv
<1>15. CursorInv'
  BY <1>1, <1>8 DEF IndInv, CursorInv
<1> QED BY <1>10, <1>11, <1>12, <1>13, <1>14, <1>15 DEF IndInv

(* The end of the response body: a whole frame arrives unchanged or not    *)
(* at all.                                                                 *)
LEMMA DisconnectStep ==
    ASSUME IndInv, Disconnect, UNCHANGED <<events, errs, data, event, cursor, got>>
    PROVE  IndInv'
<1>1. /\ conn = "open" /\ conn' \in {"eof", "reset"} /\ lines' \in Remainders(lines)
      /\ faults < MaxFaults /\ faults' = faults + 1
      /\ UNCHANGED <<published, next, cancelled, reading, pc, defers>>
  BY DEF Disconnect, Fault
<1>2. lines \in Seq(Line)
  BY DEF IndInv, TypeOK, SSETypeOK
<1>3. /\ lines' \in Seq(Line)
      /\ Len(lines') <= Len(lines)
      /\ \A i \in 1..Len(lines') :
            /\ lines'[i].field = lines[i].field
            /\ lines'[i].field = "data" => lines'[i].seq = lines[i].seq
            /\ i < Len(lines') \/ lines'[i].field = "blank" => lines'[i] = lines[i]
  BY <1>1, <1>2, RemainderFacts
<1>4. Len(lines) \in Nat /\ Len(lines') \in Nat
  BY <1>2, <1>3
<1>5. \A i \in 1..Len(lines') : i \in 1..Len(lines)
  BY <1>3, <1>4
<1>6. Undelivered' => Undelivered
  <2>1. HasPiece(lines') => HasPiece(lines)
    BY <1>3, <1>5 DEF HasPiece
  <2> QED BY <2>1 DEF Undelivered, HasPiece
<1>7. /\ \A i \in 1..Len(lines) :
            /\ lines[i].field = "blank" => i = Len(lines)
            /\ lines[i].field = "data" => lines[i].seq \in {0, next - 1}
      /\ \A i \in 1..Len(data) : data[i].field = "data" /\ data[i].seq \in {0, next - 1}
      /\ pc = "send" => lines = <<>> /\ Decode(data) # 0
      /\ pc = "scan" /\ Complete /\ Undelivered =>
          /\ event \in {"none", "message"}
          /\ \A i \in 1..Len(lines) : lines[i].field = "event" => lines[i].text = "message"
  BY DEF IndInv, FrameInv
<1>8. ASSUME NEW i \in 1..Len(lines'), lines'[i].field = "blank"
      PROVE  i = Len(lines') /\ i = Len(lines)
  <2>1. i = Len(lines)
    BY <1>3, <1>5, <1>7, <1>8
  <2> QED BY <1>3, <1>4, <2>1
<1>9. ASSUME Complete'
      PROVE  Complete /\ \A i \in 1..Len(lines') : lines'[i] = lines[i]
  <2>1. lines' # <<>> /\ lines'[Len(lines')].field = "blank"
    BY <1>9 DEF Complete
  <2>2. Len(lines') >= 1
    BY <1>3, <1>4, <2>1, EmptySeq
  <2>3. Len(lines') \in 1..Len(lines')
    BY <1>4, <2>2
  <2>4. Len(lines') = Len(lines) /\ lines[Len(lines)].field = "blank"
    BY <1>3, <1>8, <2>1, <2>3
  <2>5. lines # <<>>
    BY <1>2, <2>2, <2>4
  <2>6. ASSUME NEW i \in 1..Len(lines') PROVE lines'[i] = lines[i]
    <3>1. i < Len(lines') \/ i = Len(lines')
      BY <1>4
    <3> QED BY <1>3, <2>1, <3>1
  <2> QED BY <2>4, <2>5, <2>6 DEF Complete
<1>10. TypeOK'
  <2>1. cancelled' \in BOOLEAN /\ reading' \in BOOLEAN
    BY <1>1 DEF IndInv, TypeOK, SSETypeOK
  <2>2. faults' \in 0..MaxFaults
    BY <1>1, BoundsAssumption DEF IndInv, TypeOK, SSETypeOK
  <2>3. conn' \in {"none", "open", "eof", "reset"}
    BY <1>1
  <2>4. UNCHANGED <<published, next, cancelled, reading, pc, defers>>
    BY <1>1
  <2>5. lines' \in Seq(Line)
    BY <1>3
  <2>6. SSETypeOK'
    BY <2>1, <2>2, <2>3, <2>4, <2>5 DEF IndInv, TypeOK, SSETypeOK
  <2> QED BY <2>6 DEF IndInv, TypeOK
<1>11. RunInv'
  BY <1>1 DEF IndInv, RunInv
<1>12. FrameInv'
  <2>1. ASSUME NEW i \in 1..Len(lines'), lines'[i].field = "data"
        PROVE  lines'[i].seq \in {0, next' - 1}
    BY <1>1, <1>3, <1>5, <1>7, <2>1
  <2>2. pc' = "send" => lines' = <<>> /\ Decode(data)' # 0
    <3>1. lines = <<>> => lines' = <<>>
      BY <1>3, <1>4
    <3>2. Decode(data)' = Decode(data)
      BY DEF Decode
    <3> QED BY <1>1, <1>7, <3>1, <3>2
  <2>3. pc' = "scan" /\ Complete' /\ Undelivered' =>
          /\ event' \in {"none", "message"}
          /\ \A i \in 1..Len(lines') : lines'[i].field = "event" => lines'[i].text = "message"
    BY <1>1, <1>5, <1>6, <1>7, <1>9
  <2>4. conn' # "open"
    BY <1>1
  <2>5. \A i \in 1..Len(data') : data'[i].field = "data" /\ data'[i].seq \in {0, next' - 1}
    BY <1>1, <1>7
  <2>6. \A i \in 1..Len(lines') :
          /\ lines'[i].field = "blank" => i = Len(lines')
          /\ lines'[i].field = "data" => lines'[i].seq \in {0, next' - 1}
    BY <1>8, <2>1
  <2> QED BY <2>2, <2>3, <2>4, <2>5, <2>6 DEF FrameInv
<1>13. FrontierInv'
  <2>1. Frontier' = Frontier
    BY DEF Frontier
  <2> QED BY <1>1, <1>6, <2>1 DEF IndInv, FrontierInv
<1>14. BufferInv'
  <2>1. Finished' <=> Finished
    BY <1>1 DEF Finished
  <2> QED BY <1>1, <2>1 DEF IndInv, BufferInv
<1>15. CursorInv'
  BY <1>1 DEF IndInv, CursorInv
<1> QED BY <1>10, <1>11, <1>12, <1>13, <1>14, <1>15 DEF IndInv

(* Every step keeps the invariant.                                         *)
LEMMA NextStep == IndInv /\ [Next]_vars => IndInv'
<1> SUFFICES ASSUME IndInv, [Next]_vars PROVE IndInv'
  OBVIOUS
<1>1. CASE SubscribeChannel
  BY <1>1, SubscribeStep
<1>2. CASE SubscribeRefused \/ CancelContext
  BY <1>2, QuietStep
<1>3. CASE ChannelMessages
  BY <1>3, HistoryStep
<1>4. CASE Goroutine
  <2>1. CASE ScanField
    BY <2>1, ScanFieldStep
  <2>2. CASE FlushIgnored
    BY <2>2, FlushIgnoredStep
  <2>3. CASE FlushMessage
    BY <2>3, FlushMessageStep
  <2>4. CASE SendEvent
    BY <2>4, SendEventStep
  <2>5. CASE FlushMalformed \/ SendCancelled \/ ScanEnd
    BY <2>5, FailSteps
  <2>6. CASE Return
    BY <2>6, QuietStep
  <2> QED BY <1>4, <2>1, <2>2, <2>3, <2>4, <2>5, <2>6 DEF Goroutine
<1>5. CASE Receive
  BY <1>5, ReceiveStep
<1>6. CASE Daemon
  <2>1. UNCHANGED <<events, errs, data, event, cursor, got>>
    BY <1>6 DEF Daemon
  <2>2. CASE Publish
    BY <2>1, <2>2, QuietStep
  <2>3. CASE WritePublication(Frames(next))
    <3>1. /\ next \in Nat \ {0} /\ lines' \in Frames(next) /\ Idle /\ next <= published
          /\ next' = next + 1
          /\ UNCHANGED <<published, conn, faults, cancelled, reading, pc, defers>>
      BY <2>3 DEF WritePublication, IndInv, TypeOK, SSETypeOK
    <3>2. MessageFrame(next, lines')
      BY <3>1, FrameFacts
    <3>3. Write(next)
      BY <2>1, <3>1, <3>2 DEF Write, MessageFrame
    <3> QED BY <3>1, <3>3, WriteStep
  <2>4. CASE WriteNoise(Noise)
    <3>1. /\ lines' \in Noise /\ Idle /\ faults < MaxFaults /\ faults' = faults + 1
          /\ UNCHANGED <<published, next, conn, cancelled, reading, pc, defers>>
      BY <2>4 DEF WriteNoise, Fault
    <3>2. FrameOf(0, lines')
      BY <3>1, NoiseFacts
    <3>3. faults' \in 0..MaxFaults
      BY <3>1, BoundsAssumption DEF IndInv, TypeOK, SSETypeOK
    <3>4. Write(0)
      BY <2>1, <3>1, <3>2, <3>3 DEF Write
    <3> QED BY <3>4, WriteStep
  <2>5. CASE Disconnect
    BY <2>1, <2>5, DisconnectStep
  <2> QED BY <1>6, <2>2, <2>3, <2>4, <2>5 DEF Daemon
<1>7. CASE UNCHANGED vars
  <2>1. /\ UNCHANGED <<published, next, lines, conn, faults, cancelled, reading, pc, defers>>
        /\ UNCHANGED <<events, errs, data, event, cursor, got>>
    BY <1>7 DEF vars, sseVars
  <2>2. cancelled' \in BOOLEAN /\ reading' \in BOOLEAN
    BY <2>1 DEF IndInv, TypeOK, SSETypeOK
  <2>3. TypeOK'
    BY <2>1, <2>2 DEF IndInv, TypeOK, SSETypeOK
  <2>4. RunInv'
    BY <2>1 DEF IndInv, RunInv
  <2>5. FrameInv'
    BY <2>1 DEF IndInv, FrameInv, Complete, Undelivered, HasPiece, Decode
  <2>6. FrontierInv'
    BY <2>1 DEF IndInv, FrontierInv, Frontier, Undelivered, HasPiece
  <2>7. BufferInv'
    BY <2>1 DEF IndInv, BufferInv, Finished
  <2>8. CursorInv'
    BY <2>1 DEF IndInv, CursorInv
  <2> QED BY <2>3, <2>4, <2>5, <2>6, <2>7, <2>8 DEF IndInv
<1> QED BY <1>1, <1>2, <1>3, <1>4, <1>5, <1>6, <1>7 DEF Next

-----------------------------------------------------------------------------
(* The theorems. *)

(* The inductive invariant, and with it TypeOK, holds in every reachable   *)
(* state of SubscribeChannel, ChannelMessages and their consumer.          *)
THEOREM Invariance == Spec => []IndInv
BY InitIndInv, NextStep, PTL DEF Spec

(* A consumer never misses, repeats or reorders a message of the channel,  *)
(* however often the stream breaks, is cancelled or is resumed.            *)
THEOREM GapFree == Spec => []NoGap
<1>1. IndInv => NoGap
  <2> SUFFICES ASSUME IndInv PROVE NoGap
    OBVIOUS
  <2>1. /\ \A i \in 1..Len(got) : got[i] = got[1] + i - 1
        /\ got # <<>> => cursor = got[Len(got)] /\ (~Live => got[1] = 1)
        /\ cursor <= published
    BY DEF IndInv, CursorInv
  <2> QED BY <2>1 DEF NoGap
<1> QED BY <1>1, Invariance, PTL

(* A stream that ended without an error was cancelled or ended cleanly.    *)
THEOREM FailuresReported == Spec => []NoSilentFailure
<1>1. IndInv => NoSilentFailure
  BY DEF IndInv, RunInv, NoSilentFailure
<1> QED BY <1>1, Invariance, PTL

(* Once the events channel is closed the deferred calls that release the   *)
(* body and close errs have run.                                           *)
THEOREM ErrsFirst == Spec => []ErrsReadyWhenEventsClose
<1>1. IndInv => ErrsReadyWhenEventsClose
  <2> SUFFICES ASSUME IndInv, pc # "idle", ~Pending("events")
               PROVE  ~Pending("errs") /\ ~Pending("body")
    BY DEF ErrsReadyWhenEventsClose
  <2>1. defers \in {<<"body", "errs", "events">>, <<"errs", "events">>, <<"events">>, <<>>}
    BY DEF IndInv, RunInv, Defers
  <2>2. CASE defers = <<"body", "errs", "events">>
    BY <2>2 DEF Pending
  <2>3. CASE defers = <<"errs", "events">>
    BY <2>3 DEF Pending
  <2>4. CASE defers = <<"events">>
    BY <2>4 DEF Pending
  <2>5. CASE defers = <<>>
    BY <2>5 DEF Pending
  <2> QED BY <2>1, <2>2, <2>3, <2>4, <2>5
<1> QED BY <1>1, Invariance, PTL

-----------------------------------------------------------------------------
(* Refinement of the channel log. *)

(* Delivering the consecutive publications first..last is a step of the    *)
(* log.                                                                    *)
LEMMA DeliverStep ==
    ASSUME IndInv, NEW first \in 1..published, NEW last \in 1..published, first <= last,
           published' = published,
           got' = got \o [i \in 1..(last - first + 1) |-> first + i - 1],
           cursor' = last,
           cursor >= 0 => first = cursor + 1
    PROVE  Log!Deliver
BY DEF Log!Deliver

(* Every step is a publication, a delivery or invisible in the log.        *)
LEMMA LogStep == IndInv /\ [Next]_vars => [Log!LogNext]_(Log!logVars)
<1> SUFFICES ASSUME IndInv, [Next]_vars PROVE Log!LogNext \/ UNCHANGED <<published, got, cursor>>
  BY DEF Log!logVars
<1>1. CASE Receive
  <2>1. /\ reading /\ events # <<>> /\ got' = Append(got, Head(events)) /\ published' = published
        /\ cursor' = Head(events)
    BY <1>1 DEF Receive, sseVars
  <2>2. events \in Seq(1..MaxPublished) /\ got \in Seq(1..MaxPublished) /\ published \in Nat
    BY DEF IndInv, TypeOK, SSETypeOK
  <2>3. Len(events) >= 1 /\ Len(events) \in Nat /\ Head(events) = events[1]
        /\ events[1] \in 1..MaxPublished
    BY <2>1, <2>2, NonEmpty, Zenon
  <2>4. PICK n \in 1..MaxPublished : n = events[1] /\ cursor' = n
    BY <2>1, <2>3
  <2>5. ~Finished
    BY <2>1 DEF Finished, IndInv, RunInv
  <2>6. n <= published /\ (cursor >= 0 => n = cursor + 1)
    BY <2>1, <2>3, <2>4, <2>5 DEF IndInv, BufferInv
  <2>7. n \in 1..published
    BY <2>2, <2>6, BoundsAssumption
  <2>8. got' = got \o [i \in 1..(n - n + 1) |-> n + i - 1]
    <3>1. got' = got \o <<n>>
      BY <2>1, <2>2, <2>3, <2>4, AppendIsConcat
    <3>2. [i \in 1..(n - n + 1) |-> n + i - 1] = <<n>>
      BY <2>7
    <3> QED BY <3>1, <3>2
  <2>9. n <= n
    BY <2>7
  <2> QED BY <2>1, <2>4, <2>6, <2>7, <2>8, <2>9, DeliverStep DEF Log!LogNext
<1>2. CASE ChannelMessages
  <2>1. cursor >= 0 /\ published' = published
    BY <1>2 DEF ChannelMessages, sseVars
  <2>2. PICK nextSince \in cursor..published :
          /\ got' = got \o [i \in 1..(nextSince - cursor) |-> cursor + i]
          /\ cursor' = nextSince
    BY <1>2 DEF ChannelMessages
  <2>3. /\ cursor \in Nat /\ published \in Nat /\ nextSince \in Nat
        /\ cursor <= nextSince /\ nextSince <= published
        /\ got \in Seq(1..MaxPublished)
    BY <2>1 DEF IndInv, TypeOK, SSETypeOK
  <2>4. CASE nextSince = cursor
    <3>1. [i \in 1..(nextSince - cursor) |-> cursor + i] = <<>>
      BY <2>3, <2>4
    <3>2. got' = got
      BY <2>2, <2>3, <3>1, ConcatEmptySeq
    <3> QED BY <2>1, <2>2, <2>4, <3>2
  <2>5. CASE nextSince # cursor
    <3>1. PICK first \in 1..published : first = cursor + 1
      BY <2>3, <2>5
    <3>2. nextSince \in 1..published /\ first <= nextSince
      BY <2>3, <2>5, <3>1
    <3>3. [i \in 1..(nextSince - cursor) |-> cursor + i]
            = [i \in 1..(nextSince - first + 1) |-> first + i - 1]
      BY <2>3, <3>1
    <3>4. got' = got \o [i \in 1..(nextSince - first + 1) |-> first + i - 1]
      BY <2>2, <3>3
    <3> QED BY <2>1, <2>2, <3>1, <3>2, <3>4, DeliverStep DEF Log!LogNext
  <2> QED BY <2>4, <2>5
<1>3. CASE Daemon
  BY <1>3 DEF Daemon, Publish, WritePublication, WriteNoise, Disconnect, Log!LogNext, Log!Publish
<1>4. CASE SubscribeChannel \/ SubscribeRefused \/ CancelContext
  BY <1>4 DEF SubscribeChannel, SubscribeRefused, CancelContext, Connected, Refused, Cancel
<1>5. CASE Goroutine
  <2>1. CASE ScanField \/ FlushIgnored \/ FlushMalformed \/ FlushMessage
    BY <2>1 DEF ScanField, FlushIgnored, FlushMalformed, FlushMessage, Scanning
  <2>2. CASE SendEvent \/ SendCancelled \/ ScanEnd \/ Return
    BY <2>2 DEF SendEvent, SendCancelled, ScanEnd, Return, Deferred
  <2> QED BY <1>5, <2>1, <2>2 DEF Goroutine
<1>6. CASE UNCHANGED vars
  BY <1>6 DEF vars, sseVars
<1> QED BY <1>1, <1>2, <1>3, <1>4, <1>5, <1>6 DEF Next

(* Subscriptions and history pages together behave as one ordered log that *)
(* is read forward, whatever happens to the connections underneath.        *)
THEOREM Refinement == Spec => LogSafe
<1>1. Init => Log!LogInit
  BY DEF Init, SSEInit, Log!LogInit
<1>2. IndInv /\ [Next]_vars => [Log!LogNext]_(Log!logVars)
  BY LogStep
<1> QED BY <1>1, <1>2, Invariance, PTL DEF Spec, LogSafe, Log!LogSafe

-----------------------------------------------------------------------------
(* Chat streams: AIChatStream reads its events with the same machinery. *)

(* AIChatStream's goroutine has the same variables: a buffered channel, an *)
(* error channel, the buffered data lines and what the caller received.    *)
Chat == INSTANCE AIChatStream

(* Where the goroutine is: what it has not done yet, what it leaves behind *)
(* for the caller, and that only a clean end or a cancellation ends it     *)
(* without an error.                                                       *)
ChatRunInv ==
    /\ pc = "idle" => next = 1 /\ ~cancelled /\ lines = <<>> /\ data = <<>> /\ Chat!Sent = <<>>
    /\ pc \in {"idle", "scan", "send", "final", "sendFinal"} => errs = <<>>
    /\ pc \in {"scan", "send", "final", "sendFinal"} => defers = <<"body", "errs", "events">>
    /\ pc = "return" => defers \in {<<"body", "errs", "events">>, <<"errs", "events">>, <<"events">>}
    /\ pc \in {"final", "sendFinal"} /\ ~cancelled => conn = "eof"
    /\ pc \in {"return", "done"} /\ ~cancelled /\ errs = <<>> => conn = "eof"

(* The lines on their way are the rest of one frame, whose blank line is   *)
(* its last; between frames a stream that is not cancelled buffers none.   *)
ChatFrameInv ==
    /\ pc = "send" => lines = <<>>
    /\ pc \in {"send", "sendFinal"} => data # <<>> /\ Chat!Decode(data) # 0
    /\ pc = "scan" =>
         /\ \A i \in 1..Len(lines) : lines[i].field = "blank" => i = Len(lines)
         /\ conn = "open" /\ lines # <<>> => lines[Len(lines)].field = "blank"
    /\ pc = "scan" /\ conn = "open" /\ lines = <<>> /\ ~cancelled => data = <<>>
    /\ \A i \in 1..Len(data) : data[i].field = "data"

(* The pieces of events that are buffered or on their way come after       *)
(* everything that was sent, also when a cancellation left some behind.    *)
ChatOrderInv ==
    /\ \A i, j \in 1..Len(Chat!Sent) : i < j => Chat!Sent[i] < Chat!Sent[j]
    /\ \A i \in 1..Len(Chat!Sent) : Chat!Sent[i] < next
    /\ \A i \in 1..Len(data) : data[i].seq # 0 =>
          data[i].seq < next /\ \A j \in 1..Len(Chat!Sent) : Chat!Sent[j] < data[i].seq
    /\ pc = "scan" => \A i \in 1..Len(lines) : lines[i].field = "data" /\ lines[i].seq # 0 =>
          lines[i].seq = next - 1 /\ \A j \in 1..Len(Chat!Sent) : Chat!Sent[j] < lines[i].seq

(* Without a cancellation everything before the event in flight was sent,  *)
(* and while the connection is open a piece of that one is still there.    *)
ChatFrontierInv ==
    ~cancelled =>
      /\ \A i \in 1..Len(Chat!Sent) : Chat!Sent[i] = i
      /\ Len(Chat!Sent) \in {next - 1, next - 2}
      /\ \A i \in 1..Len(data) : data[i].seq # 0 => data[i].seq = next - 1 /\ Len(Chat!Sent) = next - 2
      /\ pc = "scan" /\ HasPiece(lines) => Len(Chat!Sent) = next - 2
      /\ pc = "scan" /\ conn = "open" /\ ~HasPiece(lines) /\ ~HasPiece(data) => Len(Chat!Sent) = next - 1

ChatIndInv ==
    /\ Chat!TypeOK
    /\ next - 1 <= published
    /\ ChatRunInv
    /\ ChatFrameInv
    /\ ChatOrderInv
    /\ ChatFrontierInv

(* The lines of both streams are the same.                                 *)
LEMMA SameLines ==
    /\ Chat!Line = Line
    /\ \A ls : Chat!Remainders(ls) = Remainders(ls)
  <1>1. Chat!Line = Line
    BY DEF Chat!Line, Line, Chat!Texts, Texts
  <1>2. ASSUME NEW ls
        PROVE  Chat!Remainders(ls) = Remainders(ls)
    BY Zenon DEF Chat!Remainders, Remainders, Chat!Cuts, Cuts, Chat!Id, Id
  <1> QED BY <1>1, <1>2

(* The types of what a chat stream holds.                                  *)
LEMMA ChatTypes ==
    ASSUME Chat!TypeOK
    PROVE  /\ published \in 0..MaxPublished /\ next \in 1..(MaxPublished + 1)
           /\ MaxPublished \in Nat /\ next \in Nat
           /\ lines \in Seq(Line) /\ data \in Seq(Line)
           /\ events \in Seq(1..MaxPublished) /\ got \in Seq(1..MaxPublished)
           /\ Chat!Sent \in Seq(1..MaxPublished) /\ Len(Chat!Sent) \in Nat
  <1>1. lines \in Seq(Line) /\ data \in Seq(Line)
    BY SameLines DEF Chat!TypeOK, Chat!SSETypeOK
  <1>2. events \in Seq(1..MaxPublished) /\ got \in Seq(1..MaxPublished)
    BY DEF Chat!TypeOK
  <1>3. Chat!Sent \in Seq(1..MaxPublished) /\ Len(Chat!Sent) \in Nat
    BY <1>2 DEF Chat!Sent
  <1> QED BY <1>1, <1>2, <1>3, BoundsAssumption DEF Chat!TypeOK, Chat!SSETypeOK

(* Receiving moves an event from the channel to the caller.                *)
LEMMA ChatReceived ==
    ASSUME Chat!TypeOK, events # <<>>, events' = Tail(events), got' = Append(got, Head(events))
    PROVE  /\ got' \in Seq(1..MaxPublished) /\ events' \in Seq(1..MaxPublished)
           /\ Len(events') = Len(events) - 1 /\ Chat!Sent' = Chat!Sent
  <1>1. got \in Seq(1..MaxPublished) /\ events \in Seq(1..MaxPublished)
    BY ChatTypes
  <1>2. /\ Len(events) \in Nat /\ Len(events) >= 1 /\ Head(events) = events[1] /\ Head(events) \in 1..MaxPublished
        /\ Tail(events) \in Seq(1..MaxPublished) /\ Len(Tail(events)) = Len(events) - 1
        /\ \A i \in 1..(Len(events) - 1) : Tail(events)[i] = events[i + 1]
    BY <1>1, NonEmpty
  <1>3. got' \in Seq(1..MaxPublished) /\ events' \in Seq(1..MaxPublished)
    BY <1>1, <1>2
  <1>4. got' \o events' = got \o events
    BY <1>1, <1>2
  <1> QED BY <1>2, <1>3, <1>4 DEF Chat!Sent

(* Sending puts one behind it.                                             *)
LEMMA ChatSends ==
    ASSUME Chat!TypeOK, NEW n \in 1..MaxPublished, events' = Append(events, n), got' = got
    PROVE  /\ events' \in Seq(1..MaxPublished) /\ Len(events') = Len(events) + 1
           /\ Len(Chat!Sent') = Len(Chat!Sent) + 1 /\ Chat!Sent'[Len(Chat!Sent) + 1] = n
           /\ \A i \in 1..Len(Chat!Sent) : Chat!Sent'[i] = Chat!Sent[i]
  <1>1. got \in Seq(1..MaxPublished) /\ events \in Seq(1..MaxPublished)
    BY ChatTypes
  <1>2. got \o Append(events, n) = Append(got \o events, n) /\ got \o events \in Seq(1..MaxPublished)
    BY <1>1
  <1>3. PICK s : s = got \o events
    OBVIOUS
  <1>4. s \in Seq(1..MaxPublished) /\ Chat!Sent = s /\ Chat!Sent' = Append(s, n)
    BY <1>2, <1>3 DEF Chat!Sent
  <1> QED BY <1>1, <1>4

-----------------------------------------------------------------------------
(* Steps of a chat stream. *)

(* No line is read or written and nothing is sent.                         *)
ChatStill ==
    /\ UNCHANGED <<next, lines, conn, data>>
    /\ Chat!Sent' = Chat!Sent
    /\ ~cancelled' => ~cancelled
    /\ pc' = "scan" => pc = "scan" \/ (pc = "send" /\ cancelled')
    /\ pc' = "send" => pc = "send"
    /\ pc' = "sendFinal" => data # <<>> /\ Chat!Decode(data) # 0

(* What is buffered and on its way stays after what was sent.              *)
LEMMA ChatStillStep ==
    ASSUME ChatIndInv, ChatStill
    PROVE  ChatFrameInv' /\ ChatOrderInv' /\ ChatFrontierInv'
  <1> USE DEF ChatIndInv, ChatStill
  <1>1. Chat!Decode(data)' = Chat!Decode(data) /\ (HasPiece(lines)' <=> HasPiece(lines)) /\ (HasPiece(data)' <=> HasPiece(data))
    BY DEF Chat!Decode, HasPiece
  <1>2. pc = "send" => lines = <<>> /\ ~HasPiece(lines) /\ Len(lines) = 0
    BY DEF ChatFrameInv, HasPiece
  <1>3. ChatFrameInv'
    BY <1>1, <1>2 DEF ChatFrameInv
  <1>4. ChatOrderInv'
    BY <1>2 DEF ChatOrderInv
  <1>5. ChatFrontierInv'
    BY <1>1, <1>2 DEF ChatFrontierInv
  <1> QED BY <1>3, <1>4, <1>5

(* The daemon's log grows, the request is refused, the context is          *)
(* cancelled, a deferred call runs, or the caller receives an event.       *)
LEMMA ChatAsideStep ==
    ASSUME ChatIndInv,
           \/ Chat!AIChatRefused
           \/ Chat!CancelContext
           \/ Chat!Return
           \/ Chat!Receive
           \/ Chat!Publish /\ UNCHANGED Chat!streamVars
    PROVE  ChatIndInv'
  <1> USE DEF ChatIndInv
  <1>1. UNCHANGED <<next, lines, conn, data, errs>>
    BY DEF Chat!AIChatRefused, Chat!Refused, Chat!CancelContext, Chat!Cancel, Chat!Return, Chat!Deferred,
           Chat!Receive, Chat!Publish, Chat!streamVars, Chat!sseVars
  <1>2. /\ Chat!Sent' = Chat!Sent
        /\ events' \in Seq(1..MaxPublished) /\ got' \in Seq(1..MaxPublished) /\ Len(events') <= Cap
    <2>1. CASE Chat!Receive
      <3>1. events \in Seq(1..MaxPublished) /\ Len(events) <= Cap
        BY DEF Chat!TypeOK
      <3>2. events # <<>> /\ events' = Tail(events) /\ got' = Append(got, Head(events))
        BY <2>1 DEF Chat!Receive
      <3>3. /\ got' \in Seq(1..MaxPublished) /\ events' \in Seq(1..MaxPublished)
            /\ Len(events') = Len(events) - 1 /\ Chat!Sent' = Chat!Sent
        BY <3>2, ChatReceived
      <3>4. Len(events) \in Nat /\ Cap \in Nat
        BY <3>1, BufferAssumption
      <3> QED BY <3>1, <3>3, <3>4
    <2>2. CASE ~Chat!Receive
      <3>1. UNCHANGED <<events, got>>
        BY <2>2 DEF Chat!AIChatRefused, Chat!CancelContext, Chat!Return, Chat!streamVars
      <3> QED BY <3>1 DEF Chat!Sent, Chat!TypeOK
    <2> QED BY <2>1, <2>2
  <1>3. published' \in {published, published + 1} /\ published' \in 0..MaxPublished
    BY BoundsAssumption
    DEF Chat!AIChatRefused, Chat!Refused, Chat!CancelContext, Chat!Cancel, Chat!Return, Chat!Deferred,
        Chat!Receive, Chat!Publish, Chat!sseVars, Chat!TypeOK, Chat!SSETypeOK
  <1>4. next - 1 <= published'
    BY <1>3, ChatTypes
  <1>5. ~cancelled' => ~cancelled
    BY DEF Chat!AIChatRefused, Chat!Refused, Chat!CancelContext, Chat!Cancel, Chat!Return, Chat!Deferred,
           Chat!Receive, Chat!Publish, Chat!sseVars
  <1>6. /\ pc' = pc \/ (pc = "return" /\ pc' \in {"return", "done"})
        /\ pc = "idle" => ~cancelled'
    BY DEF Chat!AIChatRefused, Chat!Refused, Chat!CancelContext, Chat!Cancel, Chat!Return, Chat!Deferred,
           Chat!Receive, Chat!Publish, Chat!sseVars, ChatRunInv
  <1>7. /\ defers' \in Seq({"body", "errs", "events"})
        /\ pc' \in {"scan", "send", "final", "sendFinal"} => defers' = <<"body", "errs", "events">>
        /\ pc' = "return" => defers' \in {<<"body", "errs", "events">>, <<"errs", "events">>, <<"events">>}
    <2>1. CASE Chat!Return
      <3>1. /\ pc = "return" /\ defers' = Tail(defers)
            /\ pc' = IF Len(defers) = 1 THEN "done" ELSE "return"
        BY <2>1 DEF Chat!Return, Chat!Deferred
      <3>2. defers \in {<<"body", "errs", "events">>, <<"errs", "events">>, <<"events">>}
        BY <3>1 DEF ChatRunInv
      <3>3. CASE defers = <<"body", "errs", "events">>
        BY <3>1, <3>3
      <3>4. CASE defers = <<"errs", "events">>
        BY <3>1, <3>4
      <3>5. CASE defers = <<"events">>
        BY <3>1, <3>5
      <3> QED BY <3>2, <3>3, <3>4, <3>5
    <2>2. CASE ~Chat!Return
      <3>1. defers' = defers /\ pc' = pc
        BY <2>2 DEF Chat!AIChatRefused, Chat!Refused, Chat!CancelContext, Chat!Cancel, Chat!Receive,
                    Chat!Publish, Chat!sseVars
      <3> QED BY <3>1 DEF ChatRunInv, Chat!TypeOK, Chat!SSETypeOK
    <2> QED BY <2>1, <2>2
  <1>8. Chat!TypeOK'
    <2>1. cancelled' \in BOOLEAN /\ reading' \in BOOLEAN
      BY DEF Chat!AIChatRefused, Chat!Refused, Chat!CancelContext, Chat!Cancel, Chat!Return, Chat!Deferred,
             Chat!Receive, Chat!Publish, Chat!sseVars, Chat!TypeOK, Chat!SSETypeOK
    <2>2. faults' \in 0..MaxFaults
      BY BoundsAssumption
      DEF Chat!AIChatRefused, Chat!Refused, Chat!CancelContext, Chat!Cancel, Chat!Return, Chat!Deferred,
          Chat!Receive, Chat!Publish, Chat!sseVars, Chat!Fault, Chat!TypeOK, Chat!SSETypeOK
    <2>3. Chat!SSETypeOK'
      BY <1>1, <1>3, <1>6, <1>7, <2>1, <2>2 DEF Chat!TypeOK, Chat!SSETypeOK, Chat!Line, Chat!Texts
    <2> QED BY <1>1, <1>2, <2>3 DEF Chat!TypeOK, Chat!Line, Chat!Texts
  <1>9. ChatRunInv'
    BY <1>1, <1>2, <1>5, <1>6, <1>7 DEF ChatRunInv
  <1>10. ChatStill
    BY <1>1, <1>2, <1>5, <1>6 DEF ChatStill, ChatFrameInv
  <1> QED BY <1>1, <1>4, <1>8, <1>9, <1>10, ChatStillStep

(* Nothing was sent before the stream is opened, and it starts at the      *)
(* first event.                                                            *)
LEMMA ChatOpens ==
    ASSUME ChatIndInv, Chat!AIChatStream
    PROVE  ChatIndInv'
  <1> USE DEF ChatIndInv
  <1>1. /\ pc = "idle" /\ pc' = "scan" /\ next' = 1 /\ lines' = <<>> /\ conn' = "open"
        /\ cancelled' = FALSE /\ reading' = TRUE /\ defers' = <<"body", "errs", "events">>
        /\ UNCHANGED <<published, faults, data, events, errs, got>>
    BY DEF Chat!AIChatStream, Chat!Connected, Chat!streamVars
  <1>2. next = 1 /\ data = <<>> /\ Chat!Sent = <<>> /\ errs = <<>>
    BY <1>1 DEF ChatRunInv
  <1>3. Chat!Sent' = <<>> /\ Len(Chat!Sent') = 0 /\ data' = <<>> /\ Len(data') = 0 /\ Len(lines') = 0
    BY <1>1, <1>2 DEF Chat!Sent
  <1>4. ~HasPiece(lines') /\ ~HasPiece(data')
    BY <1>3 DEF HasPiece
  <1>5. Chat!TypeOK'
    <2>1. cancelled' \in BOOLEAN /\ reading' \in BOOLEAN
      BY <1>1
    <2>2. defers' \in Seq({"body", "errs", "events"})
      BY <1>1
    <2>3. Chat!SSETypeOK'
      BY <1>1, <2>1, <2>2, BoundsAssumption DEF Chat!TypeOK, Chat!SSETypeOK, Chat!Line, Chat!Texts
    <2> QED BY <1>1, <2>3 DEF Chat!TypeOK, Chat!Line, Chat!Texts
  <1>6. next' - 1 <= published'
    BY <1>1, <1>2
  <1>7. ChatRunInv'
    BY <1>1, <1>2 DEF ChatRunInv
  <1>8. ChatFrameInv'
    BY <1>1, <1>3 DEF ChatFrameInv
  <1>9. ChatOrderInv'
    BY <1>1, <1>3 DEF ChatOrderInv
  <1>10. ChatFrontierInv'
    BY <1>1, <1>3, <1>4 DEF ChatFrontierInv
  <1> QED BY <1>5, <1>6, <1>7, <1>8, <1>9, <1>10

(* The goroutine goes on without reading or sending: flush finds nothing   *)
(* to send or fails after the loop, is cancelled, or the scanner stops.    *)
LEMMA ChatGoesOn ==
    ASSUME ChatIndInv, Chat!FinalFlush \/ Chat!SendCancelled \/ Chat!ScanEnd
    PROVE  ChatIndInv'
  <1> USE DEF ChatIndInv
  <1>1. UNCHANGED <<published, next, lines, conn, faults, cancelled, reading, defers, data, events, got>>
    BY DEF Chat!FinalFlush, Chat!SendCancelled, Chat!ScanEnd, Chat!streamVars
  <1>2. pc \in {"scan", "send", "final", "sendFinal"} /\ errs = <<>> /\ defers = <<"body", "errs", "events">>
    BY DEF Chat!FinalFlush, Chat!SendCancelled, Chat!ScanEnd, Chat!ScanEOF, Chat!ScanFails, ChatRunInv
  <1>3. errs' = <<>> \/ (errs' = Append(errs, "decode") /\ pc' = "return") \/ (errs' = Append(errs, "read") /\ pc' = "return")
    BY <1>2 DEF Chat!FinalFlush, Chat!SendCancelled, Chat!ScanEnd, Chat!Report, Chat!streamVars
  <1>4. errs' \in Seq({"decode", "read"}) /\ Len(errs') <= 1 /\ (errs' = <<>> \/ pc' = "return")
    <2>1. \A e : Append(<<>>, e) = <<e>>
      OBVIOUS
    <2>2. errs' \in {<<>>, <<"decode">>, <<"read">>} /\ (errs' = <<>> \/ pc' = "return")
      BY <1>2, <1>3, <2>1
    <2>3. CASE errs' = <<>>
      BY <2>3
    <2>4. CASE errs' = <<"decode">>
      BY <2>2, <2>4
    <2>5. CASE errs' = <<"read">>
      BY <2>2, <2>5
    <2> QED BY <2>2, <2>3, <2>4, <2>5
  <1>5. /\ pc' \in {"scan", "final", "sendFinal", "return"}
        /\ pc' = "scan" => pc = "send" /\ cancelled
        /\ pc' = "sendFinal" => data # <<>> /\ Chat!Decode(data) # 0
        /\ pc' \in {"final", "sendFinal"} /\ ~cancelled => conn = "eof"
        /\ pc' = "return" /\ ~cancelled /\ errs' = <<>> => conn = "eof"
    <2>1. CASE Chat!FinalFlush
      <3>1. pc = "final"
        BY <2>1 DEF Chat!FinalFlush
      <3>2. ~cancelled => conn = "eof"
        BY <3>1 DEF ChatRunInv
      <3> QED BY <2>1, <3>2 DEF Chat!FinalFlush
    <2>2. CASE Chat!SendCancelled
      BY <2>2 DEF Chat!SendCancelled, Chat!Flushed
    <2>3. CASE Chat!ScanEnd
      <3>1. CASE Chat!ScanEOF /\ pc' = "final"
        BY <3>1 DEF Chat!ScanEOF
      <3>2. CASE cancelled /\ pc' = "final"
        BY <3>2
      <3>3. CASE pc' = "return" /\ Chat!Report("read")
        <4>1. errs' # <<>>
          BY <1>2, <3>3 DEF Chat!Report
        <4> QED BY <3>3, <4>1
      <3> QED BY <2>3, <3>1, <3>2, <3>3 DEF Chat!ScanEnd
    <2> QED BY <2>1, <2>2, <2>3
  <1>6. Chat!Sent' = Chat!Sent
    BY <1>1 DEF Chat!Sent
  <1>7. Chat!TypeOK'
    <2>1. Chat!SSETypeOK'
      BY <1>1, <1>5 DEF Chat!TypeOK, Chat!SSETypeOK, Chat!Line, Chat!Texts
    <2> QED BY <1>1, <1>4, <2>1 DEF Chat!TypeOK, Chat!Line, Chat!Texts
  <1>8. ChatRunInv'
    BY <1>1, <1>2, <1>4, <1>5 DEF ChatRunInv
  <1>9. ChatStill
    BY <1>1, <1>5, <1>6 DEF ChatStill
  <1> QED BY <1>1, <1>7, <1>8, <1>9, ChatStillStep

(* The scanner's next line leaves the tail of what was on its way.         *)
LEMMA ChatScans ==
    ASSUME ChatIndInv, NEW f, Chat!Scanning(f)
    PROVE  /\ pc = "scan" /\ lines # <<>> /\ Head(lines) \in Line /\ Head(lines).field = f
           /\ lines' = Tail(lines) /\ lines' \in Seq(Line) /\ Len(lines') = Len(lines) - 1 /\ Len(lines) \in Nat
           /\ Head(lines) = lines[1]
           /\ \A i \in 1..Len(lines') : lines'[i] = lines[i + 1] /\ i + 1 \in 1..Len(lines)
           /\ UNCHANGED <<published, next, conn, faults, cancelled, reading, defers>>
           /\ f = "blank" => lines' = <<>>
           /\ f # "blank" /\ conn = "open" => lines' # <<>> /\ lines'[Len(lines')].field = "blank"
           /\ HasPiece(lines) <=> HasPiece(lines') \/ (f = "data" /\ Head(lines).seq # 0)
  <1> USE DEF ChatIndInv
  <1>1. /\ pc = "scan" /\ lines # <<>> /\ Head(lines).field = f /\ lines' = Tail(lines)
        /\ UNCHANGED <<published, next, conn, faults, cancelled, reading, defers>>
    BY DEF Chat!Scanning
  <1>2. lines \in Seq(Line)
    BY ChatTypes
  <1>3. /\ Len(lines) \in Nat /\ Len(lines) >= 1 /\ Head(lines) = lines[1] /\ Head(lines) \in Line
        /\ Tail(lines) \in Seq(Line) /\ Len(Tail(lines)) = Len(lines) - 1
        /\ \A i \in 1..(Len(lines) - 1) : Tail(lines)[i] = lines[i + 1]
    BY <1>1, <1>2, NonEmpty
  <1>4. f = "blank" => lines' = <<>>
    <2> SUFFICES ASSUME f = "blank" PROVE lines' = <<>>
      OBVIOUS
    <2>1. lines[1].field = "blank"
      BY <1>1, <1>3
    <2>2. \A i \in 1..Len(lines) : lines[i].field = "blank" => i = Len(lines)
      BY <1>1 DEF ChatFrameInv
    <2>3. 1 \in 1..Len(lines)
      BY <1>3
    <2>4. Len(lines) = 1
      BY <2>1, <2>2, <2>3, Zenon
    <2>5. Tail(lines) \in Seq(Line) /\ Len(Tail(lines)) = 0
      BY <1>3, <2>4
    <2> QED BY <1>1, <2>5, EmptySeq
  <1>5. f # "blank" /\ conn = "open" => lines' # <<>> /\ lines'[Len(lines')].field = "blank"
    <2> SUFFICES ASSUME f # "blank", conn = "open" PROVE lines' # <<>> /\ lines'[Len(lines')].field = "blank"
      OBVIOUS
    <2>1. lines[Len(lines)].field = "blank"
      BY <1>1 DEF ChatFrameInv
    <2>2. Len(lines) > 1
      BY <1>1, <1>3, <2>1
    <2>3. Len(lines') = Len(lines) - 1 /\ Len(lines') \in 1..(Len(lines) - 1)
      BY <1>1, <1>3, <2>2
    <2>4. lines'[Len(lines')] = lines[Len(lines)]
      BY <1>1, <1>3, <2>3
    <2>5. lines' # <<>>
      BY <2>3
    <2> QED BY <2>1, <2>4, <2>5
  <1>6. HasPiece(lines) <=> HasPiece(Tail(lines)) \/ (Head(lines).field = "data" /\ Head(lines).seq # 0)
    <2>1. Head(lines) \in Line
      BY <1>3
    <2> QED BY <1>1, <1>2, <2>1, PieceFacts
  <1> QED BY <1>1, <1>3, <1>4, <1>5, <1>6

(* A line that does not end its frame is buffered or skipped.              *)
LEMMA ChatScanFieldStep ==
    ASSUME ChatIndInv, Chat!ScanField
    PROVE  ChatIndInv'
  <1>1. PICK f \in {"data", "event", "comment"} :
          /\ Chat!Scanning(f)
          /\ data' = IF f = "data" THEN Append(data, Head(lines)) ELSE data
    BY DEF Chat!ScanField
  <1>2. /\ pc = "scan" /\ lines # <<>> /\ Head(lines) \in Line /\ Head(lines).field = f
        /\ lines' = Tail(lines) /\ lines' \in Seq(Line) /\ Len(lines') = Len(lines) - 1 /\ Len(lines) \in Nat
        /\ Head(lines) = lines[1]
        /\ \A i \in 1..Len(lines') : lines'[i] = lines[i + 1] /\ i + 1 \in 1..Len(lines)
        /\ UNCHANGED <<published, next, conn, faults, cancelled, reading, defers>>
        /\ f # "blank" /\ conn = "open" => lines' # <<>> /\ lines'[Len(lines')].field = "blank"
        /\ HasPiece(lines) <=> HasPiece(lines') \/ (f = "data" /\ Head(lines).seq # 0)
    BY <1>1, ChatScans
  <1>3. UNCHANGED <<pc, events, errs, got>>
    BY DEF Chat!ScanField
  <1>4. PICK s : s = Chat!Sent
    OBVIOUS
  <1>5. Chat!Sent' = s /\ Len(s) \in Nat
    BY <1>3, <1>4, ChatTypes DEF Chat!Sent, ChatIndInv
  <1>6. PICK h \in Line : h = Head(lines)
    BY <1>2
  <1>7. lines \in Seq(Line) /\ data \in Seq(Line) /\ next \in Nat /\ Len(data) \in Nat
    BY ChatTypes DEF ChatIndInv
  <1>8. /\ data' \in Seq(Line)
        /\ \A i \in 1..Len(data') : (data'[i] = h /\ f = "data") \/ (i \in 1..Len(data) /\ data'[i] = data[i])
    <2>1. CASE f = "data"
      <3>1. data' = Append(data, h)
        BY <1>1, <1>6, <2>1
      <3>2. /\ data' \in Seq(Line) /\ Len(data') = Len(data) + 1 /\ data'[Len(data) + 1] = h
            /\ \A i \in 1..Len(data) : data'[i] = data[i]
        BY <1>7, <3>1, Appending
      <3> QED BY <1>7, <2>1, <3>2
    <2>2. CASE f # "data"
      BY <1>1, <1>7, <2>2
    <2> QED BY <2>1, <2>2
  <1>9. HasPiece(data') <=> HasPiece(data) \/ (f = "data" /\ h.seq # 0)
    <2>1. CASE f = "data"
      <3>1. HasPiece(Append(data, h)) <=> HasPiece(data) \/ (h.field = "data" /\ h.seq # 0)
        BY <1>7, PieceFacts
      <3> QED BY <1>1, <1>2, <1>6, <2>1, <3>1
    <2>2. CASE f # "data"
      BY <1>1, <2>2
    <2> QED BY <2>1, <2>2
  <1>10. 1 \in 1..Len(lines) /\ h = lines[1] /\ h.field = f
    BY <1>2, <1>6, <1>7, NonEmpty
  <1>11. Chat!TypeOK'
    <2>1. Chat!SSETypeOK'
      BY <1>2, <1>3, SameLines DEF ChatIndInv, Chat!TypeOK, Chat!SSETypeOK
    <2> QED BY <1>3, <1>8, <2>1, SameLines DEF ChatIndInv, Chat!TypeOK
  <1>12. ChatRunInv'
    BY <1>2, <1>3 DEF ChatIndInv, ChatRunInv
  <1>13. ChatFrameInv'
    <2>1. \A i \in 1..Len(lines) : lines[i].field = "blank" => i = Len(lines)
      BY <1>2 DEF ChatIndInv, ChatFrameInv
    <2>2. ASSUME NEW i \in 1..Len(lines'), lines'[i].field = "blank"
          PROVE  i = Len(lines')
      <3>1. i + 1 \in 1..Len(lines) /\ lines[i + 1].field = "blank"
        BY <1>2, <2>2
      <3>2. i + 1 = Len(lines)
        BY <2>1, <3>1, Zenon
      <3>3. Len(lines') = Len(lines) - 1
        BY <1>2
      <3> QED BY <3>2, <3>3
    <2>3. \A i \in 1..Len(data') : data'[i].field = "data"
      BY <1>8, <1>10 DEF ChatIndInv, ChatFrameInv
    <2> QED BY <1>2, <1>3, <2>2, <2>3 DEF ChatFrameInv
  <1>14. \A i \in 1..Len(lines) : lines[i].field = "data" /\ lines[i].seq # 0 =>
           lines[i].seq = next - 1 /\ \A j \in 1..Len(s) : s[j] < lines[i].seq
    BY <1>2, <1>4 DEF ChatIndInv, ChatOrderInv
  <1>15. ChatOrderInv'
    <2>1. /\ \A i, j \in 1..Len(s) : i < j => s[i] < s[j]
          /\ \A i \in 1..Len(s) : s[i] < next
      BY <1>4 DEF ChatIndInv, ChatOrderInv
    <2>2. \A i \in 1..Len(data) : data[i].seq # 0 => data[i].seq < next /\ \A j \in 1..Len(s) : s[j] < data[i].seq
      BY <1>4 DEF ChatIndInv, ChatOrderInv
    <2>3. f = "data" /\ h.seq # 0 => h.seq < next /\ \A j \in 1..Len(s) : s[j] < h.seq
      BY <1>7, <1>10, <1>14
    <2>4. \A i \in 1..Len(data') : data'[i].seq # 0 => data'[i].seq < next /\ \A j \in 1..Len(s) : s[j] < data'[i].seq
      BY <1>8, <2>2, <2>3
    <2>5. \A i \in 1..Len(lines') : lines'[i].field = "data" /\ lines'[i].seq # 0 =>
            lines'[i].seq = next - 1 /\ \A j \in 1..Len(s) : s[j] < lines'[i].seq
      BY <1>2, <1>14
    <2> QED BY <1>2, <1>5, <2>1, <2>4, <2>5 DEF ChatOrderInv
  <1>16. ChatFrontierInv'
    <2> SUFFICES ASSUME ~cancelled PROVE ChatFrontierInv'
      BY <1>2 DEF ChatFrontierInv
    <2>1. /\ \A i \in 1..Len(s) : s[i] = i
          /\ Len(s) \in {next - 1, next - 2}
          /\ \A i \in 1..Len(data) : data[i].seq # 0 => data[i].seq = next - 1 /\ Len(s) = next - 2
          /\ HasPiece(lines) => Len(s) = next - 2
          /\ conn = "open" /\ ~HasPiece(lines) /\ ~HasPiece(data) => Len(s) = next - 1
      BY <1>2, <1>4 DEF ChatIndInv, ChatFrontierInv
    <2>2. f = "data" /\ h.seq # 0 => h.seq = next - 1 /\ Len(s) = next - 2
      BY <1>2, <1>6, <1>10, <1>14, <2>1
    <2>3. \A i \in 1..Len(data') : data'[i].seq # 0 => data'[i].seq = next - 1 /\ Len(s) = next - 2
      BY <1>8, <2>1, <2>2
    <2>4. HasPiece(lines') => Len(s) = next - 2
      BY <1>2, <2>1
    <2>5. conn = "open" /\ ~HasPiece(lines') /\ ~HasPiece(data') => Len(s) = next - 1
      BY <1>2, <1>6, <1>9, <2>1
    <2> QED BY <1>2, <1>5, <2>1, <2>3, <2>4, <2>5 DEF ChatFrontierInv
  <1> QED BY <1>2, <1>11, <1>12, <1>13, <1>15, <1>16 DEF ChatIndInv

(* The blank line ends the frame: nothing was buffered, it does not        *)
(* decode, or its event is sent next.                                      *)
LEMMA ChatFlushStep ==
    ASSUME ChatIndInv, Chat!Flush
    PROVE  ChatIndInv'
  <1>1. /\ pc = "scan" /\ lines' = <<>> /\ UNCHANGED <<published, next, conn, faults, cancelled, reading, defers>>
        /\ HasPiece(lines) <=> HasPiece(lines')
    <2>1. Chat!Scanning("blank")
      BY DEF Chat!Flush
    <2> QED BY <2>1, ChatScans
  <1>2. UNCHANGED <<data, events, got>>
    BY DEF Chat!Flush
  <1>3. \/ pc' = "scan" /\ data = <<>> /\ errs' = errs
        \/ pc' = "return" /\ errs' = Append(errs, "decode")
        \/ pc' = "send" /\ data # <<>> /\ Chat!Decode(data) # 0 /\ errs' = errs
    BY <1>1 DEF Chat!Flush, Chat!Report
  <1>4. errs = <<>> /\ defers = <<"body", "errs", "events">>
    BY <1>1 DEF ChatIndInv, ChatRunInv
  <1>5. Append(<<>>, "decode") = <<"decode">> /\ <<"decode">> \in Seq({"decode", "read"}) /\ Len(<<"decode">>) = 1 /\ <<"decode">> # <<>>
    OBVIOUS
  <1>6. Chat!Sent' = Chat!Sent /\ Chat!Decode(data)' = Chat!Decode(data)
    BY <1>2 DEF Chat!Sent, Chat!Decode
  <1>7. Chat!TypeOK'
    <2>1. lines' \in Seq(Line)
      BY <1>1
    <2>2. Chat!SSETypeOK'
      BY <1>1, <1>3, <2>1, SameLines DEF ChatIndInv, Chat!TypeOK, Chat!SSETypeOK
    <2>3. errs' \in Seq({"decode", "read"}) /\ Len(errs') <= 1
      <3>1. CASE errs' = errs
        BY <3>1 DEF ChatIndInv, Chat!TypeOK
      <3>2. CASE errs' = <<"decode">>
        BY <3>2
      <3> QED BY <1>3, <1>4, <1>5, <3>1, <3>2
    <2> QED BY <1>2, <2>2, <2>3 DEF ChatIndInv, Chat!TypeOK, Chat!Line, Chat!Texts
  <1>8. ChatRunInv'
    BY <1>1, <1>3, <1>4, <1>5 DEF ChatRunInv
  <1>9. Len(lines') = 0 /\ ~HasPiece(lines') /\ (data = <<>> => Len(data) = 0 /\ ~HasPiece(data))
    BY <1>1 DEF HasPiece
  <1>10. ChatFrameInv'
    BY <1>1, <1>2, <1>3, <1>6, <1>9 DEF ChatIndInv, ChatFrameInv
  <1>11. ChatOrderInv'
    BY <1>1, <1>2, <1>6, <1>9 DEF ChatIndInv, ChatOrderInv
  <1>12. ChatFrontierInv'
    BY <1>1, <1>2, <1>3, <1>6, <1>9 DEF ChatIndInv, ChatFrontierInv
  <1> QED BY <1>1, <1>7, <1>8, <1>10, <1>11, <1>12 DEF ChatIndInv

(* An index of a sequence grown by one is the new one or an old one.       *)
LEMMA LastOrBefore ==
    ASSUME NEW m \in Nat, NEW k, k = m + 1
    PROVE  \A i \in 1..k : i = m + 1 \/ i \in 1..m
OBVIOUS

(* f is the line a, the lines s and the line d.                            *)
Framed(f, a, s, d) ==
    /\ f \in Seq(Line) /\ Len(f) = Len(s) + 2 /\ f # <<>>
    /\ f[1] = a /\ f[Len(s) + 2] = d
    /\ \A i \in 1..Len(s) : f[i + 1] = s[i]

(* A frame is its event line, its data lines and its blank line.           *)
LEMMA Frame ==
    ASSUME NEW a \in Line, NEW s \in Seq(Line), NEW d \in Line
    PROVE  Framed(<<a>> \o s \o <<d>>, a, s, d)
  <1>0. PICK f : f = <<a>> \o s \o <<d>>
    OBVIOUS
  <1>1. PICK x : x = <<a>>
    OBVIOUS
  <1>2. PICK y : y = <<d>>
    OBVIOUS
  <1>3. x \in Seq(Line) /\ Len(x) = 1 /\ x[1] = a /\ y \in Seq(Line) /\ Len(y) = 1 /\ y[1] = d /\ Len(s) \in Nat
    BY <1>1, <1>2
  <1>4. PICK z : z = x \o s
    OBVIOUS
  <1>5. /\ z \in Seq(Line) /\ Len(z) = 1 + Len(s) /\ z[1] = a
        /\ \A i \in 1..Len(s) : z[i + 1] = s[i]
    <2>1. z \in Seq(Line) /\ Len(z) = Len(x) + Len(s)
          /\ \A i \in 1..(Len(x) + Len(s)) : z[i] = IF i <= Len(x) THEN x[i] ELSE s[i - Len(x)]
      BY <1>3, <1>4, ConcatProperties
    <2>2. \A i \in 1..(1 + Len(s)) : z[i] = IF i <= 1 THEN x[i] ELSE s[i - 1]
      BY <1>3, <2>1
    <2>3. ASSUME NEW i \in 1..Len(s) PROVE z[i + 1] = s[i]
      <3>1. i + 1 \in 1..(1 + Len(s)) /\ ~(i + 1 <= 1) /\ (i + 1) - 1 = i
        BY <1>3
      <3> QED BY <2>2, <3>1
    <2> QED BY <1>3, <2>1, <2>2, <2>3
  <1>6. f = z \o y
    BY <1>0, <1>1, <1>2, <1>4
  <1> QED BY <1>0, <1>3, <1>5, <1>6 DEF Framed

(* The event that is sent next comes after everything that was sent, and   *)
(* right after it unless the stream was cancelled.                         *)
LEMMA ChatSendStep ==
    ASSUME ChatIndInv, Chat!SendEvent
    PROVE  ChatIndInv'
  <1>1. /\ pc \in {"send", "sendFinal"} /\ Len(events) < Cap
        /\ events' = Append(events, Chat!Decode(data)) /\ data' = <<>>
        /\ pc' = IF pc = "send" THEN "scan" ELSE "return"
        /\ UNCHANGED <<published, next, lines, conn, faults, cancelled, reading, defers, errs, got>>
    BY DEF Chat!SendEvent, Chat!Flushed
  <1>2. PICK n : n = Chat!Decode(data)
    OBVIOUS
  <1>3. PICK s : s = Chat!Sent
    OBVIOUS
  <1>4. PICK s1 : s1 = Chat!Sent'
    OBVIOUS
  <1>5. /\ next \in Nat /\ next \in 1..(MaxPublished + 1) /\ MaxPublished \in Nat /\ data \in Seq(Line) /\ Len(data) \in Nat
        /\ s \in Seq(1..MaxPublished) /\ Len(s) \in Nat /\ events \in Seq(1..MaxPublished)
    BY <1>3, ChatTypes DEF ChatIndInv
  <1>6. data # <<>> /\ n # 0
    BY <1>1, <1>2 DEF ChatIndInv, ChatFrameInv
  <1>7. n = data[1].seq /\ 1 \in 1..Len(data) /\ data[1] \in Line
    <2>1. n = data[1].seq
      BY <1>2, <1>6 DEF Chat!Decode
    <2>2. Len(data) >= 1 /\ data[1] \in Line
      BY <1>5, <1>6, NonEmpty
    <2> QED BY <1>5, <2>1, <2>2
  <1>8. n \in Nat /\ n < next /\ \A j \in 1..Len(s) : s[j] < n
    <2>1. n \in Nat
      BY <1>7 DEF Line
    <2>2. \A i \in 1..Len(data) : data[i].seq # 0 => data[i].seq < next /\ \A j \in 1..Len(s) : s[j] < data[i].seq
      BY <1>3 DEF ChatIndInv, ChatOrderInv
    <2> QED BY <1>6, <1>7, <2>1, <2>2
  <1>9. n \in 1..MaxPublished
    BY <1>5, <1>6, <1>8
  <1>10. /\ events' \in Seq(1..MaxPublished) /\ Len(events') = Len(events) + 1
         /\ Len(s1) = Len(s) + 1 /\ s1[Len(s) + 1] = n
         /\ \A i \in 1..Len(s) : s1[i] = s[i]
    <2>1. events' = Append(events, n) /\ got' = got
      BY <1>1, <1>2
    <2> QED BY <1>3, <1>4, <1>9, <2>1, ChatSends DEF ChatIndInv
  <1>11. Len(data') = 0 /\ ~HasPiece(data') /\ (pc = "send" => Len(lines) = 0 /\ ~HasPiece(lines))
    BY <1>1 DEF HasPiece, ChatIndInv, ChatFrameInv
  <1>12. Chat!TypeOK'
    <2>1. Chat!SSETypeOK'
      BY <1>1 DEF ChatIndInv, Chat!TypeOK, Chat!SSETypeOK, Chat!Line, Chat!Texts
    <2>2. Len(events') <= Cap
      BY <1>1, <1>5, <1>10, BufferAssumption
    <2>3. data' \in Seq(Line)
      BY <1>1
    <2> QED BY <1>1, <1>10, <2>1, <2>2, <2>3, SameLines DEF ChatIndInv, Chat!TypeOK
  <1>13. ChatRunInv'
    BY <1>1 DEF ChatIndInv, ChatRunInv
  <1>14. ChatFrameInv'
    BY <1>1, <1>11 DEF ChatIndInv, ChatFrameInv
  <1>15. ChatOrderInv'
    <2>1. /\ \A i, j \in 1..Len(s) : i < j => s[i] < s[j]
          /\ \A i \in 1..Len(s) : s[i] < next
      BY <1>3 DEF ChatIndInv, ChatOrderInv
    <2>2. \A i \in 1..Len(s1) : i = Len(s) + 1 \/ i \in 1..Len(s)
      BY <1>5, <1>10, LastOrBefore
    <2>3. \A i, j \in 1..Len(s1) : i < j => s1[i] < s1[j]
      <3> SUFFICES ASSUME NEW i \in 1..Len(s1), NEW j \in 1..Len(s1), i < j
                   PROVE  s1[i] < s1[j]
        OBVIOUS
      <3>1. i \in 1..Len(s)
        BY <1>5, <1>10
      <3>2. CASE j \in 1..Len(s)
        BY <1>10, <2>1, <3>1, <3>2
      <3>3. CASE j = Len(s) + 1
        BY <1>8, <1>10, <3>1, <3>3
      <3> QED BY <2>2, <3>2, <3>3
    <2>4. \A i \in 1..Len(s1) : s1[i] < next
      BY <1>8, <1>10, <2>1, <2>2
    <2> QED BY <1>1, <1>4, <1>11, <2>3, <2>4 DEF ChatOrderInv
  <1>16. ChatFrontierInv'
    <2> SUFFICES ASSUME ~cancelled PROVE ChatFrontierInv'
      BY <1>1 DEF ChatFrontierInv
    <2>1. /\ \A i \in 1..Len(s) : s[i] = i
          /\ \A i \in 1..Len(data) : data[i].seq # 0 => data[i].seq = next - 1 /\ Len(s) = next - 2
      BY <1>3 DEF ChatIndInv, ChatFrontierInv
    <2>2. n = next - 1 /\ Len(s) = next - 2
      BY <1>6, <1>7, <2>1
    <2>3. n = Len(s) + 1 /\ Len(s1) = next - 1
      BY <1>5, <1>10, <2>2
    <2>4. \A i \in 1..Len(s1) : s1[i] = i
      <3>1. \A i \in 1..Len(s1) : i = Len(s) + 1 \/ i \in 1..Len(s)
        BY <1>5, <1>10, LastOrBefore
      <3> QED BY <1>10, <2>1, <2>3, <3>1
    <2> QED BY <1>1, <1>4, <1>11, <2>3, <2>4 DEF ChatFrontierInv
  <1> QED BY <1>1, <1>12, <1>13, <1>14, <1>15, <1>16 DEF ChatIndInv

(* Every frame of event n holds a piece of it and ends with its only blank *)
(* line.                                                                   *)
LEMMA ChatFrameFacts ==
    ASSUME NEW n \in Nat \ {0}, NEW f \in Chat!Frames(n)
    PROVE  MessageFrame(n, f)
  <1> DEFINE D(t) == Chat!Data(n, t)
             M == Chat!Event("message")
             B == Chat!Blank
  <1>1. /\ \A t \in Texts : D(t) \in Line /\ D(t).field = "data" /\ D(t).seq = n
        /\ B \in Line /\ B.field = "blank"
        /\ M \in Line /\ M.field = "event" /\ M.text = "message"
    BY DEF Chat!Blank, Chat!Data, Chat!Event, Line, Texts
  <1>2. {"long", "whole", "head", "tail"} \subseteq Texts
    BY DEF Texts
  <1>3. f \in {<<M>> \o <<D(t)>> \o <<B>> : t \in {"long", "whole"}} \cup {<<M>> \o <<D("head"), D("tail")>> \o <<B>>}
    BY DEF Chat!Frames, Chat!DataLines
  <1> HIDE DEF D, M, B
  <1>4. ASSUME NEW t \in {"long", "whole"}, f = <<M>> \o <<D(t)>> \o <<B>>
        PROVE  MessageFrame(n, f)
    <2>1. PICK s : s = <<D(t)>>
      OBVIOUS
    <2>2. s \in Seq(Line) /\ Len(s) = 1 /\ s[1] = D(t) /\ f = <<M>> \o s \o <<B>>
      BY <1>1, <1>2, <1>4, <2>1
    <2>f. Framed(f, M, s, B)
      BY <1>1, <2>2, Frame
    <2>3. f \in Seq(Line) /\ Len(f) = 3 /\ f # <<>> /\ f[1] = M /\ f[3] = B
      BY <2>2, <2>f DEF Framed
    <2>4. f[2] = D(t)
      BY <2>2, <2>f DEF Framed
    <2> QED BY <1>1, <1>2, <2>3, <2>4 DEF MessageFrame, FrameOf, HasPiece
  <1>5. ASSUME f = <<M>> \o <<D("head"), D("tail")>> \o <<B>>
        PROVE  MessageFrame(n, f)
    <2>1. PICK s : s = <<D("head"), D("tail")>>
      OBVIOUS
    <2>2. s \in Seq(Line) /\ Len(s) = 2 /\ s[1] = D("head") /\ s[2] = D("tail") /\ f = <<M>> \o s \o <<B>>
      BY <1>1, <1>2, <1>5, <2>1
    <2>f. Framed(f, M, s, B)
      BY <1>1, <2>2, Frame
    <2>3. f \in Seq(Line) /\ Len(f) = 4 /\ f # <<>> /\ f[1] = M /\ f[4] = B
      BY <2>2, <2>f DEF Framed
    <2>4. f[2] = D("head") /\ f[3] = D("tail")
      BY <2>2, <2>f DEF Framed
    <2> QED BY <1>1, <1>2, <2>3, <2>4 DEF MessageFrame, FrameOf, HasPiece
  <1> QED BY <1>3, <1>4, <1>5

(* A noise frame holds no piece of an event.                               *)
LEMMA ChatNoiseFacts ==
    ASSUME NEW f \in Chat!Noise
    PROVE  FrameOf(0, f)
  <1> DEFINE B == Chat!Blank
             C == Chat!Comment
             U == Chat!Event("unrelated")
             D == Chat!Data(0, "bad")
  <1>1. /\ B \in Line /\ B.field = "blank" /\ C \in Line /\ C.field = "comment"
        /\ U \in Line /\ U.field = "event" /\ D \in Line /\ D.field = "data" /\ D.seq = 0
    BY DEF Chat!Blank, Chat!Comment, Chat!Data, Chat!Event, Line, Texts
  <1>2. f \in {<<C, B>>, <<U, D, B>>}
    BY DEF Chat!Noise
  <1> HIDE DEF B, C, U, D
  <1>3. CASE f = <<C, B>>
    <2>1. f \in Seq(Line) /\ Len(f) = 2 /\ f # <<>> /\ f[1] = C /\ f[2] = B
      BY <1>1, <1>3, Tuples
    <2> QED BY <1>1, <2>1 DEF FrameOf
  <1>4. CASE f = <<U, D, B>>
    <2>1. f \in Seq(Line) /\ Len(f) = 3 /\ f # <<>> /\ f[1] = U /\ f[2] = D /\ f[3] = B
      BY <1>1, <1>4, Tuples
    <2> QED BY <1>1, <2>1 DEF FrameOf
  <1> QED BY <1>2, <1>3, <1>4

(* The daemon writes a frame of event n, or of none when n is 0.           *)
ChatWrite(n) ==
    /\ Chat!Idle
    /\ FrameOf(n, lines')
    /\ \/ n = 0 /\ next' = next
       \/ n = next /\ next' = next + 1 /\ next <= published /\ HasPiece(lines')
    /\ faults' \in 0..MaxFaults
    /\ UNCHANGED <<published, conn, cancelled, reading, pc, defers, data, events, errs, got>>

(* Writing a frame.                                                        *)
LEMMA ChatWriteStep ==
    ASSUME ChatIndInv, NEW n \in Nat, ChatWrite(n)
    PROVE  ChatIndInv'
  <1>1. /\ conn = "open" /\ pc = "scan" /\ lines = <<>> /\ faults' \in 0..MaxFaults
        /\ UNCHANGED <<published, conn, cancelled, reading, pc, defers, data, events, errs, got>>
    BY DEF ChatWrite, Chat!Idle
  <1>2. /\ lines' \in Seq(Line) /\ lines' # <<>> /\ lines'[Len(lines')].field = "blank"
        /\ \A i \in 1..Len(lines') : /\ lines'[i].field = "blank" => i = Len(lines')
                                     /\ lines'[i].field = "data" => lines'[i].seq = n
    BY DEF ChatWrite, FrameOf
  <1>3. PICK s : s = Chat!Sent
    OBVIOUS
  <1>4. Chat!Sent' = s /\ (HasPiece(data)' <=> HasPiece(data)) /\ Chat!Decode(data)' = Chat!Decode(data)
    BY <1>1, <1>3 DEF Chat!Sent, HasPiece, Chat!Decode
  <1>5. /\ next \in Nat /\ next \in 1..(MaxPublished + 1) /\ MaxPublished \in Nat /\ published \in 0..MaxPublished
        /\ s \in Seq(1..MaxPublished) /\ Len(s) \in Nat
    BY <1>3, ChatTypes DEF ChatIndInv
  <1>6. \/ n = 0 /\ next' = next
        \/ n = next /\ next' = next + 1 /\ next <= published /\ HasPiece(lines')
    BY DEF ChatWrite
  <1>7. /\ next' \in Nat /\ next' \in 1..(MaxPublished + 1) /\ next' - 1 <= published /\ next <= next'
        /\ n # 0 => n = next /\ n = next' - 1
    BY <1>5, <1>6 DEF ChatIndInv
  <1>8. Chat!TypeOK'
    <2>1. Chat!SSETypeOK'
      BY <1>1, <1>2, <1>7, SameLines DEF ChatIndInv, Chat!TypeOK, Chat!SSETypeOK
    <2> QED BY <1>1, <2>1, SameLines DEF ChatIndInv, Chat!TypeOK
  <1>9. ChatRunInv'
    BY <1>1 DEF ChatIndInv, ChatRunInv
  <1>10. ChatFrameInv'
    BY <1>1, <1>2, <1>4 DEF ChatIndInv, ChatFrameInv
  <1>11. ChatOrderInv'
    <2>1. \A i, j \in 1..Len(s) : i < j => s[i] < s[j]
      BY <1>3 DEF ChatIndInv, ChatOrderInv
    <2>2. \A i \in 1..Len(s) : s[i] \in Nat /\ s[i] < next
      BY <1>3, <1>5 DEF ChatIndInv, ChatOrderInv
    <2>3. \A i \in 1..Len(s) : s[i] < next'
      BY <1>5, <1>7, <2>2
    <2>4. \A i \in 1..Len(data) : data[i].seq # 0 => data[i].seq < next' /\ \A j \in 1..Len(s) : s[j] < data[i].seq
      <3> SUFFICES ASSUME NEW i \in 1..Len(data), data[i].seq # 0
                   PROVE  data[i].seq < next' /\ \A j \in 1..Len(s) : s[j] < data[i].seq
        OBVIOUS
      <3>1. data[i].seq < next /\ \A j \in 1..Len(s) : s[j] < data[i].seq
        BY <1>3 DEF ChatIndInv, ChatOrderInv
      <3>2. data \in Seq(Line) /\ data[i] \in Line
        BY ChatTypes DEF ChatIndInv
      <3>3. data[i].seq \in Nat
        BY <3>2 DEF Line
      <3> QED BY <1>5, <1>7, <3>1, <3>3
    <2>5. \A i \in 1..Len(lines') : lines'[i].field = "data" /\ lines'[i].seq # 0 =>
             lines'[i].seq = next' - 1 /\ \A j \in 1..Len(s) : s[j] < lines'[i].seq
      BY <1>2, <1>7, <2>2
    <2> QED BY <1>1, <1>4, <2>1, <2>3, <2>4, <2>5 DEF ChatOrderInv
  <1>12. ChatFrontierInv'
    <2> SUFFICES ASSUME ~cancelled PROVE ChatFrontierInv'
      BY <1>1 DEF ChatFrontierInv
    <2>1. data = <<>> /\ Len(data) = 0
      BY <1>1 DEF ChatIndInv, ChatFrameInv
    <2>2. ~HasPiece(data) /\ ~HasPiece(lines)
      BY <1>1, <2>1 DEF HasPiece
    <2>3. (\A i \in 1..Len(s) : s[i] = i) /\ Len(s) = next - 1
      BY <1>1, <1>3, <2>2 DEF ChatIndInv, ChatFrontierInv
    <2>4. CASE n = 0 /\ next' = next
      <3>1. ~HasPiece(lines')
        BY <1>2, <2>4 DEF HasPiece
      <3>2. Len(s) \in {next' - 1, next' - 2} /\ Len(s) = next' - 1
        BY <1>5, <2>3, <2>4
      <3> QED BY <1>1, <1>4, <2>1, <2>3, <3>1, <3>2 DEF ChatFrontierInv, HasPiece
    <2>5. CASE n = next /\ next' = next + 1 /\ HasPiece(lines')
      <3>1. Len(s) \in {next' - 1, next' - 2} /\ Len(s) = next' - 2
        BY <1>5, <2>3, <2>5
      <3> QED BY <1>1, <1>4, <2>1, <2>3, <2>5, <3>1 DEF ChatFrontierInv, HasPiece
    <2> QED BY <1>6, <2>4, <2>5
  <1> QED BY <1>1, <1>7, <1>8, <1>9, <1>10, <1>11, <1>12 DEF ChatIndInv

(* The response body ends.                                                 *)
LEMMA ChatDisconnectStep ==
    ASSUME ChatIndInv, Chat!Disconnect, UNCHANGED <<data, events, errs, got>>
    PROVE  ChatIndInv'
  <1>1. /\ conn = "open" /\ conn' \in {"eof", "reset"} /\ faults < MaxFaults /\ faults' = faults + 1
        /\ lines' \in Remainders(lines)
        /\ UNCHANGED <<published, next, cancelled, reading, pc, defers>>
    BY SameLines DEF Chat!Disconnect, Chat!Fault
  <1>2. lines \in Seq(Line) /\ data \in Seq(Line) /\ Len(lines) \in Nat
    BY ChatTypes DEF ChatIndInv
  <1>3. /\ lines' \in Seq(Line) /\ Len(lines') <= Len(lines) /\ Len(lines') \in Nat
        /\ \A i \in 1..Len(lines') : /\ lines'[i].field = lines[i].field
                                     /\ lines'[i].field = "data" => lines'[i].seq = lines[i].seq
                                     /\ lines'[i].field = "blank" => lines'[i] = lines[i]
    BY <1>1, <1>2, RemainderFacts
  <1>4. \A i \in 1..Len(lines') : i \in 1..Len(lines)
    BY <1>2, <1>3
  <1>5. PICK s : s = Chat!Sent
    OBVIOUS
  <1>6. Chat!Sent' = s /\ (HasPiece(data)' <=> HasPiece(data)) /\ Chat!Decode(data)' = Chat!Decode(data)
    BY <1>5 DEF Chat!Sent, HasPiece, Chat!Decode
  <1>7. HasPiece(lines') => HasPiece(lines)
    BY <1>3, <1>4 DEF HasPiece
  <1>8. lines = <<>> => lines' = <<>>
    BY <1>2, <1>3
  <1>9. Chat!TypeOK'
    <2>1. faults' \in 0..MaxFaults
      BY <1>1, BoundsAssumption DEF ChatIndInv, Chat!TypeOK, Chat!SSETypeOK
    <2>2. Chat!SSETypeOK'
      BY <1>1, <1>3, <2>1, SameLines DEF ChatIndInv, Chat!TypeOK, Chat!SSETypeOK
    <2> QED BY <2>2, SameLines DEF ChatIndInv, Chat!TypeOK
  <1>10. ChatRunInv'
    BY <1>1, <1>6, <1>8, <1>5 DEF ChatIndInv, ChatRunInv
  <1>11. ChatFrameInv'
    <2>1. pc = "scan" => \A i \in 1..Len(lines') : lines'[i].field = "blank" => i = Len(lines')
      <3> SUFFICES ASSUME pc = "scan", NEW i \in 1..Len(lines'), lines'[i].field = "blank"
                   PROVE  i = Len(lines')
        OBVIOUS
      <3>1. i \in 1..Len(lines) /\ lines[i].field = "blank"
        BY <1>3, <1>4
      <3>2. i = Len(lines)
        BY <3>1 DEF ChatIndInv, ChatFrameInv
      <3> QED BY <1>2, <1>3, <3>2
    <2> QED BY <1>1, <1>6, <1>8, <2>1 DEF ChatIndInv, ChatFrameInv
  <1>12. ChatOrderInv'
    <2>1. pc = "scan" => \A i \in 1..Len(lines') : lines'[i].field = "data" /\ lines'[i].seq # 0 =>
             lines'[i].seq = next - 1 /\ \A j \in 1..Len(s) : s[j] < lines'[i].seq
      BY <1>3, <1>4, <1>5 DEF ChatIndInv, ChatOrderInv
    <2> QED BY <1>1, <1>5, <1>6, <2>1 DEF ChatIndInv, ChatOrderInv
  <1>13. ChatFrontierInv'
    BY <1>1, <1>5, <1>6, <1>7 DEF ChatIndInv, ChatFrontierInv
  <1> QED BY <1>1, <1>9, <1>10, <1>11, <1>12, <1>13 DEF ChatIndInv

-----------------------------------------------------------------------------
(* Chat streams, whole. *)

(* Nothing has been asked yet.                                             *)
LEMMA ChatInit == Chat!Init => ChatIndInv
  <1> SUFFICES ASSUME Chat!Init PROVE ChatIndInv
    OBVIOUS
  <1>1. /\ published = 0 /\ next = 1 /\ lines = <<>> /\ conn = "none" /\ faults = 0
        /\ cancelled = FALSE /\ reading = TRUE /\ pc = "idle" /\ defers = <<>>
        /\ data = <<>> /\ events = <<>> /\ errs = <<>> /\ got = <<>>
    BY DEF Chat!Init, Chat!SSEInit
  <1>2. Chat!Sent = <<>> /\ Len(Chat!Sent) = 0 /\ Len(data) = 0
    BY <1>1, EmptySeq DEF Chat!Sent
  <1>3. Chat!TypeOK
    <2>1. defers \in Seq({"body", "errs", "events"}) /\ lines \in Seq(Chat!Line)
      BY <1>1
    <2>2. published \in 0..MaxPublished /\ next \in 1..(MaxPublished + 1) /\ faults \in 0..MaxFaults
      BY <1>1, BoundsAssumption
    <2>3. Chat!SSETypeOK
      BY <1>1, <2>1, <2>2 DEF Chat!SSETypeOK
    <2>4. data \in Seq(Chat!Line) /\ events \in Seq(1..MaxPublished) /\ got \in Seq(1..MaxPublished)
      BY <1>1
    <2>5. errs \in Seq({"decode", "read"}) /\ Len(errs) = 0 /\ Len(events) = 0
      BY <1>1
    <2> QED BY <2>3, <2>4, <2>5, BufferAssumption DEF Chat!TypeOK
  <1>4. ChatRunInv
    BY <1>1, <1>2 DEF ChatRunInv
  <1>5. ChatFrameInv
    BY <1>1, <1>2 DEF ChatFrameInv
  <1>6. ChatOrderInv
    BY <1>1, <1>2 DEF ChatOrderInv
  <1>7. ChatFrontierInv
    BY <1>1, <1>2 DEF ChatFrontierInv
  <1> QED BY <1>1, <1>3, <1>4, <1>5, <1>6, <1>7 DEF ChatIndInv

(* Every step of the goroutine, the daemon and the caller.                 *)
LEMMA ChatNext == ChatIndInv /\ [Chat!Next]_(Chat!vars) => ChatIndInv'
  <1> SUFFICES ASSUME ChatIndInv, [Chat!Next]_(Chat!vars) PROVE ChatIndInv'
    OBVIOUS
  <1>1. CASE Chat!AIChatStream
    BY <1>1, ChatOpens
  <1>2. CASE Chat!AIChatRefused \/ Chat!Receive \/ Chat!CancelContext
    BY <1>2, ChatAsideStep
  <1>3. CASE Chat!Goroutine
    BY <1>3, ChatScanFieldStep, ChatFlushStep, ChatGoesOn, ChatSendStep, ChatAsideStep DEF Chat!Goroutine
  <1>4. CASE Chat!Daemon
    <2>1. UNCHANGED <<data, events, errs, got>>
      BY <1>4 DEF Chat!Daemon, Chat!streamVars
    <2>2. /\ next \in Nat \ {0} /\ faults \in 0..MaxFaults /\ faults \in Nat /\ MaxFaults \in Nat
      BY BoundsAssumption DEF ChatIndInv, Chat!TypeOK, Chat!SSETypeOK
    <2>3. CASE Chat!Publish
      BY <2>3, <1>4, ChatAsideStep DEF Chat!Daemon
    <2>4. CASE Chat!WritePublication(Chat!Frames(next))
      <3>1. /\ lines' \in Chat!Frames(next) /\ Chat!Idle /\ next <= published /\ next' = next + 1
            /\ UNCHANGED <<published, conn, faults, cancelled, reading, pc, defers>>
        BY <2>4 DEF Chat!WritePublication
      <3>2. MessageFrame(next, lines')
        BY <2>2, <3>1, ChatFrameFacts
      <3>3. FrameOf(next, lines') /\ HasPiece(lines')
        BY <3>2 DEF MessageFrame
      <3>4. ChatWrite(next)
        BY <2>1, <2>2, <3>1, <3>3 DEF ChatWrite
      <3> QED BY <2>2, <3>4, ChatWriteStep
    <2>5. CASE Chat!WriteNoise(Chat!Noise)
      <3>1. /\ lines' \in Chat!Noise /\ Chat!Idle /\ faults < MaxFaults /\ faults' = faults + 1
            /\ UNCHANGED <<published, next, conn, cancelled, reading, pc, defers>>
        BY <2>5 DEF Chat!WriteNoise, Chat!Fault
      <3>2. FrameOf(0, lines')
        BY <3>1, ChatNoiseFacts
      <3>3. faults' \in 0..MaxFaults
        BY <2>2, <3>1
      <3>4. ChatWrite(0)
        BY <2>1, <3>1, <3>2, <3>3 DEF ChatWrite
      <3> QED BY <3>4, ChatWriteStep
    <2>6. CASE Chat!Disconnect
      BY <2>1, <2>6, ChatDisconnectStep
    <2> QED BY <1>4, <2>3, <2>4, <2>5, <2>6 DEF Chat!Daemon
  <1>5. CASE UNCHANGED Chat!vars
    <2>1. /\ UNCHANGED <<published, next, lines, conn, faults, cancelled, reading, pc, defers>>
          /\ UNCHANGED <<data, events, errs, got>>
      BY <1>5 DEF Chat!vars, Chat!sseVars, Chat!streamVars
    <2>2. UNCHANGED <<Chat!Sent, Chat!Decode(data), HasPiece(lines), HasPiece(data)>>
      BY <2>1 DEF Chat!Sent, Chat!Decode, HasPiece
    <2>3. Chat!TypeOK'
      BY <2>1 DEF ChatIndInv, Chat!TypeOK, Chat!SSETypeOK, Chat!Line, Chat!Texts
    <2>4. ChatRunInv'
      BY <2>1, <2>2 DEF ChatIndInv, ChatRunInv
    <2>5. ChatFrameInv'
      BY <2>1, <2>2 DEF ChatIndInv, ChatFrameInv
    <2>6. ChatOrderInv'
      BY <2>1, <2>2 DEF ChatIndInv, ChatOrderInv
    <2>7. ChatFrontierInv'
      BY <2>1, <2>2 DEF ChatIndInv, ChatFrontierInv
    <2> QED BY <2>1, <2>3, <2>4, <2>5, <2>6, <2>7 DEF ChatIndInv
  <1> QED BY <1>1, <1>2, <1>3, <1>4, <1>5 DEF Chat!Next

(* Every reachable state of a chat stream satisfies the strengthened       *)
(* invariant.                                                              *)
THEOREM ChatInvariance == Chat!Spec => []ChatIndInv
  BY ChatInit, ChatNext, PTL DEF Chat!Spec

(* What AIChatStream sent is what ChatAnswer speaks of.                    *)
LEMMA ChatSent == Chat!Sent = Sent
  BY DEF Chat!Sent, Sent

(* The events of an answer arrive in order and none twice, and until the   *)
(* context is cancelled none is missing, although flush leaves the buffer  *)
(* as it is when it is cancelled and decodes only the first JSON value.    *)
THEOREM ChatInOrder == Chat!Spec => []InOrder
  <1>1. ChatIndInv => InOrder
    BY ChatSent DEF ChatIndInv, ChatOrderInv, ChatFrontierInv, InOrder
  <1> QED BY <1>1, ChatInvariance, PTL

(* A chat stream that ends without an error and without a cancellation     *)
(* saw its body end cleanly, and delivered every event written but at most *)
(* the one the end cut.                                                    *)
THEOREM ChatNoSilentLoss == Chat!Spec => []NoSilentLoss
  <1>1. ASSUME ChatIndInv PROVE NoSilentLoss
    <2>1. next \in Nat /\ Len(Chat!Sent) \in Nat
      BY <1>1, ChatTypes DEF ChatIndInv
    <2>2. ~cancelled => Len(Chat!Sent) >= next - 2
      BY <1>1, <2>1 DEF ChatIndInv, ChatFrontierInv
    <2>3. pc = "done" /\ errs = <<>> /\ ~cancelled => conn = "eof"
      BY <1>1 DEF ChatIndInv, ChatRunInv
    <2> QED BY <2>2, <2>3, ChatSent DEF NoSilentLoss
  <1> QED BY <1>1, ChatInvariance, PTL

(* Every variable of a chat stream keeps its type, the channel its         *)
(* capacity, and the error channel one report at most: a send on it never  *)
(* blocks the goroutine.                                                   *)
THEOREM ChatTypeCorrect == Chat!Spec => []Chat!TypeOK
  <1>1. ChatIndInv => Chat!TypeOK
    BY DEF ChatIndInv
  <1> QED BY <1>1, ChatInvariance, PTL
=============================================================================
