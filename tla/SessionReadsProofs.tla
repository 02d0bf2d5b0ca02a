-------------------------- MODULE SessionReadsProofs --------------------------
(***************************************************************************)
(* What is recorded over stdio and read back, for any ids, channel and     *)
(* trackers and any traffic of a client that numbers its requests afresh:  *)
(* the advertisements and nothing else are pinned, a request is joined     *)
(* with its own answer, and pages tile the session.                        *)
(***************************************************************************)
EXTENDS SessionReads, FiniteSetTheorems, SequenceTheorems, WellFoundedInduction, TLAPS

-----------------------------------------------------------------------------
(* Frames, from the wire to the record.                                    *)

Taps == [kind : {"tap"}, dir : {"c2s", "s2c"}, method : Methods, id : Ids, err : BOOLEAN,
         body : Bodies, ts : Nat, answers : Nat]

\* The frames that have come to the channel, in its order.
Line == drained \o queue

\* What each pump has still to tap, and every frame there is.
Of(d) == IF d = "c2s" THEN c2sOwed ELSE s2cOwed
Frames == {Line[k] : k \in 1 .. Len(Line)} \cup {f \in {c2sOwed, s2cOwed} : f # Nothing}

Open == atServer \cup atClient
Asks == {f \in Frames \cup atServer : Request(f)}

SeqInv ==
  /\ queue \in Seq(Taps) /\ drained \in Seq(Taps)
  /\ \A d \in {"c2s", "s2c"} : Of(d) = Nothing \/ (Of(d) \in Taps /\ Of(d).dir = d)
  /\ clock \in Nat \ {0}

\* A frame answers nothing or one older frame of the other side.
ShapeInv ==
  /\ \A f \in Frames :
       /\ 1 <= f.ts /\ f.ts < clock /\ f.answers < f.ts
       /\ f.method = "none" <=> f.answers # 0
       /\ f.body = "tools" => f.dir = "s2c"
  /\ \A r \in Open : r \in Taps /\ 1 <= r.ts /\ r.ts < clock /\ r.method # "none" /\ r.answers = 0
  /\ \A r \in atServer : r.dir = "c2s"
  /\ \A r \in atClient : r.dir = "s2c"

\* Stamps tell frames apart, and a request is answered once, under its id.
LinkInv ==
  /\ \A q, r \in Frames \cup Open : q.ts = r.ts => q = r
  /\ \A r \in Open, f \in Frames : f.answers # r.ts
  /\ \A f, g \in Frames : f.answers = g.answers /\ f.answers # 0 => f = g
  /\ \A f, g \in Frames : f.answers = g.ts => f.id = g.id /\ f.dir # g.dir

\* An id stands for one request.
NameInv ==
  /\ \A r \in Asks : r.id \in used
  /\ \A q, r \in Asks : q.id = r.id => q = r
  /\ \A f \in Frames : Response(f) => f.id \in used /\ \A r \in Asks : r.id = f.id => f.answers = r.ts
  /\ \A f, g \in Frames : Response(f) /\ Response(g) /\ f.id = g.id => f = g

\* The frames of a pump are in the order of the wire.
OrderInv ==
  /\ \A j, k \in 1 .. Len(Line) : j < k /\ Line[j].dir = Line[k].dir => Line[j].ts < Line[k].ts
  /\ \A d \in {"c2s", "s2c"} : Of(d) # Nothing =>
       \A k \in 1 .. Len(Line) : Line[k].dir = d => Line[k].ts < Of(d).ts

WireInv == SeqInv /\ ShapeInv /\ LinkInv /\ NameInv /\ OrderInv

-----------------------------------------------------------------------------

LEMMA LineOf ==
  ASSUME SeqInv
  PROVE  /\ Line \in Seq(Taps) /\ Len(Line) = Len(drained) + Len(queue) /\ Len(Line) \in Nat
         /\ Len(drained) \in Nat /\ Len(queue) \in Nat
         /\ \A k \in 1 .. Len(drained) : Line[k] = drained[k]
         /\ Frames \subseteq Taps
         /\ \A k \in 1 .. Len(drained) : drained[k] \in Taps /\ drained[k] \in Frames
<1>1. /\ Line \in Seq(Taps) /\ Len(Line) = Len(drained) + Len(queue) /\ Len(Line) \in Nat
      /\ Len(drained) \in Nat /\ Len(queue) \in Nat
      /\ \A k \in 1 .. Len(drained) : Line[k] = drained[k]
  BY ConcatProperties, LenProperties DEF SeqInv, Line
<1>2. \A k \in 1 .. Len(Line) : Line[k] \in Taps
  BY <1>1, ElementOfSeq
<1>3. {f \in {c2sOwed, s2cOwed} : f # Nothing} \subseteq Taps
  BY DEF SeqInv, Of
<1>4. Frames \subseteq Taps
  BY <1>2, <1>3 DEF Frames
<1>5. QED
  BY <1>1, <1>4 DEF Frames

\* A drain moves the line by one frame, and changes nothing in it.
LEMMA DrainLine ==
  ASSUME SeqInv, HandleTap
  PROVE  /\ drained' \in Seq(Taps) /\ queue' \in Seq(Taps)
         /\ Line' = Line
         /\ Len(drained') = Len(drained) + 1
         /\ \A k \in 1 .. Len(drained) : drained'[k] = drained[k]
         /\ drained'[Len(drained) + 1] = Head(queue)
         /\ Head(queue) = Line[Len(drained) + 1]
         /\ Len(drained) + 1 \in 1 .. Len(Line)
<1>1. queue \in Seq(Taps) /\ queue # <<>> /\ drained \in Seq(Taps)
  BY DEF SeqInv, HandleTap
<1>2. /\ Head(queue) \in Taps /\ Tail(queue) \in Seq(Taps) /\ Len(Tail(queue)) = Len(queue) - 1
      /\ Len(queue) \in Nat \ {0} /\ Head(queue) = queue[1]
      /\ \A i \in 1 .. Len(Tail(queue)) : Tail(queue)[i] = queue[i + 1]
  BY <1>1, HeadTailProperties, EmptySeq
<1>3. drained' = Append(drained, Head(queue)) /\ queue' = Tail(queue)
  BY DEF HandleTap
<1>4. /\ drained' \in Seq(Taps) /\ Len(drained') = Len(drained) + 1 /\ Len(drained) \in Nat
      /\ \A k \in 1 .. Len(drained) : drained'[k] = drained[k]
      /\ drained'[Len(drained) + 1] = Head(queue)
  BY <1>1, <1>2, <1>3, AppendProperties, LenProperties
<1>5. Line' = drained' \o queue'
  BY DEF Line
<1>6. /\ Line' \in Seq(Taps) /\ Len(Line') = Len(drained') + Len(queue')
      /\ \A k \in 1 .. Len(drained') + Len(queue') :
           Line'[k] = IF k <= Len(drained') THEN drained'[k] ELSE queue'[k - Len(drained')]
  <2>1. queue' \in Seq(Taps)
    BY <1>2, <1>3
  <2>2. QED
    BY <2>1, <1>4, <1>5, ConcatProperties
<1>7. /\ Line \in Seq(Taps) /\ Len(Line) = Len(drained) + Len(queue)
      /\ \A k \in 1 .. Len(drained) + Len(queue) :
           Line[k] = IF k <= Len(drained) THEN drained[k] ELSE queue[k - Len(drained)]
  BY <1>1, ConcatProperties DEF Line
<1>8. Len(Line') = Len(Line)
  BY <1>2, <1>3, <1>4, <1>6, <1>7
<1>9. ASSUME NEW k \in 1 .. Len(Line) PROVE Line'[k] = Line[k]
  <2> DEFINE n == Len(drained)
  <2>1. n \in Nat /\ Len(queue) \in Nat /\ k \in Nat /\ k <= n + Len(queue)
    BY <1>2, <1>4, <1>7
  <2>2. CASE k <= n
    BY <1>4, <1>6, <1>7, <1>8, <2>1, <2>2
  <2>3. CASE k = n + 1
    BY <1>2, <1>4, <1>6, <1>7, <1>8, <2>1, <2>3
  <2>4. CASE k > n + 1
    <3>1. Line'[k] = queue'[k - (n + 1)]
      BY <1>4, <1>6, <1>7, <1>8, <2>1, <2>4
    <3>2. queue'[k - (n + 1)] = queue[k - (n + 1) + 1] /\ k - (n + 1) + 1 = k - n
      BY <1>2, <1>3, <2>1, <2>4
    <3>3. Line[k] = queue[k - n]
      BY <1>7, <2>1, <2>4
    <3>4. QED
      BY <3>1, <3>2, <3>3
  <2>5. QED
    BY <2>1, <2>2, <2>3, <2>4
<1>10. Line' = Line
  BY <1>6, <1>7, <1>8, <1>9, SeqEqual
<1>11. Head(queue) = Line[Len(drained) + 1] /\ Len(drained) + 1 \in 1 .. Len(Line)
  BY <1>2, <1>4, <1>7
<1>12. queue' \in Seq(Taps)
  BY <1>2, <1>3
<1>13. QED
  BY <1>4, <1>10, <1>11, <1>12

\* A tap puts its frame at the end of the line, or drops it.
LEMMA SendLine ==
  ASSUME SeqInv, NEW f \in Taps, Enqueue(f), UNCHANGED drained
  PROVE  queue' \in Seq(Taps) /\ (Line' = Line \/ Line' = Append(Line, f))
<1>1. queue \in Seq(Taps) /\ drained \in Seq(Taps) /\ Line' = drained \o queue'
  BY DEF SeqInv, Line
<1>2. queue' = queue \/ queue' = Append(queue, f)
  BY DEF Enqueue, Send
<1>3. CASE queue' = queue
  BY <1>1, <1>3 DEF Line
<1>4. CASE queue' = Append(queue, f)
  <2>1. Append(queue, f) \in Seq(Taps) /\ Append(queue, f) = queue \o <<f>> /\ <<f>> \in Seq(Taps)
    BY <1>1, AppendProperties, AppendIsConcat
  <2>2. drained \o (queue \o <<f>>) = (drained \o queue) \o <<f>> /\ drained \o queue \in Seq(Taps)
    BY <1>1, <2>1, ConcatAssociative, ConcatProperties
  <2>3. (drained \o queue) \o <<f>> = Append(drained \o queue, f)
    BY <2>2, AppendIsConcat
  <2>4. QED
    BY <1>1, <1>4, <2>1, <2>2, <2>3 DEF Line
<1>5. QED
  BY <1>2, <1>3, <1>4

\* Pump d takes f up.
Takes(d, f) ==
  /\ Of(d) = Nothing /\ UNCHANGED loopVars
  /\ IF d = "c2s" THEN c2sOwed' = f /\ UNCHANGED s2cOwed ELSE s2cOwed' = f /\ UNCHANGED c2sOwed

LEMMA TakenFrames ==
  ASSUME SeqInv, NEW d \in {"c2s", "s2c"}, NEW f \in Taps, f.dir = d, Takes(d, f),
         clock' = clock + 1
  PROVE  SeqInv' /\ Line' = Line /\ Frames' = Frames \cup {f} /\ Of(d)' = f
         /\ \A e \in {"c2s", "s2c"} : e # d => Of(e)' = Of(e)
<1>1. f # Nothing
  BY DEF Taps, Nothing
<1>2. Line' = Line /\ queue' = queue /\ drained' = drained
  BY DEF Takes, Line, loopVars
<1>3. /\ Of(d)' = f
      /\ \A e \in {"c2s", "s2c"} : e # d => Of(e)' = Of(e)
  BY DEF Takes, Of
<1>4. {g \in {c2sOwed', s2cOwed'} : g # Nothing} = {g \in {c2sOwed, s2cOwed} : g # Nothing} \cup {f}
  BY <1>1 DEF Takes, Of
<1>5. Frames' = {Line'[k] : k \in 1 .. Len(Line')} \cup {g \in {c2sOwed', s2cOwed'} : g # Nothing}
  BY DEF Frames
<1>6. Frames' = Frames \cup {f}
  BY <1>2, <1>4, <1>5 DEF Frames
<1>7. SeqInv'
  <2>1. \A e \in {"c2s", "s2c"} : Of(e)' = Nothing \/ (Of(e)' \in Taps /\ Of(e)'.dir = e)
    BY <1>3 DEF SeqInv
  <2>2. QED
    BY <1>2, <2>1 DEF SeqInv
<1>8. QED
  BY <1>2, <1>3, <1>6, <1>7

\* It asks: f is the next that is open.
LEMMA AskKeepsLinks ==
  ASSUME SeqInv, ShapeInv, LinkInv, NEW f \in Taps, f.ts = clock, clock' = clock + 1,
         Frames' = Frames \cup {f}, f.method # "none", f.answers = 0, f.body = "plain",
         \/ f.dir = "c2s" /\ atServer' = atServer \cup {f} /\ atClient' = atClient
         \/ f.dir = "s2c" /\ atClient' = atClient \cup {f} /\ atServer' = atServer
  PROVE  ShapeInv' /\ LinkInv'
<1>1. Open' = Open \cup {f}
  BY DEF Open
<1>2. clock \in Nat \ {0} /\ Frames \subseteq Taps /\ \A g \in Taps : g.ts \in Nat /\ g.answers \in Nat
  BY LineOf DEF SeqInv, Taps
<1>3. ShapeInv'
  BY <1>1, <1>2 DEF ShapeInv
<1>4. \A g \in Frames \cup Open : g.ts \in Nat /\ g.ts < clock /\ g.answers \in Nat /\ g.answers < clock
  BY <1>2 DEF ShapeInv
<1>5. LinkInv'
  <2>1. \A q, r \in Frames' \cup Open' : q.ts = r.ts => q = r
    BY <1>1, <1>4 DEF LinkInv
  <2>2. \A r \in Open', g \in Frames' : g.answers # r.ts
    BY <1>1, <1>2, <1>4 DEF LinkInv, ShapeInv
  <2>3. \A g, h \in Frames' : g.answers = h.answers /\ g.answers # 0 => g = h
    BY DEF LinkInv
  <2>4. \A g, h \in Frames' : g.answers = h.ts => g.id = h.id /\ g.dir # h.dir
    BY <1>2, <1>4 DEF LinkInv, ShapeInv
  <2>5. QED
    BY <2>1, <2>2, <2>3, <2>4 DEF LinkInv
<1>6. QED
  BY <1>3, <1>5

\* It answers r, which is open no more.
LEMMA AnswerKeepsLinks ==
  ASSUME SeqInv, ShapeInv, LinkInv, NEW f \in Taps, f.ts = clock, clock' = clock + 1,
         Frames' = Frames \cup {f}, f.method = "none", NEW r \in Open, f.answers = r.ts,
         f.id = r.id, f.dir # r.dir, f.body = "tools" => f.dir = "s2c",
         \/ atServer' = atServer \ {r} /\ atClient' = atClient
         \/ atClient' = atClient \ {r} /\ atServer' = atServer,
         r \notin Open'
  PROVE  ShapeInv' /\ LinkInv'
<1>1. Open' \subseteq Open /\ \A q \in Open' : q # r
  BY DEF Open
<1>2. clock \in Nat \ {0} /\ Frames \subseteq Taps /\ \A g \in Taps : g.ts \in Nat /\ g.answers \in Nat
  BY LineOf DEF SeqInv, Taps
<1>3. r.ts \in Nat /\ 1 <= r.ts /\ r.ts < clock /\ r \in Taps
  BY <1>2 DEF ShapeInv
<1>4. ShapeInv'
  BY <1>1, <1>2, <1>3 DEF ShapeInv
<1>5. \A g \in Frames \cup Open : g.ts \in Nat /\ g.ts < clock /\ g.answers \in Nat /\ g.answers < clock
  BY <1>2 DEF ShapeInv
<1>6. LinkInv'
  <2>1. \A q, h \in Frames' \cup Open' : q.ts = h.ts => q = h
    BY <1>1, <1>5 DEF LinkInv
  <2>2. \A h \in Open', g \in Frames' : g.answers # h.ts
    BY <1>1, <1>5 DEF LinkInv
  <2>3. \A g, h \in Frames' : g.answers = h.answers /\ g.answers # 0 => g = h
    BY DEF LinkInv
  <2>4. \A g, h \in Frames' : g.answers = h.ts => g.id = h.id /\ g.dir # h.dir
    <3>1. \A h \in Frames : f.answers = h.ts => h = r
      BY DEF LinkInv
    <3>2. f.answers # f.ts /\ \A g \in Frames : g.answers # f.ts
      BY <1>2, <1>3, <1>5
    <3>3. QED
      BY <3>1, <3>2 DEF LinkInv
  <2>5. QED
    BY <2>1, <2>2, <2>3, <2>4 DEF LinkInv
<1>7. QED
  BY <1>4, <1>6

\* A new frame is the latest of its pump.
LEMMA TakeKeepsOrder ==
  ASSUME SeqInv, ShapeInv, OrderInv, NEW d \in {"c2s", "s2c"}, NEW f \in Taps, f.dir = d,
         Takes(d, f), f.ts = clock, clock' = clock + 1
  PROVE  OrderInv'
<1>1. /\ Line' = Line /\ Of(d)' = f
      /\ \A e \in {"c2s", "s2c"} : e # d => Of(e)' = Of(e)
  BY TakenFrames
<1>2. \A k \in 1 .. Len(Line) : Line[k] \in Frames /\ Line[k].ts < clock
  BY DEF Frames, ShapeInv
<1>3. \A e \in {"c2s", "s2c"} : Of(e)' # Nothing =>
        \A k \in 1 .. Len(Line) : Line[k].dir = e => Line[k].ts < Of(e)'.ts
  BY <1>1, <1>2 DEF OrderInv
<1>4. QED
  BY <1>1, <1>3 DEF OrderInv

\* What leaves Frames and Open takes nothing else with it.
LEMMA FewerKeepLinks ==
  ASSUME ShapeInv, LinkInv, NameInv, Frames' \subseteq Frames,
         UNCHANGED <<clock, atServer, atClient, used>>
  PROVE  ShapeInv' /\ LinkInv' /\ NameInv'
<1>1. Open' = Open /\ Asks' \subseteq Asks
  BY DEF Open, Asks
<1>2. ShapeInv'
  BY <1>1 DEF ShapeInv
<1>3. LinkInv'
  BY <1>1 DEF LinkInv
<1>4. NameInv'
  BY <1>1 DEF NameInv
<1>5. QED
  BY <1>2, <1>3, <1>4

\* Pump d puts what it has on the channel.
LEMMA TapStep ==
  ASSUME WireInv, NEW d \in {"c2s", "s2c"}, Of(d) # Nothing, Enqueue(Of(d)), UNCHANGED drained,
         Of(d)' = Nothing, \A e \in {"c2s", "s2c"} : e # d => Of(e)' = Of(e),
         UNCHANGED <<clock, atServer, atClient, used>>
  PROVE  WireInv'
<1> DEFINE f == Of(d)
<1>1. f \in Taps /\ f.dir = d /\ f \in Frames
  BY DEF WireInv, SeqInv, Of, Frames
<1>2. /\ Line \in Seq(Taps) /\ Len(Line) \in Nat
      /\ queue' \in Seq(Taps) /\ (Line' = Line \/ Line' = Append(Line, f))
  BY <1>1, SendLine, LineOf DEF WireInv
<1>3. SeqInv'
  <2>1. \A e \in {"c2s", "s2c"} : Of(e)' = Nothing \/ (Of(e)' \in Taps /\ Of(e)'.dir = e)
    BY DEF WireInv, SeqInv
  <2>2. QED
    BY <1>2, <2>1 DEF WireInv, SeqInv
<1>4. /\ \A k \in 1 .. Len(Line) : Line'[k] = Line[k]
      /\ Len(Line') = Len(Line) \/ (Len(Line') = Len(Line) + 1 /\ Line'[Len(Line) + 1] = f)
  BY <1>1, <1>2, AppendProperties
<1>5. Frames' \subseteq Frames
  <2>1. \A k \in 1 .. Len(Line') : Line'[k] \in Frames
    BY <1>1, <1>2, <1>4 DEF Frames
  <2>2. {c2sOwed', s2cOwed'} = {Of(e)' : e \in {"c2s", "s2c"}}
    BY DEF Of
  <2>3. \A e \in {"c2s", "s2c"} : Of(e)' # Nothing => Of(e)' \in Frames
    BY DEF Of, Frames
  <2>4. Frames' = {Line'[k] : k \in 1 .. Len(Line')} \cup {g \in {c2sOwed', s2cOwed'} : g # Nothing}
    BY DEF Frames
  <2>5. QED
    BY <2>1, <2>2, <2>3, <2>4
<1>6. OrderInv'
  <2>1. ASSUME NEW j \in 1 .. Len(Line'), NEW k \in 1 .. Len(Line'), j < k,
               Line'[j].dir = Line'[k].dir
        PROVE  Line'[j].ts < Line'[k].ts
    <3>1. j \in 1 .. Len(Line) /\ Line'[j] = Line[j]
      BY <1>2, <1>4, <2>1
    <3>2. CASE k \in 1 .. Len(Line)
      BY <1>4, <2>1, <3>1, <3>2 DEF WireInv, OrderInv
    <3>3. CASE k \notin 1 .. Len(Line)
      <4>1. Line'[k] = f
        BY <1>2, <1>4, <3>3
      <4>2. Line[j].dir = d
        BY <1>1, <2>1, <3>1, <4>1
      <4>3. QED
        BY <3>1, <4>1, <4>2 DEF WireInv, OrderInv
    <3>4. QED
      BY <3>2, <3>3
  <2>2. ASSUME NEW e \in {"c2s", "s2c"}, Of(e)' # Nothing, NEW k \in 1 .. Len(Line'), Line'[k].dir = e
        PROVE  Line'[k].ts < Of(e)'.ts
    <3>1. e # d /\ Of(e)' = Of(e)
      BY <2>2
    <3>2. k \in 1 .. Len(Line) /\ Line'[k] = Line[k]
      BY <1>1, <1>2, <1>4, <2>2, <3>1
    <3>3. QED
      BY <2>2, <3>1, <3>2 DEF WireInv, OrderInv
  <2>3. QED
    BY <2>1, <2>2 DEF OrderInv
<1>7. QED
  BY <1>3, <1>5, <1>6, FewerKeepLinks DEF WireInv

LEMMA AskStep ==
  ASSUME WireInv, FreshIds, NEW m \in Methods \ {"none"}, NEW id \in Ids,
         ForwardRequest(m, id) \/ ForwardServerRequest(id)
  PROVE  WireInv'
<1>1. CASE ForwardRequest(m, id)
  <2> DEFINE f == Frame("c2s", m, id, FALSE, "plain", clock, 0)
  <2>1. f \in Taps /\ f.ts = clock /\ f.dir = "c2s" /\ f.answers = 0 /\ f.method = m /\ f.body = "plain"
        /\ f.id = id /\ Request(f) /\ ~Response(f)
    BY DEF Frame, Taps, Bodies, WireInv, SeqInv, Request, Response
  <2>2. Takes("c2s", f) /\ clock' = clock + 1 /\ atServer' = atServer \cup {f} /\ atClient' = atClient
        /\ used' = used \cup {id} /\ id \notin used
    BY <1>1 DEF ForwardRequest, Takes, Of, Wire
  <2> HIDE DEF f
  <2>3. SeqInv' /\ Frames' = Frames \cup {f}
    BY <2>1, <2>2, TakenFrames DEF WireInv
  <2>4. OrderInv'
    BY <2>1, <2>2, TakeKeepsOrder DEF WireInv
  <2>5. ShapeInv' /\ LinkInv'
    BY <2>1, <2>2, <2>3, AskKeepsLinks DEF WireInv
  <2>6. Asks' = Asks \cup {f}
    BY <2>1, <2>2, <2>3 DEF Asks
  <2>7. NameInv'
    BY <2>1, <2>2, <2>3, <2>6 DEF WireInv, NameInv
  <2>8. QED
    BY <2>3, <2>4, <2>5, <2>7 DEF WireInv
<1>2. CASE ForwardServerRequest(id)
  <2> DEFINE f == Frame("s2c", "call", id, FALSE, "plain", clock, 0)
  <2>1. f \in Taps /\ f.ts = clock /\ f.dir = "s2c" /\ f.answers = 0 /\ f.method = "call" /\ f.body = "plain"
        /\ ~Request(f) /\ ~Response(f)
    BY DEF Frame, Taps, Bodies, Methods, WireInv, SeqInv, Request, Response
  <2>2. Takes("s2c", f) /\ clock' = clock + 1 /\ atServer' = atServer /\ atClient' = atClient \cup {f}
        /\ used' = used
    BY <1>2 DEF ForwardServerRequest, Takes, Of, Wire
  <2> HIDE DEF f
  <2>3. SeqInv' /\ Frames' = Frames \cup {f}
    BY <2>1, <2>2, TakenFrames DEF WireInv
  <2>4. OrderInv'
    BY <2>1, <2>2, TakeKeepsOrder DEF WireInv
  <2>5. ShapeInv' /\ LinkInv'
    BY <2>1, <2>2, <2>3, AskKeepsLinks DEF WireInv
  <2>6. Asks' = Asks
    BY <2>1, <2>2, <2>3 DEF Asks
  <2>7. NameInv'
    BY <2>1, <2>2, <2>3, <2>6 DEF WireInv, NameInv
  <2>8. QED
    BY <2>3, <2>4, <2>5, <2>7 DEF WireInv
<1>3. QED
  BY <1>1, <1>2

LEMMA AnswerStep ==
  ASSUME WireInv,
         \/ \E r \in atClient : ForwardAnswer(r)
         \/ \E r \in atServer, err \in BOOLEAN, b \in Bodies : ForwardResponse(r, err, b)
  PROVE  WireInv'
<1>1. ASSUME NEW r \in atClient, ForwardAnswer(r)
      PROVE  WireInv'
  <2> DEFINE f == Frame("c2s", "none", r.id, FALSE, "plain", clock, r.ts)
  <2>1. r \in Open /\ r \in Taps /\ r.dir = "s2c" /\ r.method # "none"
    BY DEF Open, WireInv, ShapeInv
  <2>2. f \in Taps /\ f.ts = clock /\ f.dir = "c2s" /\ f.answers = r.ts /\ f.id = r.id
        /\ f.method = "none" /\ f.body = "plain" /\ ~Request(f) /\ ~Response(f)
    BY <2>1 DEF Frame, Taps, Bodies, Methods, WireInv, SeqInv, Request, Response
  <2>3. Takes("c2s", f) /\ clock' = clock + 1 /\ atServer' = atServer /\ atClient' = atClient \ {r}
        /\ used' = used
    BY <1>1 DEF ForwardAnswer, Takes, Of, Wire
  <2> HIDE DEF f
  <2>4. SeqInv' /\ Frames' = Frames \cup {f}
    BY <2>2, <2>3, TakenFrames DEF WireInv
  <2>5. OrderInv'
    BY <2>2, <2>3, TakeKeepsOrder DEF WireInv
  <2>6. r \notin Open'
    BY <2>1, <2>3 DEF Open, WireInv, ShapeInv
  <2>7. ShapeInv' /\ LinkInv'
    BY <2>1, <2>2, <2>3, <2>4, <2>6, AnswerKeepsLinks DEF WireInv
  <2>8. Asks' = Asks
    BY <2>2, <2>3, <2>4 DEF Asks
  <2>9. NameInv'
    BY <2>2, <2>3, <2>4, <2>8 DEF WireInv, NameInv
  <2>10. QED
    BY <2>4, <2>5, <2>7, <2>9 DEF WireInv
<1>2. ASSUME NEW r \in atServer, NEW err \in BOOLEAN, NEW b \in Bodies, ForwardResponse(r, err, b)
      PROVE  WireInv'
  <2> DEFINE f == Frame("s2c", "none", r.id, err, b, clock, r.ts)
  <2>1. r \in Open /\ r \in Taps /\ r.dir = "c2s" /\ r.method # "none"
    BY DEF Open, WireInv, ShapeInv
  <2>2. f \in Taps /\ f.ts = clock /\ f.dir = "s2c" /\ f.answers = r.ts /\ f.id = r.id
        /\ f.method = "none" /\ ~Request(f) /\ Response(f)
    BY <2>1 DEF Frame, Taps, Bodies, Methods, WireInv, SeqInv, Request, Response
  <2>3. Takes("s2c", f) /\ clock' = clock + 1 /\ atServer' = atServer \ {r} /\ atClient' = atClient
        /\ used' = used
    BY <1>2 DEF ForwardResponse, Takes, Of, Wire
  <2> HIDE DEF f
  <2>4. SeqInv' /\ Frames' = Frames \cup {f}
    BY <2>2, <2>3, TakenFrames DEF WireInv
  <2>5. OrderInv'
    BY <2>2, <2>3, TakeKeepsOrder DEF WireInv
  <2>6. r \notin Open'
    BY <2>1, <2>3 DEF Open, WireInv, ShapeInv
  <2>7. ShapeInv' /\ LinkInv'
    BY <2>1, <2>2, <2>3, <2>4, <2>6, AnswerKeepsLinks DEF WireInv
  <2>8. Asks' \subseteq Asks
    BY <2>2, <2>3, <2>4 DEF Asks
  <2>9. r \in Asks /\ r.id \in used /\ \A q \in Asks : q.id = r.id => q = r
    BY <2>1 DEF Asks, Request, WireInv, NameInv
  <2>10. \A g \in Frames : Response(g) => g.id # r.id
    BY <2>1, <2>9 DEF WireInv, NameInv, LinkInv
  <2>11. NameInv'
    BY <2>2, <2>3, <2>4, <2>8, <2>9, <2>10 DEF WireInv, NameInv
  <2>12. QED
    BY <2>4, <2>5, <2>7, <2>11 DEF WireInv
<1>3. QED
  BY <1>1, <1>2

LEMMA WireStart == Init => WireInv
<1> SUFFICES ASSUME Init PROVE WireInv
  OBVIOUS
<1>1. queue = <<>> /\ drained = <<>> /\ c2sOwed = Nothing /\ s2cOwed = Nothing /\ clock = 1
      /\ atServer = {} /\ atClient = {}
  BY DEF Init, LoopInit
<1>2. Line \in Seq(Taps) /\ Len(Line) = 0 /\ SeqInv
  BY <1>1, EmptySeq, ConcatProperties DEF Line, SeqInv, Of
<1>3. Frames = {} /\ Open = {} /\ Asks = {}
  BY <1>1, <1>2 DEF Frames, Open, Asks
<1>4. QED
  BY <1>1, <1>2, <1>3 DEF WireInv, ShapeInv, LinkInv, NameInv, OrderInv, Of

LEMMA WireStep == FreshIds /\ WireInv /\ [Next]_vars => WireInv'
<1> SUFFICES ASSUME FreshIds, WireInv, [Next]_vars PROVE WireInv'
  OBVIOUS
<1>1. CASE UNCHANGED vars
  <2>1. UNCHANGED <<queue, drained, c2sOwed, s2cOwed, clock, used, atServer, atClient>>
    BY <1>1 DEF vars, loopVars, pumpVars
  <2>2. Line' = Line /\ Frames' = Frames /\ \A d \in {"c2s", "s2c"} : Of(d)' = Of(d)
    BY <2>1 DEF Line, Frames, Of
  <2>3. SeqInv' /\ OrderInv'
    BY <2>1, <2>2 DEF WireInv, SeqInv, OrderInv
  <2>4. QED
    BY <2>1, <2>2, <2>3, FewerKeepLinks DEF WireInv
<1>2. CASE C2sTap
  <2>1. /\ Of("c2s") # Nothing /\ Enqueue(Of("c2s")) /\ UNCHANGED drained /\ Of("c2s")' = Nothing
        /\ Of("s2c")' = Of("s2c") /\ UNCHANGED <<clock, atServer, atClient, used>>
    BY <1>2 DEF C2sTap, Of
  <2>2. QED
    BY <2>1, TapStep
<1>3. CASE S2cTap
  <2>1. /\ Of("s2c") # Nothing /\ Enqueue(Of("s2c")) /\ UNCHANGED drained /\ Of("s2c")' = Nothing
        /\ Of("c2s")' = Of("c2s") /\ UNCHANGED <<clock, atServer, atClient, used>>
    BY <1>3 DEF S2cTap, Of
  <2>2. QED
    BY <2>1, TapStep
<1>4. CASE Drain
  <2>1. HandleTap /\ UNCHANGED <<c2sOwed, s2cOwed, clock, used, atServer, atClient>>
    BY <1>4 DEF Drain, pumpVars
  <2>2. drained' \in Seq(Taps) /\ queue' \in Seq(Taps) /\ Line' = Line
    BY <2>1, DrainLine DEF WireInv
  <2>3. Frames' = Frames /\ \A d \in {"c2s", "s2c"} : Of(d)' = Of(d)
    BY <2>1, <2>2 DEF Frames, Of
  <2>4. SeqInv' /\ OrderInv'
    BY <2>1, <2>2, <2>3 DEF WireInv, SeqInv, OrderInv
  <2>5. QED
    BY <2>1, <2>3, <2>4, FewerKeepLinks DEF WireInv
<1>5. ASSUME NEW id \in Ids, ForwardServerRequest(id) PROVE WireInv'
  <2>1. "call" \in Methods \ {"none"}
    BY DEF Methods
  <2>2. QED
    BY <1>5, <2>1, AskStep
<1>6. QED
  BY <1>1, <1>2, <1>3, <1>4, <1>5, AskStep, AnswerStep DEF Next, Pump

-----------------------------------------------------------------------------
(* What is pinned.                                                         *)

Lists(f) == Opens("tools/list", f)

\* The tracker holds requests that have been drained.
TrackInv ==
  /\ tools = [i \in DOMAIN tools |-> tools[i]] /\ IsFiniteSet(DOMAIN tools)
  /\ \A i \in DOMAIN tools : \E j \in 1 .. Len(drained) :
       Lists(drained[j]) /\ drained[j].id = i /\ drained[j].ts = tools[i]

\* The tools/list requests drained after row j.
Later(j) == {i \in j + 1 .. Len(drained) : Lists(drained[i])}

\* A tools/list request is tracked until it is answered, or pushed out by as many others
\* as the tracker holds.
HeldInv ==
  \A j \in 1 .. Len(drained) : Lists(drained[j]) =>
    \/ \E k \in 1 .. Len(drained) : drained[k].answers = drained[j].ts
    \/ drained[j].id \in DOMAIN tools /\ tools[drained[j].id] = drained[j].ts
    \/ Cardinality(Later(j)) >= TrackCap

PinInv == pinned \in Seq(Taps) /\ PinsAreAdvertisements

RecordInv == TrackInv /\ HeldInv /\ PinInv

\* What a drain of f does to what has been drained.
Drains(f) ==
  /\ f \in Frames /\ f \in Taps
  /\ \A j \in 1 .. Len(drained) :
       /\ drained[j] \in Frames
       /\ drained[j].dir = f.dir => drained[j].ts < f.ts
  /\ drained' \in Seq(Taps) /\ Len(drained') = Len(drained) + 1
  /\ \A k \in 1 .. Len(drained) : drained'[k] = drained[k]
  /\ drained'[Len(drained) + 1] = f
  /\ tools' \in Tracked(tools, "tools/list", f)
  /\ pinned' = IF Answers(tools, f) /\ f.body = "tools" THEN Append(pinned, f) ELSE pinned

LEMMA DrainIs == ASSUME WireInv, HandleTap PROVE Drains(Head(queue))
<1> DEFINE f == Head(queue)
<1>1. /\ drained' \in Seq(Taps) /\ Len(drained') = Len(drained) + 1
      /\ \A k \in 1 .. Len(drained) : drained'[k] = drained[k]
      /\ drained'[Len(drained) + 1] = f
      /\ f = Line[Len(drained) + 1] /\ Len(drained) + 1 \in 1 .. Len(Line)
  BY DrainLine DEF WireInv
<1>2. /\ Frames \subseteq Taps /\ Len(drained) \in Nat
      /\ \A k \in 1 .. Len(drained) : Line[k] = drained[k] /\ drained[k] \in Frames
  BY LineOf DEF WireInv
<1>3. f \in Frames
  BY <1>1 DEF Frames
<1>4. \A j \in 1 .. Len(drained) : drained[j].dir = f.dir => drained[j].ts < f.ts
  BY <1>1, <1>2 DEF WireInv, OrderInv
<1>5. /\ tools' \in Tracked(tools, "tools/list", f)
      /\ pinned' = IF Answers(tools, f) /\ f.body = "tools" THEN Append(pinned, f) ELSE pinned
  BY DEF HandleTap
<1>6. QED
  BY <1>1, <1>2, <1>3, <1>4, <1>5 DEF Drains

\* A new entry takes the place of nothing, or of the oldest of a full tracker.
LEMMA NotedCases ==
  ASSUME NEW p, NEW f, NEW q \in Noted(p, f)
  PROVE  \E I \in SUBSET DOMAIN p :
           /\ q = [i \in I \cup {f.id} |-> IF i = f.id THEN f.ts ELSE p[i]]
           /\ \/ I = DOMAIN p
              \/ /\ f.id \notin DOMAIN p /\ Cardinality(DOMAIN p) >= TrackCap
                 /\ \E o \in DOMAIN p : I = DOMAIN p \ {o} /\ \A i \in DOMAIN p : p[o] <= p[i]
BY DEF Noted

LEMMA DrainKeepsTrack ==
  ASSUME WireInv, TrackInv, NEW f, Drains(f)
  PROVE  TrackInv'
<1>1. Len(drained) \in Nat /\ Len(drained) + 1 \in 1 .. Len(drained')
  BY LineOf DEF WireInv, Drains
<1>2. \A i \in DOMAIN tools : \E j \in 1 .. Len(drained') :
        Lists(drained'[j]) /\ drained'[j].id = i /\ drained'[j].ts = tools[i]
  BY <1>1 DEF TrackInv, Drains
<1>3. CASE Lists(f)
  <2>1. tools' \in Noted(tools, f)
    BY <1>3 DEF Drains, Tracked, Lists
  <2>2. PICK I \in SUBSET DOMAIN tools : tools' = [i \in I \cup {f.id} |-> IF i = f.id THEN f.ts ELSE tools[i]]
    BY <2>1, NotedCases
  <2>3. IsFiniteSet(DOMAIN tools')
    BY <2>2, FS_Subset, FS_AddElement DEF TrackInv
  <2>4. \A i \in DOMAIN tools' : \E j \in 1 .. Len(drained') :
          Lists(drained'[j]) /\ drained'[j].id = i /\ drained'[j].ts = tools'[i]
    BY <1>1, <1>2, <1>3, <2>2 DEF Drains
  <2>5. QED
    BY <2>2, <2>3, <2>4 DEF TrackInv
<1>4. CASE ~Lists(f) /\ Retires("tools/list", f)
  <2>1. tools' = [i \in DOMAIN tools \ {f.id} |-> tools[i]]
    BY <1>4 DEF Drains, Tracked, Lists, Kept
  <2>2. QED
    BY <1>2, <2>1, FS_Subset DEF TrackInv
<1>5. CASE ~Lists(f) /\ ~Retires("tools/list", f)
  <2>1. tools' = tools
    BY <1>5 DEF Drains, Tracked, Lists
  <2>2. QED
    BY <1>2, <2>1 DEF TrackInv
<1>6. QED
  BY <1>3, <1>4, <1>5

\* What is tracked under the id of a request is that request.
LEMMA TrackedIsAsked ==
  ASSUME WireInv, TrackInv, NEW f \in Frames, Response(f), f.id \in DOMAIN tools
  PROVE  tools[f.id] = f.answers /\ \E j \in 1 .. Len(drained) : Lists(drained[j]) /\ drained[j].ts = f.answers
<1>1. PICK j \in 1 .. Len(drained) : Lists(drained[j]) /\ drained[j].id = f.id /\ drained[j].ts = tools[f.id]
  BY DEF TrackInv
<1>2. drained[j] \in Asks
  BY <1>1, LineOf DEF WireInv, Asks, Lists, Opens
<1>3. f.answers = drained[j].ts
  BY <1>1, <1>2 DEF WireInv, NameInv
<1>4. QED
  BY <1>1, <1>3

\* The requests after j grow by f, if it is one.
LEMMA LaterGrows ==
  ASSUME WireInv, NEW f, Drains(f), NEW j \in 1 .. Len(drained)
  PROVE  /\ IsFiniteSet(Later(j)) /\ IsFiniteSet(Later(j)')
         /\ Cardinality(Later(j)) \in Nat /\ Cardinality(Later(j)') \in Nat
         /\ Cardinality(Later(j)) <= Cardinality(Later(j)')
         /\ Later(j)' = {i \in j + 1 .. Len(drained') : Lists(drained'[i])}
<1>1. Len(drained) \in Nat /\ Len(drained') = Len(drained) + 1
  BY LineOf DEF WireInv, Drains
<1>2. Later(j)' = {i \in j + 1 .. Len(drained') : Lists(drained'[i])}
  BY DEF Later
<1>3. IsFiniteSet(j + 1 .. Len(drained'))
  BY <1>1, FS_Interval
<1>4. Later(j) \subseteq Later(j)'
  BY <1>1, <1>2 DEF Later, Drains
<1>5. Later(j)' \subseteq j + 1 .. Len(drained')
  BY <1>2
<1>6. QED
  BY <1>2, <1>3, <1>4, <1>5, FS_Subset, FS_CardinalityType

\* Whoever is pushed out has been followed by as many as there are in the tracker.
LEMMA PushedOut ==
  ASSUME WireInv, TrackInv, NEW f, Drains(f), Lists(f), NEW j \in 1 .. Len(drained),
         Lists(drained[j]), drained[j].id \in DOMAIN tools,
         tools[drained[j].id] = drained[j].ts,
         \A i \in DOMAIN tools : tools[drained[j].id] <= tools[i],
         f.id \notin DOMAIN tools
  PROVE  Cardinality(DOMAIN tools) <= Cardinality(Later(j)')
<1> DEFINE o  == drained[j].id
           X  == (DOMAIN tools \ {o}) \cup {f.id}
           L  == Later(j)'
           g  == [i \in L |-> drained'[i].id]
           T  == {g[i] : i \in L}
<1>1. /\ L = {i \in j + 1 .. Len(drained') : Lists(drained'[i])} /\ IsFiniteSet(L)
      /\ Len(drained) \in Nat /\ Len(drained') = Len(drained) + 1
  BY LaterGrows, LineOf DEF WireInv, Drains
<1>2. IsFiniteSet(X) /\ Cardinality(X) = Cardinality(DOMAIN tools) /\ Cardinality(X) \in Nat
  <2>1. IsFiniteSet(DOMAIN tools) /\ Cardinality(DOMAIN tools) \in Nat
    BY FS_CardinalityType DEF TrackInv
  <2>2. IsFiniteSet(DOMAIN tools \ {o}) /\ Cardinality(DOMAIN tools \ {o}) = Cardinality(DOMAIN tools) - 1
    BY <2>1, FS_RemoveElement
  <2>3. f.id \notin DOMAIN tools \ {o}
    OBVIOUS
  <2>4. IsFiniteSet(X) /\ Cardinality(X) = Cardinality(DOMAIN tools \ {o}) + 1
    BY <2>2, <2>3, FS_AddElement
  <2>5. QED
    BY <2>1, <2>2, <2>4
<1>3. ASSUME NEW i \in DOMAIN tools \ {o} PROVE i \in T
  <2>1. PICK k \in 1 .. Len(drained) : Lists(drained[k]) /\ drained[k].id = i /\ drained[k].ts = tools[i]
    BY DEF TrackInv
  <2>2. drained[j].ts <= drained[k].ts /\ drained[j].dir = "c2s" /\ drained[k].dir = "c2s" /\ k # j
    BY <1>3, <2>1 DEF Lists, Opens, Request
  <2>3. /\ Line[j] = drained[j] /\ Line[k] = drained[k] /\ j \in 1 .. Len(Line) /\ k \in 1 .. Len(Line)
        /\ drained[j].ts \in Nat /\ drained[k].ts \in Nat
    <3>1. drained[j] \in Taps /\ drained[k] \in Taps
      BY LineOf DEF WireInv
    <3>2. Line[j] = drained[j] /\ Line[k] = drained[k] /\ j \in 1 .. Len(Line) /\ k \in 1 .. Len(Line)
      BY LineOf DEF WireInv
    <3>3. QED
      BY <3>1, <3>2 DEF Taps
  <2>4. j < k
    BY <2>2, <2>3 DEF WireInv, OrderInv
  <2>5. k \in L /\ g[k] = i
    BY <1>1, <2>1, <2>4 DEF Drains
  <2>6. QED
    BY <2>5
<1>4. f.id \in T
  <2>1. Len(drained') \in L /\ drained'[Len(drained')] = f
    BY <1>1 DEF Drains
  <2>2. g[Len(drained')] = f.id
    BY <2>1
  <2>3. QED
    BY <2>1, <2>2
<1>5. X \subseteq T
  BY <1>3, <1>4
<1>6. IsFiniteSet(T) /\ Cardinality(T) <= Cardinality(L)
  <2>1. g \in Surjection(L, T)
    BY DEF Surjection
  <2>2. QED
    BY <1>1, <2>1, FS_Surjection
<1>7. Cardinality(X) <= Cardinality(T) /\ Cardinality(T) \in Nat /\ Cardinality(L) \in Nat
  BY <1>1, <1>5, <1>6, FS_Subset, FS_CardinalityType
<1>8. QED
  BY <1>2, <1>6, <1>7

LEMMA DrainKeepsHeld ==
  ASSUME WireInv, TrackInv, HeldInv, NEW f, Drains(f)
  PROVE  HeldInv'
<1> SUFFICES ASSUME NEW j \in 1 .. Len(drained'), Lists(drained'[j])
             PROVE  \/ \E k \in 1 .. Len(drained') : drained'[k].answers = drained'[j].ts
                    \/ drained'[j].id \in DOMAIN tools' /\ tools'[drained'[j].id] = drained'[j].ts
                    \/ Cardinality(Later(j)') >= TrackCap
  BY DEF HeldInv
<1>1. Len(drained) \in Nat /\ Len(drained') = Len(drained) + 1 /\ TrackCap \in Nat
  BY LineOf, StorageLoopAssumption DEF WireInv, Drains
<1>2. CASE j = Len(drained) + 1
  <2>1. drained'[j] = f /\ Lists(f)
    BY <1>2 DEF Drains
  <2>2. tools' \in Noted(tools, f)
    BY <2>1 DEF Drains, Tracked, Lists
  <2>3. PICK I \in SUBSET DOMAIN tools :
          /\ tools' = [i \in I \cup {f.id} |-> IF i = f.id THEN f.ts ELSE tools[i]]
          /\ \/ I = DOMAIN tools
             \/ /\ f.id \notin DOMAIN tools /\ Cardinality(DOMAIN tools) >= TrackCap
                /\ \E o \in DOMAIN tools : /\ I = DOMAIN tools \ {o}
                                           /\ \A i \in DOMAIN tools : tools[o] <= tools[i]
    BY <2>2, NotedCases
  <2>4. f.id \in DOMAIN tools' /\ tools'[f.id] = f.ts
    BY <2>3
  <2>5. QED
    BY <2>1, <2>4
<1>3. CASE j \in 1 .. Len(drained)
  <2> DEFINE r == drained[j]
  <2>1. drained'[j] = r /\ Lists(r) /\ r \in Frames /\ r \in Asks
    BY <1>3, LineOf DEF Drains, WireInv, Asks, Lists, Opens
  <2>2. CASE \E k \in 1 .. Len(drained) : drained[k].answers = r.ts
    BY <1>1, <2>1, <2>2 DEF Drains
  <2>3. CASE Cardinality(Later(j)) >= TrackCap
    BY <1>1, <1>3, <2>3, LaterGrows
  <2>4. CASE r.id \in DOMAIN tools /\ tools[r.id] = r.ts
    <3>1. Request(f) => f.id # r.id
      <4>1. ASSUME Request(f), f.id = r.id PROVE FALSE
        <5>1. f \in Asks /\ f = r
          BY <2>1, <4>1 DEF Drains, Asks, WireInv, NameInv
        <5>2. r.ts < r.ts /\ r.ts \in Nat
          BY <1>3, <5>1, LineOf DEF Drains, WireInv, Taps
        <5>3. QED
          BY <5>2
      <4>2. QED
        BY <4>1
    <3>2. CASE Lists(f)
      <4>1. tools' \in Noted(tools, f) /\ f.id # r.id
        BY <3>1, <3>2 DEF Drains, Tracked, Lists, Opens
      <4>2. PICK I \in SUBSET DOMAIN tools :
              /\ tools' = [i \in I \cup {f.id} |-> IF i = f.id THEN f.ts ELSE tools[i]]
              /\ \/ I = DOMAIN tools
                 \/ /\ f.id \notin DOMAIN tools /\ Cardinality(DOMAIN tools) >= TrackCap
                    /\ \E o \in DOMAIN tools : /\ I = DOMAIN tools \ {o}
                                               /\ \A i \in DOMAIN tools : tools[o] <= tools[i]
        BY <4>1, NotedCases
      <4>3. CASE r.id \in I
        <5>1. r.id \in DOMAIN tools' /\ tools'[r.id] = tools[r.id]
          BY <4>1, <4>2, <4>3
        <5>2. QED
          BY <2>1, <2>4, <5>1
      <4>4. CASE r.id \notin I
        <5>1. /\ f.id \notin DOMAIN tools /\ Cardinality(DOMAIN tools) >= TrackCap
              /\ \A i \in DOMAIN tools : tools[r.id] <= tools[i]
          BY <2>4, <4>2, <4>4
        <5>2. Cardinality(DOMAIN tools) <= Cardinality(Later(j)')
          BY <1>3, <2>1, <2>4, <3>2, <5>1, PushedOut
        <5>3. Cardinality(DOMAIN tools) \in Nat /\ Cardinality(Later(j)') \in Nat
          BY <1>3, LaterGrows, FS_CardinalityType DEF TrackInv
        <5>4. QED
          BY <1>1, <5>1, <5>2, <5>3
      <4>5. QED
        BY <4>3, <4>4
    <3>3. CASE ~Lists(f) /\ Retires("tools/list", f)
      <4>1. tools' = [i \in DOMAIN tools \ {f.id} |-> tools[i]]
        BY <3>3 DEF Drains, Tracked, Lists, Kept
      <4>2. CASE f.id # r.id
        BY <2>1, <2>4, <4>1, <4>2
      <4>3. CASE f.id = r.id
        <5>1. Response(f)
          BY <3>1, <3>3, <4>3 DEF Retires
        <5>2. f.answers = r.ts
          BY <2>1, <4>3, <5>1 DEF Drains, WireInv, NameInv
        <5>3. QED
          BY <1>1, <2>1, <5>2 DEF Drains
      <4>4. QED
        BY <4>2, <4>3
    <3>4. CASE ~Lists(f) /\ ~Retires("tools/list", f)
      <4>1. tools' = tools
        BY <3>4 DEF Drains, Tracked, Lists
      <4>2. QED
        BY <2>1, <2>4, <4>1
    <3>5. QED
      BY <3>2, <3>3, <3>4
  <2>5. QED
    BY <1>3, <2>1, <2>2, <2>3, <2>4 DEF HeldInv
<1>4. QED
  BY <1>1, <1>2, <1>3

LEMMA DrainKeepsPins ==
  ASSUME WireInv, TrackInv, HeldInv, PinInv, NEW f, Drains(f)
  PROVE  PinInv'
<1>1. Len(drained) \in Nat /\ Len(drained') = Len(drained) + 1 /\ DOMAIN drained' = 1 .. Len(drained')
      /\ DOMAIN drained = 1 .. Len(drained)
  BY LineOf, LenProperties DEF WireInv, Drains, SeqInv
<1>2. /\ pinned' \in Seq(Taps) /\ \A l \in DOMAIN pinned : l \in DOMAIN pinned' /\ pinned'[l] = pinned[l]
      /\ \A l \in DOMAIN pinned' : l \in DOMAIN pinned \/ (pinned'[l] = f /\ Answers(tools, f) /\ f.body = "tools")
      /\ Answers(tools, f) /\ f.body = "tools" => \E l \in DOMAIN pinned' : pinned'[l] = f
  <2>1. pinned \in Seq(Taps) /\ f \in Taps /\ DOMAIN pinned = 1 .. Len(pinned) /\ Len(pinned) \in Nat
    BY LenProperties DEF PinInv, Drains
  <2>2. CASE Answers(tools, f) /\ f.body = "tools"
    <3>1. /\ pinned' = Append(pinned, f) /\ pinned' \in Seq(Taps) /\ Len(pinned') = Len(pinned) + 1
          /\ \A l \in 1 .. Len(pinned) : pinned'[l] = pinned[l]
          /\ pinned'[Len(pinned) + 1] = f
      BY <2>1, <2>2, AppendProperties DEF Drains
    <3>2. DOMAIN pinned' = 1 .. Len(pinned')
      BY <3>1, LenProperties
    <3>3. QED
      BY <2>1, <2>2, <3>1, <3>2
  <2>3. CASE ~(Answers(tools, f) /\ f.body = "tools")
    <3>1. pinned' = pinned
      BY <2>3 DEF Drains
    <3>2. QED
      BY <2>1, <2>3, <3>1
  <2>4. QED
    BY <2>2, <2>3
<1>3. OnlyAdvertisementsPinned'
  <2> SUFFICES ASSUME NEW l \in DOMAIN pinned' 
               PROVE  \E j \in DOMAIN drained' : /\ drained'[j].ts = pinned'[l].answers
                                                 /\ drained'[j].method = "tools/list"
    BY DEF OnlyAdvertisementsPinned, Advertisement
  <2>1. CASE l \in DOMAIN pinned
    <3>1. PICK j \in 1 .. Len(drained) : drained[j].ts = pinned[l].answers /\ drained[j].method = "tools/list"
      BY <1>1, <2>1 DEF PinInv, PinsAreAdvertisements, OnlyAdvertisementsPinned, Advertisement
    <3>2. j \in DOMAIN drained' /\ drained'[j] = drained[j] /\ pinned'[l] = pinned[l]
      BY <1>1, <1>2, <2>1, <3>1 DEF Drains
    <3>3. QED
      BY <3>1, <3>2
  <2>2. CASE l \notin DOMAIN pinned
    <3>1. pinned'[l] = f /\ Answers(tools, f)
      BY <1>2, <2>2
    <3>2. PICK j \in 1 .. Len(drained) : Lists(drained[j]) /\ drained[j].ts = f.answers
      BY <3>1, TrackedIsAsked DEF Answers, Drains
    <3>3. j \in DOMAIN drained' /\ drained'[j] = drained[j]
      BY <1>1, <3>2 DEF Drains
    <3>4. QED
      BY <3>1, <3>2, <3>3 DEF Lists, Opens
  <2>3. QED
    BY <2>1, <2>2
<1>4. AdvertisementsPinned'
  <2> SUFFICES ASSUME NEW j \in DOMAIN drained', NEW k \in DOMAIN drained', j < k,
                      drained'[j].ts = drained'[k].answers, drained'[j].method = "tools/list",
                      drained'[k].body = "tools", ~drained'[k].err
               PROVE  \/ \E l \in DOMAIN pinned' : pinned'[l] = drained'[k]
                      \/ Cardinality({i \in j + 1 .. k : Opens("tools/list", drained'[i])}) >= TrackCap
    BY DEF AdvertisementsPinned, Asked
  <2>1. j \in 1 .. Len(drained) /\ drained'[j] = drained[j] /\ drained[j] \in Frames /\ drained[j] \in Taps
    BY <1>1, LineOf DEF Drains, WireInv
  <2>2. CASE k \in 1 .. Len(drained)
    <3>1. drained'[k] = drained[k] /\ \A i \in j + 1 .. k : drained'[i] = drained[i]
      BY <1>1, <2>1, <2>2 DEF Drains
    <3>2. {i \in j + 1 .. k : Opens("tools/list", drained'[i])} = {i \in j + 1 .. k : Opens("tools/list", drained[i])}
      BY <3>1
    <3>3. \/ \E l \in DOMAIN pinned : pinned[l] = drained[k]
          \/ Cardinality({i \in j + 1 .. k : Opens("tools/list", drained[i])}) >= TrackCap
      BY <1>1, <2>1, <2>2, <3>1 DEF PinInv, PinsAreAdvertisements, AdvertisementsPinned, Asked
    <3>4. QED
      BY <1>2, <3>1, <3>2, <3>3
  <2>3. CASE k = Len(drained) + 1
    <3>1. drained'[k] = f /\ f \in Frames /\ f \in Taps
      BY <2>3 DEF Drains
    <3>2. f.answers = drained[j].ts /\ f.id = drained[j].id /\ f.dir # drained[j].dir /\ f.method = "none"
      <4>1. 1 <= drained[j].ts /\ drained[j].ts \in Nat
        BY <2>1 DEF WireInv, ShapeInv, Taps
      <4>2. QED
        BY <2>1, <3>1, <4>1 DEF WireInv, LinkInv, ShapeInv
    <3>3. Response(f) /\ Lists(drained[j])
      BY <2>1, <3>1, <3>2 DEF Response, Lists, Opens, Request, Taps, WireInv, ShapeInv
    <3>4. CASE \E i \in 1 .. Len(drained) : drained[i].answers = drained[j].ts
      <4>1. PICK i \in 1 .. Len(drained) : drained[i].answers = drained[j].ts
        BY <3>4
      <4>2. drained[i] = f
        <5>1. drained[i] \in Frames
          BY LineOf DEF WireInv
        <5>2. drained[j].ts # 0
          <6>1. 1 <= drained[j].ts
            BY <2>1 DEF WireInv, ShapeInv
          <6>2. QED
            BY <6>1
        <5>3. QED
          BY <3>1, <3>2, <4>1, <5>1, <5>2 DEF WireInv, LinkInv
      <4>3. f.ts < f.ts /\ f.ts \in Nat
        BY <3>1, <4>1, <4>2 DEF Drains, Taps
      <4>4. QED
        BY <4>3
    <3>5. CASE drained[j].id \in DOMAIN tools
      <4>1. Answers(tools, f)
        BY <2>3, <3>1, <3>2, <3>3, <3>5 DEF Answers
      <4>2. QED
        BY <1>2, <3>1, <4>1
    <3>6. CASE Cardinality(Later(j)) >= TrackCap
      <4>1. Later(j)' = {i \in j + 1 .. k : Opens("tools/list", drained'[i])}
        BY <1>1, <2>1, <2>3, LaterGrows DEF Lists
      <4>2. /\ Cardinality(Later(j)) <= Cardinality(Later(j)')
            /\ Cardinality(Later(j)) \in Nat /\ Cardinality(Later(j)') \in Nat
        BY <2>1, LaterGrows
      <4>3. Cardinality(Later(j)') >= TrackCap
        BY <3>6, <4>2, StorageLoopAssumption
      <4>4. QED
        BY <4>1, <4>3
    <3>7. QED
      BY <2>1, <3>3, <3>4, <3>5, <3>6 DEF HeldInv
  <2>4. QED
    BY <1>1, <2>2, <2>3
<1>5. QED
  BY <1>2, <1>3, <1>4 DEF PinInv, PinsAreAdvertisements

LEMMA RecordStep == WireInv /\ RecordInv /\ [Next]_vars => RecordInv'
<1> SUFFICES ASSUME WireInv, RecordInv, [Next]_vars PROVE RecordInv'
  OBVIOUS
<1>1. CASE HandleTap
  BY <1>1, DrainIs, DrainKeepsTrack, DrainKeepsHeld, DrainKeepsPins DEF RecordInv
<1>2. CASE UNCHANGED <<drained, tools, pinned>>
  <2>1. \A j \in Nat : Later(j)' = Later(j)
    BY <1>2 DEF Later
  <2>2. TrackInv'
    BY <1>2 DEF RecordInv, TrackInv
  <2>3. HeldInv'
    BY <1>2, <2>1 DEF RecordInv, HeldInv
  <2>4. PinInv'
    BY <1>2 DEF RecordInv, PinInv, PinsAreAdvertisements, OnlyAdvertisementsPinned,
                AdvertisementsPinned, Advertisement, Asked
  <2>5. QED
    BY <2>2, <2>3, <2>4 DEF RecordInv
<1>3. HandleTap \/ UNCHANGED <<drained, tools, pinned>>
  BY DEF Next, Pump, Drain, vars, loopVars, C2sTap, S2cTap, ForwardRequest, ForwardAnswer,
         ForwardResponse, ForwardServerRequest
<1>4. QED
  BY <1>1, <1>2, <1>3

LEMMA RecordStart == Init => RecordInv
<1> SUFFICES ASSUME Init PROVE RecordInv
  OBVIOUS
<1>1. drained = <<>> /\ pinned = <<>> /\ tools = [i \in {} |-> 0]
  BY DEF Init, LoopInit
<1>2. Len(drained) = 0 /\ DOMAIN drained = {} /\ DOMAIN pinned = {} /\ DOMAIN tools = {}
      /\ pinned \in Seq(Taps)
  BY <1>1
<1>3. TrackInv
  BY <1>1, <1>2, FS_EmptySet DEF TrackInv
<1>4. HeldInv
  BY <1>2 DEF HeldInv
<1>5. PinInv
  BY <1>2 DEF PinInv, PinsAreAdvertisements, OnlyAdvertisementsPinned, AdvertisementsPinned
<1>6. QED
  BY <1>3, <1>4, <1>5 DEF RecordInv

\* What is fingerprinted is the tool advertisements, and each that was drained after its
\* request, unless as many others as the tracker holds were asked for in between:
\* for a client that never uses an id twice.
THEOREM AdvertisementsArePinned ==
  ASSUME FreshIds PROVE Spec => []PinsAreAdvertisements
<1>1. RecordInv => PinsAreAdvertisements
  BY DEF RecordInv, PinInv
<1>2. Init => WireInv /\ RecordInv
  BY WireStart, RecordStart
<1>3. WireInv /\ RecordInv /\ [Next]_vars => WireInv' /\ RecordInv'
  BY WireStep, RecordStep
<1>4. QED
  BY <1>1, <1>2, <1>3, PTL DEF Spec

-----------------------------------------------------------------------------
(* The rows, and the reads that join two of them.                          *)

\* The rows are what has been drained, from the first, and all of it while the session is.
RowsInv ==
  /\ messages \in Seq(Taps) /\ Len(messages) <= Len(drained)
  /\ \A k \in 1 .. Len(messages) : messages[k] = drained[k]
  /\ exists \in BOOLEAN
  /\ exists => Len(messages) = Len(drained)

LEMMA ReadsAreSteps == [ReadsNext]_allVars => [Next]_vars
BY DEF ReadsNext, allVars, Next, Insert, InsertEvent, DeleteSession, StartList, StartExport,
       CountRows, ReadPage, ExportMessages

\* What is inserted is what is drained.
LEMMA InsertIs ==
  ASSUME WireInv, RowsInv, Insert, exists
  PROVE  /\ messages' = Append(messages, Head(queue)) /\ Head(queue) \in Taps
         /\ messages' \in Seq(Taps) /\ Len(messages') = Len(messages) + 1
         /\ \A k \in 1 .. Len(messages) : messages'[k] = messages[k]
         /\ messages'[Len(messages) + 1] = Head(queue)
         /\ Drains(Head(queue))
<1>1. Drains(Head(queue))
  BY DrainIs DEF Insert, Drain
<1>2. messages' = Append(messages, Head(queue)) /\ Head(queue) \in Taps
  BY <1>1 DEF Insert, Drains
<1>3. QED
  BY <1>1, <1>2, AppendProperties, LenProperties DEF RowsInv

LEMMA RowsStep == WireInv /\ RowsInv /\ [ReadsNext]_allVars => RowsInv'
<1> SUFFICES ASSUME WireInv, RowsInv, [ReadsNext]_allVars PROVE RowsInv'
  OBVIOUS
<1>1. CASE Insert
  <2>1. Drains(Head(queue)) /\ Len(drained) \in Nat /\ Len(messages) \in Nat /\ exists' = exists
    BY <1>1, DrainIs, LineOf, LenProperties DEF Insert, Drain, WireInv, RowsInv
  <2>2. CASE exists
    BY <1>1, <2>1, <2>2, InsertIs DEF RowsInv, Drains
  <2>3. CASE ~exists
    <3>1. messages' = messages
      BY <1>1, <2>3 DEF Insert
    <3>2. QED
      BY <2>1, <2>3, <3>1 DEF RowsInv, Drains
  <2>4. QED
    BY <2>2, <2>3
<1>2. CASE UNCHANGED <<drained, messages>> /\ (exists' = exists \/ exists' = FALSE)
  <2>1. messages' = messages /\ drained' = drained
    BY <1>2
  <2>2. CASE exists' = exists
    BY <2>1, <2>2 DEF RowsInv
  <2>3. CASE exists' = FALSE
    BY <2>1, <2>3 DEF RowsInv
  <2>4. QED
    BY <1>2, <2>2, <2>3
<1>3. CASE Pump /\ UNCHANGED readVars
  <2>1. drained' = drained
    BY <1>3 DEF Pump, loopVars, C2sTap, S2cTap, ForwardRequest, ForwardAnswer,
                ForwardResponse, ForwardServerRequest
  <2>2. QED
    BY <1>2, <1>3, <2>1 DEF readVars
<1>4. QED
  BY <1>1, <1>2, <1>3 DEF ReadsNext, allVars, readVars, vars, loopVars, InsertEvent, DeleteSession,
     StartList, StartExport, CountRows, ReadPage, ExportMessages

\* What the rows say of requests and their answers.
LEMMA RowsAre ==
  ASSUME WireInv, RowsInv
  PROVE  /\ rows \in Seq(Taps) /\ Len(rows) \in Nat /\ DOMAIN rows = 1 .. Len(rows)
         /\ \A k \in DOMAIN rows : rows[k] \in Frames /\ rows[k] \in Taps
         /\ \A j, k \in DOMAIN rows : rows[j] = rows[k] => j = k
<1>1. rows = Committed(messages)
  BY DEF rows, Messages, Matching
<1>2. rows = messages \/ rows = <<>>
  BY <1>1 DEF Committed
<1>3. rows \in Seq(Taps) /\ Len(rows) <= Len(messages) /\ \A k \in 1 .. Len(rows) : rows[k] = messages[k]
  <2>1. messages \in Seq(Taps) /\ Len(messages) \in Nat
    BY LenProperties DEF RowsInv
  <2>2. CASE rows = messages
    BY <2>1, <2>2
  <2>3. CASE rows = <<>>
    BY <2>1, <2>3, EmptySeq
  <2>4. QED
    BY <1>2, <2>2, <2>3
<1>4. Len(rows) \in Nat /\ DOMAIN rows = 1 .. Len(rows) /\ Len(messages) \in Nat
  BY <1>3, LenProperties DEF RowsInv
<1>5. ASSUME NEW k \in DOMAIN rows
      PROVE  /\ k \in 1 .. Len(Line) /\ rows[k] = Line[k] /\ rows[k] \in Frames /\ rows[k] \in Taps
  <2>1. k \in 1 .. Len(messages) /\ rows[k] = drained[k] /\ k \in 1 .. Len(drained)
    BY <1>3, <1>4, LineOf DEF RowsInv, WireInv
  <2>2. QED
    BY <2>1, LineOf DEF WireInv
<1>6. ASSUME NEW j \in DOMAIN rows, NEW k \in DOMAIN rows, rows[j] = rows[k], j # k PROVE FALSE
  <2>1. rows[j].ts \in Nat /\ rows[k].ts \in Nat
    BY <1>5 DEF Taps
  <2>2. j < k \/ k < j
    BY <1>4, <1>6
  <2>3. rows[j].ts < rows[k].ts \/ rows[k].ts < rows[j].ts
    BY <1>5, <1>6, <2>2 DEF WireInv, OrderInv
  <2>4. QED
    BY <1>6, <2>1, <2>3
<1>7. QED
  BY <1>3, <1>4, <1>5, <1>6

\* A row answers a request of the client's just if it is a response under its id.
LEMMA AnswerIs ==
  ASSUME WireInv, RowsInv, NEW j \in Requests, NEW k \in DOMAIN rows
  PROVE  /\ rows[k].answers = rows[j].ts <=> Response(rows[k]) /\ rows[k].id = rows[j].id
         /\ rows[k].answers = rows[j].ts => rows[k].ts >= rows[j].ts
<1> DEFINE a == rows[k]
           r == rows[j]
<1>1. /\ j \in DOMAIN rows /\ Request(r)
      /\ a \in Frames /\ a \in Taps /\ r \in Frames /\ r \in Taps
  BY RowsAre DEF Requests
<1>2. r \in Asks
  BY <1>1 DEF Asks
<1>3. /\ a.ts \in Nat /\ r.ts \in Nat /\ a.answers \in Nat /\ a.answers < a.ts /\ 1 <= r.ts
      /\ a.method = "none" <=> a.answers # 0
  BY <1>1 DEF WireInv, ShapeInv, Taps
<1>4. Response(a) /\ a.id = r.id => a.answers = r.ts
  BY <1>1, <1>2 DEF WireInv, NameInv
<1>5. ASSUME a.answers = r.ts PROVE Response(a) /\ a.id = r.id /\ a.ts >= r.ts
  <2>1. a.id = r.id /\ a.dir # r.dir
    BY <1>1, <1>5 DEF WireInv, LinkInv
  <2>2. a.dir = "s2c"
    BY <1>1, <2>1 DEF Taps, Request
  <2>3. a.answers # 0 /\ a.ts >= r.ts
    BY <1>3, <1>5
  <2>4. QED
    BY <1>3, <2>1, <2>2, <2>3 DEF Response
<1>6. QED
  BY <1>4, <1>5

\* A request has one answer at most.
LEMMA OneAnswer ==
  ASSUME WireInv, RowsInv, NEW j \in Requests, NEW k \in DOMAIN rows, NEW l \in DOMAIN rows,
         rows[k].answers = rows[j].ts, rows[l].answers = rows[j].ts
  PROVE  k = l
<1>1. j \in DOMAIN rows /\ rows[j] \in Frames /\ rows[k] \in Frames /\ rows[l] \in Frames
  BY RowsAre DEF Requests
<1>2. 1 <= rows[j].ts
  BY <1>1 DEF WireInv, ShapeInv
<1>3. rows[k].answers # 0
  BY <1>2
<1>4. rows[k] = rows[l]
  BY <1>1, <1>3 DEF WireInv, LinkInv
<1>5. QED
  BY <1>4, RowsAre

LEMMA EarliestOfOne ==
  ASSUME NEW k \in Nat
  PROVE  Earliest({k}) = k
<1>1. \A l \in {k} : rows[k].ts < rows[l].ts \/ (rows[k].ts = rows[l].ts /\ k <= l)
  OBVIOUS
<1>2. QED
  BY <1>1 DEF Earliest

LEMMA EarliestOfNone == Earliest({}) = 0
BY DEF Earliest

\* The greatest of some numbers below a bound.
LEMMA GreatestBelow ==
  ASSUME NEW c \in Nat, NEW T \in SUBSET (1 .. c), T # {}
  PROVE  \E x \in T : \A y \in T : y <= x
<1> DEFINE D == {c - x : x \in T}
<1>1. D \in SUBSET Nat /\ D # {}
  <2>1. \A x \in T : c - x \in Nat
    OBVIOUS
  <2>2. QED
    BY <2>1
<1>2. PICK z \in D : \A y \in D : ~ (<<y, z>> \in OpToRel(<, Nat))
  BY <1>1, NatLessThanWellFounded, WFMin
<1>3. PICK x \in T : z = c - x
  BY <1>2
<1>4. ASSUME NEW y \in T PROVE y <= x
  <2>1. c - y \in D /\ c - y \in Nat /\ c - x \in Nat
    OBVIOUS
  <2>2. ~ (c - y < c - x)
    BY <1>2, <1>3, <2>1 DEF OpToRel
  <2>3. x \in Nat /\ y \in Nat
    OBVIOUS
  <2>4. QED
    BY <2>2, <2>3
<1>5. QED
  BY <1>4

LEMMA LatencyMatches ==
  ASSUME WireInv, RowsInv
  PROVE  LatencyIsOfTheAnswer
<1> SUFFICES ASSUME NEW j \in Requests,
                    \A k \in DOMAIN rows :
                      rows[k].dir = "s2c" /\ rows[k].id = rows[j].id => Response(rows[k])
             PROVE  Paired(j) = AnswerTo(j)
  BY DEF LatencyIsOfTheAnswer
<1>1. ASSUME NEW k \in DOMAIN rows
      PROVE  rows[k].dir = "s2c" /\ rows[k].id = rows[j].id /\ rows[k].ts >= rows[j].ts
             <=> rows[k].answers = rows[j].ts
  BY AnswerIs DEF Response
<1>2. {k \in DOMAIN rows : rows[k].dir = "s2c" /\ rows[k].id = rows[j].id
                           /\ rows[k].ts >= rows[j].ts}
      = {k \in DOMAIN rows : rows[k].answers = rows[j].ts}
  BY <1>1
<1>3. QED
  BY <1>2 DEF Paired, AnswerTo

LEMMA LatestIsOne ==
  ASSUME WireInv, RowsInv, LatestRequest # 0
  PROVE  LatestRequest \in Requests
<1> DEFINE J == {j \in Requests : rows[j].method = "tools/list"}
<1>1. J # {}
  BY DEF LatestRequest
<1>2. Len(rows) \in Nat /\ J \in SUBSET (1 .. Len(rows))
  BY RowsAre DEF Requests
<1>3. \E j \in J : \A i \in J : i <= j
  <2> HIDE DEF J
  <2>1. QED
    BY <1>1, <1>2, GreatestBelow
<1>4. LatestRequest = CHOOSE j \in J : \A i \in J : i <= j
  BY <1>1 DEF LatestRequest
<1>5. LatestRequest \in J
  <2> HIDE DEF J
  <2>1. QED
    BY <1>3, <1>4
<1>6. QED
  BY <1>5

LEMMA CatalogMatches ==
  ASSUME WireInv, RowsInv
  PROVE  CatalogIsTheLatest
<1> SUFFICES ASSUME LatestRequest # 0
             PROVE  Catalog = IF AnswerTo(LatestRequest) # 0 /\ ~rows[AnswerTo(LatestRequest)].err
                                THEN AnswerTo(LatestRequest) ELSE 0
  BY DEF CatalogIsTheLatest
<1> DEFINE j == LatestRequest
           A == {k \in DOMAIN rows : rows[k].answers = rows[j].ts}
           C == {k \in DOMAIN rows : Response(rows[k]) /\ ~rows[k].err
                       /\ rows[k].id = rows[j].id /\ rows[k].ts >= rows[j].ts}
<1>1. j \in Requests /\ DOMAIN rows = 1 .. Len(rows) /\ Len(rows) \in Nat
  BY LatestIsOne, RowsAre
<1>2. Catalog = Earliest(C) /\ AnswerTo(j) = Earliest(A)
  BY DEF Catalog, AnswerTo
<1>3. C = {k \in A : ~rows[k].err}
  <2>1. ASSUME NEW k \in DOMAIN rows
        PROVE  (Response(rows[k]) /\ ~rows[k].err /\ rows[k].id = rows[j].id /\ rows[k].ts >= rows[j].ts)
               <=> (rows[k].answers = rows[j].ts /\ ~rows[k].err)
    BY <1>1, AnswerIs
  <2>2. QED
    BY <2>1
<1>4. CASE A = {}
  <2>1. C = {}
    BY <1>3, <1>4
  <2>2. QED
    BY <1>2, <1>4, <2>1, EarliestOfNone
<1>5. CASE A # {}
  <2>1. PICK a \in A : TRUE
    BY <1>5
  <2>2. a \in Nat /\ a # 0
    BY <1>1
  <2>3. A = {a}
    <3>1. ASSUME NEW k \in A PROVE k = a
      BY <1>1, OneAnswer
    <3>2. QED
      BY <3>1
  <2>4. AnswerTo(j) = a
    BY <1>2, <2>2, <2>3, EarliestOfOne
  <2>5. C = IF rows[a].err THEN {} ELSE {a}
    BY <1>3, <2>3
  <2>6. Catalog = IF rows[a].err THEN 0 ELSE a
    BY <1>2, <2>2, <2>5, EarliestOfOne, EarliestOfNone
  <2>7. QED
    BY <2>2, <2>4, <2>6
<1>6. QED
  BY <1>4, <1>5

\* The two reads that join a request with its answer join the right rows, in whatever
\* order the two pumps' taps were recorded: for a client that never uses an id twice.
THEOREM ReadsMatchAnswers ==
  ASSUME FreshIds PROVE ReadsSpec => []AnswersAreMatched
<1>1. ReadsInit => WireInv /\ RowsInv
  <2> SUFFICES ASSUME ReadsInit PROVE WireInv /\ RowsInv
    OBVIOUS
  <2>1. WireInv
    BY WireStart DEF ReadsInit
  <2>2. messages = <<>> /\ drained = <<>> /\ exists = TRUE
    BY DEF ReadsInit, Init, LoopInit
  <2>3. QED
    BY <2>1, <2>2 DEF RowsInv
<1>2. WireInv /\ RowsInv /\ [ReadsNext]_allVars => WireInv' /\ RowsInv'
  BY WireStep, RowsStep, ReadsAreSteps
<1>3. WireInv /\ RowsInv => AnswersAreMatched
  BY LatencyMatches, CatalogMatches DEF AnswersAreMatched
<1>4. QED
  BY <1>1, <1>2, <1>3, PTL DEF ReadsSpec

\* The same of what is pinned, for the specification the run checks.
THEOREM ReadAdvertisementsArePinned ==
  ASSUME FreshIds PROVE ReadsSpec => []PinsAreAdvertisements
<1>1. ReadsInit => WireInv /\ RecordInv
  BY WireStart, RecordStart DEF ReadsInit
<1>2. WireInv /\ RecordInv /\ [ReadsNext]_allVars => WireInv' /\ RecordInv'
  BY WireStep, RecordStep, ReadsAreSteps
<1>3. RecordInv => PinsAreAdvertisements
  BY DEF RecordInv, PinInv
<1>4. QED
  BY <1>1, <1>2, <1>3, PTL DEF ReadsSpec

-----------------------------------------------------------------------------
(* The rows of one direction: induction over the rows.                     *)

LEMMA ByInduction ==
  ASSUME NEW G, 0 \in G, \A n \in Nat : n \in G => n + 1 \in G
  PROVE  \A n \in Nat : n \in G
<1> DEFINE K == Nat \ G
<1> SUFFICES ASSUME K # {} PROVE FALSE
  OBVIOUS
<1>1. PICK k \in K : \A n \in K : ~ (<<n, k>> \in OpToRel(<, Nat))
  BY NatLessThanWellFounded, WFMin
<1>2. k # 0 /\ k - 1 \in Nat
  OBVIOUS
<1>3. k - 1 \in G
  <2>1. ASSUME k - 1 \in K PROVE FALSE
    <3>1. ~ (k - 1 < k)
      BY <1>1, <1>2, <2>1 DEF OpToRel
    <3>2. QED
      BY <1>2, <3>1
  <2>2. QED
    BY <1>2, <2>1
<1>4. k - 1 + 1 = k
  BY <1>2
<1>5. QED
  BY <1>2, <1>3, <1>4

\* m is what Matching makes of the first k rows of s.
More(s, d, n, t) == IF s[n].dir = d THEN Append(t, s[n]) ELSE t
Fits(m, s, d, k) ==
  m = [n \in 0 .. k |-> IF n = 0 THEN <<>>
                        ELSE IF s[n].dir = d THEN Append(m[n - 1], s[n])
                        ELSE m[n - 1]]

LEMMA FitsIs ==
  ASSUME NEW m, NEW s, NEW d, NEW k \in Nat, Fits(m, s, d, k)
  PROVE  m[0] = <<>> /\ \A n \in Nat : n + 1 <= k => m[n + 1] = More(s, d, n + 1, m[n])
<1> DEFINE g == [n \in 0 .. k |-> IF n = 0 THEN <<>>
                              ELSE IF s[n].dir = d THEN Append(m[n - 1], s[n])
                              ELSE m[n - 1]]
<1>1. m[0] = <<>>
  BY DEF Fits
<1>2. m = g
  BY DEF Fits
<1>3. \A n \in 0 .. k : g[n] = IF n = 0 THEN <<>>
                               ELSE IF s[n].dir = d THEN Append(m[n - 1], s[n])
                               ELSE m[n - 1]
  OBVIOUS
<1> HIDE DEF g
<1>4. ASSUME NEW n \in Nat, n + 1 <= k PROVE m[n + 1] = More(s, d, n + 1, m[n])
  <2>1. n + 1 \in 0 .. k /\ n + 1 # 0 /\ n + 1 - 1 = n
    BY <1>4
  <2>2. g[n + 1] = IF n + 1 = 0 THEN <<>>
                   ELSE IF s[n + 1].dir = d THEN Append(m[n + 1 - 1], s[n + 1])
                   ELSE m[n + 1 - 1]
    BY <1>3, <2>1
  <2>3. m[n + 1] = g[n + 1]
    BY <1>2
  <2>4. QED
    BY <2>1, <2>2, <2>3 DEF More
<1>5. QED
  BY <1>1, <1>4

LEMMA FitsExist ==
  ASSUME NEW s, NEW d, NEW k \in Nat
  PROVE  \E m : Fits(m, s, d, k)
<1> DEFINE G == {n \in Nat : \E m : Fits(m, s, d, n)}
<1>1. 0 \in G
  <2>1. Fits([i \in 0 .. 0 |-> <<>>], s, d, 0)
    BY DEF Fits
  <2>2. QED
    BY <2>1
<1>2. ASSUME NEW n \in Nat, n \in G PROVE n + 1 \in G
  <2>1. PICK m : Fits(m, s, d, n)
    BY <1>2
  <2>2. m[0] = <<>> /\ \A i \in Nat : i + 1 <= n => m[i + 1] = More(s, d, i + 1, m[i])
    BY <2>1, FitsIs
  <2> DEFINE g == [i \in 0 .. n + 1 |-> IF i <= n THEN m[i] ELSE More(s, d, n + 1, m[n])]
  <2>3. ASSUME NEW i \in 0 .. n + 1
        PROVE  g[i] = IF i = 0 THEN <<>> ELSE More(s, d, i, g[i - 1])
    <3>1. CASE i = 0
      BY <2>2, <3>1
    <3>2. CASE i # 0 /\ i <= n
      <4>1. i - 1 \in Nat /\ i - 1 <= n /\ i - 1 + 1 = i /\ i - 1 \in 0 .. n + 1
        BY <3>2
      <4>2. m[i] = More(s, d, i, m[i - 1])
        BY <2>2, <3>2, <4>1
      <4>3. QED
        BY <3>2, <4>1, <4>2
    <3>3. CASE i = n + 1
      <4>1. g[n + 1] = More(s, d, n + 1, m[n]) /\ g[n] = m[n] /\ n + 1 - 1 = n /\ n + 1 # 0
        OBVIOUS
      <4>2. QED
        BY <3>3, <4>1
    <3>4. QED
      BY <3>1, <3>2, <3>3
  <2>4. Fits(g, s, d, n + 1)
    <3>1. g = [i \in 0 .. n + 1 |-> IF i = 0 THEN <<>> ELSE More(s, d, i, g[i - 1])]
      BY <2>3
    <3>2. QED
      BY <3>1 DEF Fits, More
  <2>5. QED
    BY <2>4
<1>3. \A n \in Nat : n \in G
  <2> HIDE DEF G
  <2>1. QED
    BY <1>1, <1>2, ByInduction
<1>4. QED
  BY <1>3

\* What is made of the first rows does not depend on those that follow.
LEMMA FitsAgree ==
  ASSUME NEW s, NEW t, NEW d, NEW k \in Nat, NEW l \in Nat, k <= l, NEW m, NEW q,
         Fits(m, s, d, k), Fits(q, t, d, l), \A i \in 1 .. k : s[i] = t[i]
  PROVE  m[k] = q[k]
<1> DEFINE G == {n \in Nat : n <= k => m[n] = q[n]}
<1>1. /\ m[0] = <<>> /\ q[0] = <<>>
      /\ \A n \in Nat : n + 1 <= k => m[n + 1] = More(s, d, n + 1, m[n])
      /\ \A n \in Nat : n + 1 <= l => q[n + 1] = More(t, d, n + 1, q[n])
  BY FitsIs
<1>2. 0 \in G
  BY <1>1
<1>3. ASSUME NEW n \in Nat, n \in G PROVE n + 1 \in G
  <2>1. CASE n + 1 <= k
    <3>1. m[n] = q[n] /\ n + 1 <= l /\ s[n + 1] = t[n + 1]
      BY <1>3, <2>1
    <3>2. QED
      BY <1>1, <2>1, <3>1 DEF More
  <2>2. CASE ~(n + 1 <= k)
    BY <2>2
  <2>3. QED
    BY <2>1, <2>2
<1>4. k \in G
  <2> HIDE DEF G
  <2>1. QED
    BY <1>2, <1>3, ByInduction
<1>5. QED
  BY <1>4

LEMMA FitsTyped ==
  ASSUME NEW T, NEW s \in Seq(T), NEW d, NEW m, Fits(m, s, d, Len(s))
  PROVE  m[Len(s)] \in Seq(T)
<1> DEFINE G == {n \in Nat : n <= Len(s) => m[n] \in Seq(T)}
<1>1. Len(s) \in Nat
  BY LenProperties
<1>2. m[0] = <<>> /\ \A n \in Nat : n + 1 <= Len(s) => m[n + 1] = More(s, d, n + 1, m[n])
  BY <1>1, FitsIs
<1>3. 0 \in G
  BY <1>2, EmptySeq
<1>4. ASSUME NEW n \in Nat, n \in G PROVE n + 1 \in G
  <2>1. CASE n + 1 <= Len(s)
    <3>1. m[n] \in Seq(T) /\ n + 1 \in 1 .. Len(s)
      BY <1>1, <1>4, <2>1
    <3>2. s[n + 1] \in T
      BY <3>1, ElementOfSeq
    <3>3. Append(m[n], s[n + 1]) \in Seq(T)
      BY <3>1, <3>2, AppendProperties
    <3>4. m[n + 1] = More(s, d, n + 1, m[n])
      BY <1>2, <2>1
    <3>5. m[n + 1] \in Seq(T)
      BY <3>1, <3>3, <3>4 DEF More
    <3>6. QED
      BY <3>5
  <2>2. CASE ~(n + 1 <= Len(s))
    BY <2>2
  <2>3. QED
    BY <2>1, <2>2
<1>5. Len(s) \in G
  <2> HIDE DEF G
  <2>1. QED
    BY <1>1, <1>3, <1>4, ByInduction
<1>6. QED
  BY <1>1, <1>5

LEMMA MatchingFits ==
  ASSUME NEW T, NEW s \in Seq(T), NEW d, d # "any"
  PROVE  \E m : Fits(m, s, d, Len(s)) /\ Matching(s, d) = m[Len(s)]
<1> DEFINE m == CHOOSE f : f = [n \in 0 .. Len(s) |->
                                  IF n = 0 THEN <<>>
                                  ELSE IF s[n].dir = d THEN Append(f[n - 1], s[n])
                                  ELSE f[n - 1]]
<1>1. Matching(s, d) = m[Len(s)]
  BY DEF Matching
<1>2. m = CHOOSE f : Fits(f, s, d, Len(s))
  BY DEF Fits
<1>3. Len(s) \in Nat
  BY LenProperties
<1> HIDE DEF m
<1>4. Fits(m, s, d, Len(s))
  BY <1>2, <1>3, FitsExist
<1>5. QED
  BY <1>1, <1>4

\* One more row gives one more match, at the end, or none.
LEMMA MatchingGrows ==
  ASSUME NEW T, NEW s \in Seq(T), NEW r \in T, NEW d
  PROVE  /\ Matching(s, d) \in Seq(T)
         /\ Matching(Append(s, r), d) \in {Matching(s, d), Append(Matching(s, d), r)}
<1> DEFINE t == Append(s, r)
<1>1. /\ t \in Seq(T) /\ Len(t) = Len(s) + 1 /\ t[Len(s) + 1] = r
      /\ \A i \in 1 .. Len(s) : s[i] = t[i]
      /\ Len(s) \in Nat
  BY AppendProperties, LenProperties
<1> HIDE DEF t
<1>2. CASE d = "any"
  <2>1. Matching(s, d) = s /\ Matching(t, d) = t
    BY <1>2 DEF Matching
  <2>2. QED
    BY <2>1 DEF t
<1>3. CASE d # "any"
  <2>1. PICK m : Fits(m, s, d, Len(s)) /\ Matching(s, d) = m[Len(s)]
    BY <1>3, MatchingFits
  <2>2. PICK q : Fits(q, t, d, Len(t)) /\ Matching(t, d) = q[Len(t)]
    BY <1>1, <1>3, MatchingFits
  <2>3. q[Len(s)] = m[Len(s)]
    <3>1. Fits(q, t, d, Len(s) + 1) /\ Len(s) <= Len(s) + 1 /\ Len(s) + 1 \in Nat
      BY <1>1, <2>2
    <3>2. QED
      BY <1>1, <2>1, <3>1, FitsAgree
  <2>4. q[Len(s) + 1] = More(t, d, Len(s) + 1, q[Len(s)])
    <3>1. Fits(q, t, d, Len(s) + 1) /\ Len(s) + 1 \in Nat
      BY <1>1, <2>2
    <3>2. QED
      BY <1>1, <3>1, FitsIs
  <2>5. Matching(t, d) \in {Matching(s, d), Append(Matching(s, d), r)}
    BY <1>1, <2>1, <2>2, <2>3, <2>4 DEF More
  <2>6. Matching(s, d) \in Seq(T)
    BY <2>1, FitsTyped
  <2>7. QED
    BY <2>5, <2>6 DEF t
<1>4. QED
  BY <1>2, <1>3

LEMMA MatchingNone ==
  ASSUME NEW d
  PROVE  Matching(<<>>, d) = <<>>
<1>1. CASE d = "any"
  BY <1>1 DEF Matching
<1>2. CASE d # "any"
  <2>1. <<>> \in Seq(Nat) /\ Len(<<>>) = 0
    BY EmptySeq
  <2>2. PICK m : Fits(m, <<>>, d, 0) /\ Matching(<<>>, d) = m[0]
    BY <1>2, <2>1, MatchingFits
  <2>3. QED
    BY <2>2, FitsIs
<1>3. QED
  BY <1>1, <1>2

-----------------------------------------------------------------------------
(* Pages: whatever ids the client uses.                                    *)

TypedInv == SeqInv /\ Open \subseteq Taps

LEMMA TypedStep == TypedInv /\ [Next]_vars => TypedInv'
<1> SUFFICES ASSUME TypedInv, [Next]_vars PROVE TypedInv'
  OBVIOUS
<1>1. /\ queue \in Seq(Taps) /\ drained \in Seq(Taps) /\ clock \in Nat \ {0}
      /\ c2sOwed = Nothing \/ (c2sOwed \in Taps /\ c2sOwed.dir = "c2s")
      /\ s2cOwed = Nothing \/ (s2cOwed \in Taps /\ s2cOwed.dir = "s2c")
      /\ atServer \subseteq Taps /\ atClient \subseteq Taps
  BY DEF TypedInv, SeqInv, Of, Open
<1> SUFFICES /\ queue' \in Seq(Taps) /\ drained' \in Seq(Taps) /\ clock' \in Nat \ {0}
             /\ c2sOwed' = Nothing \/ (c2sOwed' \in Taps /\ c2sOwed'.dir = "c2s")
             /\ s2cOwed' = Nothing \/ (s2cOwed' \in Taps /\ s2cOwed'.dir = "s2c")
             /\ atServer' \subseteq Taps /\ atClient' \subseteq Taps
  BY DEF TypedInv, SeqInv, Of, Open
<1>2. CASE \E m \in Methods \ {"none"}, id \in Ids : ForwardRequest(m, id)
  <2>1. PICK m \in Methods \ {"none"}, id \in Ids : ForwardRequest(m, id)
    BY <1>2
  <2> DEFINE f == Frame("c2s", m, id, FALSE, "plain", clock, 0)
  <2>2. f \in Taps /\ f.dir = "c2s"
    BY <1>1 DEF Frame, Taps, Bodies
  <2>3. /\ c2sOwed' = f /\ atServer' = atServer \cup {f} /\ clock' = clock + 1
        /\ UNCHANGED <<queue, drained, s2cOwed, atClient>>
    BY <2>1 DEF ForwardRequest, Wire, loopVars
  <2> HIDE DEF f
  <2>4. QED
    BY <1>1, <2>2, <2>3
<1>3. CASE \E r \in atClient : ForwardAnswer(r)
  <2>1. PICK r \in atClient : ForwardAnswer(r)
    BY <1>3
  <2>2. Frame("c2s", "none", r.id, FALSE, "plain", clock, r.ts) \in Taps
    BY <1>1 DEF Frame, Taps, Bodies, Methods
  <2>3. QED
    BY <1>1, <2>1, <2>2 DEF ForwardAnswer, Wire, loopVars, Frame
<1>4. CASE \E r \in atServer, err \in BOOLEAN, b \in Bodies : ForwardResponse(r, err, b)
  <2>1. PICK r \in atServer, err \in BOOLEAN, b \in Bodies : ForwardResponse(r, err, b)
    BY <1>4
  <2>2. Frame("s2c", "none", r.id, err, b, clock, r.ts) \in Taps
    BY <1>1 DEF Frame, Taps, Methods
  <2>3. QED
    BY <1>1, <2>1, <2>2 DEF ForwardResponse, Wire, loopVars, Frame
<1>5. CASE \E id \in Ids : ForwardServerRequest(id)
  <2>1. PICK id \in Ids : ForwardServerRequest(id)
    BY <1>5
  <2> DEFINE f == Frame("s2c", "call", id, FALSE, "plain", clock, 0)
  <2>2. f \in Taps /\ f.dir = "s2c"
    BY <1>1 DEF Frame, Taps, Bodies, Methods
  <2>3. /\ s2cOwed' = f /\ atClient' = atClient \cup {f} /\ clock' = clock + 1
        /\ UNCHANGED <<queue, drained, c2sOwed, atServer>>
    BY <2>1 DEF ForwardServerRequest, Wire, loopVars
  <2> HIDE DEF f
  <2>4. QED
    BY <1>1, <2>2, <2>3
<1>6. ASSUME NEW f \in Taps, Enqueue(f) PROVE queue' \in Seq(Taps)
  <2>1. Append(queue, f) \in Seq(Taps)
    BY <1>1, AppendProperties
  <2>2. queue' = queue \/ queue' = Append(queue, f)
    BY <1>6 DEF Enqueue, Send
  <2>3. QED
    BY <1>1, <2>1, <2>2
<1>7. CASE C2sTap
  BY <1>1, <1>6, <1>7 DEF C2sTap
<1>8. CASE S2cTap
  BY <1>1, <1>6, <1>8 DEF S2cTap
<1>9. CASE Drain
  <2>1. drained' \in Seq(Taps) /\ queue' \in Seq(Taps)
    BY <1>9, DrainLine DEF Drain, TypedInv
  <2>2. UNCHANGED <<clock, c2sOwed, s2cOwed, atServer, atClient>>
    BY <1>9 DEF Drain, pumpVars
  <2>3. QED
    BY <1>1, <2>1, <2>2
<1>10. CASE UNCHANGED vars
  BY <1>1, <1>10 DEF vars, loopVars, pumpVars
<1>11. QED
  BY <1>2, <1>3, <1>4, <1>5, <1>7, <1>8, <1>9, <1>10 DEF Next, Pump

Cells == Taps \cup Nat
Begins(s, t) == Len(s) <= Len(t) /\ \A i \in 1 .. Len(s) : s[i] = t[i]

\* The rows a job is about.
Table(job) == IF job.kind = "export" THEN messages
              ELSE IF job.of = "messages" THEN Matching(messages, job.dir)
              ELSE events[job.of]

TablesInv ==
  /\ messages \in Seq(Cells) /\ exists \in BOOLEAN
  /\ events \in [{"security", "inject"} -> Seq(Cells)]

\* A reader who is to get more pages has read all rows before the next one, and the
\* total he was last told covers what was there when he began.
ReaderInv ==
  /\ reader \in [job : Jobs \cup {Idle.job}, before : Nat, total : Nat, offset : Nat,
                 at : {"idle", "count", "page", "export", "done", "missing"}, got : Seq(Cells)]
  /\ reader.job = Idle.job => reader.at = "idle"
  /\ reader.job \in Jobs =>
       /\ Begins(reader.got, Table(reader.job))
       /\ reader.at \in {"count", "page"} => reader.job.kind = "list"
       /\ reader.at = "export" => reader.job.kind = "export"
       /\ exists =>
            /\ reader.before <= Len(Table(reader.job))
            /\ reader.at \in {"count", "page"} => Len(reader.got) = reader.offset
            /\ reader.at = "page" => /\ reader.before <= reader.total
                                     /\ reader.total <= Len(Table(reader.job))
            /\ reader.at = "done" => reader.before <= Len(reader.got)

ReadInv == TypedInv /\ TablesInv /\ ReaderInv

LEMMA BeginsIsPrefix ==
  ASSUME NEW s \in Seq(Cells), NEW t \in Seq(Cells), Begins(s, t)
  PROVE  IsPrefix(s, t)
<1>1. Len(s) \in Nat /\ Len(t) \in Nat /\ Len(s) <= Len(t)
  BY LenProperties DEF Begins
<1>2. \A i \in 1 .. Len(s) : s[i] \in Cells /\ t[i] \in Cells /\ s[i] = t[i]
  BY <1>1, ElementOfSeq DEF Begins
<1>3. /\ SubSeq(s, 1, Len(s)) \in Seq(Cells) /\ SubSeq(t, 1, Len(s)) \in Seq(Cells)
      /\ Len(SubSeq(s, 1, Len(s))) = Len(SubSeq(t, 1, Len(s)))
      /\ \A i \in 1 .. Len(s) - 1 + 1 : /\ SubSeq(s, 1, Len(s))[i] = s[1 + i - 1]
                                        /\ SubSeq(t, 1, Len(s))[i] = t[1 + i - 1]
      /\ Len(SubSeq(s, 1, Len(s))) = IF 1 <= Len(s) THEN Len(s) - 1 + 1 ELSE 0
  BY <1>1, <1>2, SubSeqProperties
<1>4. Len(SubSeq(s, 1, Len(s))) = Len(s) /\ Len(s) - 1 + 1 = Len(s)
  BY <1>1, <1>3
<1>5. \A i \in 1 .. Len(s) : 1 + i - 1 = i
  BY <1>1
<1>6. \A i \in 1 .. Len(s) : SubSeq(s, 1, Len(s))[i] = SubSeq(t, 1, Len(s))[i]
  BY <1>2, <1>3, <1>4, <1>5
<1>7. SubSeq(s, 1, Len(s)) = SubSeq(t, 1, Len(s))
  BY <1>3, <1>4, <1>6, SeqEqual
<1>8. QED
  BY <1>1, <1>7 DEF IsPrefix

LEMMA BeginsOn ==
  ASSUME NEW s \in Seq(Cells), NEW t \in Seq(Cells), NEW u \in Seq(Cells), Begins(s, t), Begins(t, u)
  PROVE  Begins(s, u) /\ Len(t) <= Len(u) /\ Len(t) \in Nat /\ Len(u) \in Nat
<1>1. Len(s) \in Nat /\ Len(t) \in Nat /\ Len(u) \in Nat
  BY LenProperties
<1>2. QED
  BY <1>1 DEF Begins

\* The page at the offset reached goes on with the table.
LEMMA PageGoesOn ==
  ASSUME NEW t \in Seq(Cells), NEW s \in Seq(Cells), NEW o \in Nat, Begins(s, t), Len(s) = o
  PROVE  /\ s \o Page(t, o) \in Seq(Cells) /\ Begins(s \o Page(t, o), t)
         /\ Len(s \o Page(t, o)) = Smaller(o + PageSize, Len(t))
<1> DEFINE n == Smaller(o + PageSize, Len(t))
           q == SubSeq(t, o + 1, n)
<1>1. /\ Len(t) \in Nat /\ Len(s) \in Nat /\ o <= Len(t) /\ PageSize \in Nat /\ PageSize >= 1
      /\ Limit = PageSize
  BY LenProperties, SessionReadsAssumption DEF Begins, Limit, Smaller
<1>2. n \in Nat /\ o <= n /\ n <= Len(t)
  BY <1>1 DEF Smaller
<1>3. Page(t, o) = q
  BY <1>1 DEF Page
<1>4. \A i \in o + 1 .. n : t[i] \in Cells
  BY <1>1, <1>2, ElementOfSeq
<1> HIDE DEF n
<1>5. /\ q \in Seq(Cells) /\ Len(q) = IF o + 1 <= n THEN n - (o + 1) + 1 ELSE 0
      /\ \A i \in 1 .. n - (o + 1) + 1 : q[i] = t[o + 1 + i - 1]
  <2>1. o + 1 \in Int /\ n \in Int
    BY <1>2
  <2>2. QED
    BY <1>4, <2>1, SubSeqProperties
<1> HIDE DEF q
<1>6. Len(q) = n - o /\ \A i \in 1 .. n - o : q[i] = t[o + i]
  <2>1. n - (o + 1) + 1 = n - o /\ \A i \in 1 .. n - o : o + 1 + i - 1 = o + i
    BY <1>2
  <2>2. QED
    BY <1>2, <1>5, <2>1
<1>7. /\ s \o q \in Seq(Cells) /\ Len(s \o q) = Len(s) + Len(q)
      /\ \A i \in 1 .. Len(s) + Len(q) : (s \o q)[i] = IF i <= Len(s) THEN s[i] ELSE q[i - Len(s)]
  BY <1>5, ConcatProperties
<1>8. Len(s \o q) = n
  BY <1>2, <1>6, <1>7
<1>9. ASSUME NEW i \in 1 .. n PROVE (s \o q)[i] = t[i]
  <2>1. CASE i <= o
    BY <1>1, <1>2, <1>6, <1>7, <2>1 DEF Begins
  <2>2. CASE i > o
    <3>1. i - o \in 1 .. n - o /\ o + (i - o) = i
      BY <1>2, <2>2
    <3>2. (s \o q)[i] = q[i - o]
      BY <1>1, <1>2, <1>6, <1>7, <2>2
    <3>3. QED
      BY <1>6, <3>1, <3>2
  <2>3. i <= o \/ i > o
    BY <1>2
  <2>4. QED
    BY <2>1, <2>2, <2>3
<1>10. QED
  BY <1>2, <1>3, <1>7, <1>8, <1>9 DEF Begins, n

\* No row of a table goes, while the session is recorded.
LEMMA TablesStep ==
  ASSUME TypedInv, TablesInv, [ReadsNext]_allVars
  PROVE  /\ TablesInv'
         /\ exists' => exists
         /\ \A job \in Jobs : /\ Table(job) \in Seq(Cells) /\ Table(job)' \in Seq(Cells)
                              /\ Begins(Table(job), Table(job)')
<1>1. /\ messages \in Seq(Cells) /\ Len(messages) \in Nat /\ exists \in BOOLEAN
      /\ \A t \in {"security", "inject"} : events[t] \in Seq(Cells) /\ Len(events[t]) \in Nat
      /\ DOMAIN events = {"security", "inject"}
  BY LenProperties DEF TablesInv
<1>2. messages' = messages \/ \E r \in Cells : messages' = Append(messages, r)
  <2>1. ASSUME Insert PROVE Head(queue) \in Cells
    <3>1. queue # <<>> /\ queue \in Seq(Taps)
      BY <2>1 DEF Insert, Drain, HandleTap, TypedInv, SeqInv
    <3>2. QED
      BY <3>1, HeadTailProperties DEF Cells
  <2>2. QED
    BY <2>1 DEF ReadsNext, allVars, readVars, Insert, InsertEvent, DeleteSession, StartList,
                StartExport, CountRows, ReadPage, ExportMessages
<1>3. events' = events \/ \E t \in {"security", "inject"} :
                            events' = [events EXCEPT ![t] = Append(@, Len(@) + 1)]
  BY DEF ReadsNext, allVars, readVars, Insert, InsertEvent, DeleteSession, StartList,
         StartExport, CountRows, ReadPage, ExportMessages
<1>4. exists' = exists \/ (exists' = FALSE /\ exists)
  BY DEF ReadsNext, allVars, readVars, Insert, InsertEvent, DeleteSession, StartList,
         StartExport, CountRows, ReadPage, ExportMessages
<1>5. ASSUME NEW s \in Seq(Cells), NEW r \in Cells
      PROVE  Append(s, r) \in Seq(Cells) /\ Begins(s, Append(s, r)) /\ Begins(s, s)
  BY <1>5, AppendProperties, LenProperties DEF Begins
<1>6. messages' \in Seq(Cells) /\ Begins(messages, messages')
  <2>1. CASE messages' = messages
    <3>1. 0 \in Cells
      BY DEF Cells
    <3>2. QED
      BY <1>1, <1>5, <2>1, <3>1
  <2>2. CASE \E r \in Cells : messages' = Append(messages, r)
    BY <1>1, <1>5, <2>2
  <2>3. QED
    BY <1>2, <2>1, <2>2
<1>7. ASSUME NEW d
      PROVE  /\ Matching(messages, d) \in Seq(Cells) /\ Matching(messages', d) \in Seq(Cells)
             /\ Begins(Matching(messages, d), Matching(messages', d))
  <2>1. PICK c \in Cells : TRUE
    BY DEF Cells
  <2>2. Matching(messages, d) \in Seq(Cells) /\ Begins(Matching(messages, d), Matching(messages, d))
    BY <1>1, <1>5, <2>1, MatchingGrows
  <2>3. CASE messages' = messages
    BY <2>2, <2>3
  <2>4. CASE messages' # messages
    <3>1. PICK r \in Cells : messages' = Append(messages, r)
      BY <1>2, <2>4
    <3>2. Matching(messages', d) \in {Matching(messages, d), Append(Matching(messages, d), r)}
      BY <1>1, <3>1, MatchingGrows
    <3>3. QED
      BY <1>5, <2>2, <3>2
  <2>5. QED
    BY <2>3, <2>4
<1>8. ASSUME NEW t \in {"security", "inject"}
      PROVE  events'[t] \in Seq(Cells) /\ Begins(events[t], events'[t])
  <2>1. CASE events' = events
    BY <1>1, <1>5, <2>1 DEF Cells
  <2>2. CASE \E u \in {"security", "inject"} : events' = [events EXCEPT ![u] = Append(@, Len(@) + 1)]
    <3>1. PICK u \in {"security", "inject"} : events' = [events EXCEPT ![u] = Append(@, Len(@) + 1)]
      BY <2>2
    <3>2. CASE t = u
      <4>1. events'[t] = Append(events[t], Len(events[t]) + 1) /\ Len(events[t]) + 1 \in Cells
        BY <1>1, <3>1, <3>2 DEF Cells
      <4>2. QED
        BY <1>1, <1>5, <4>1
    <3>3. CASE t # u
      <4>1. events'[t] = events[t] /\ 0 \in Cells
        BY <1>1, <3>1, <3>3 DEF Cells
      <4>2. QED
        BY <1>1, <1>5, <4>1
    <3>4. QED
      BY <3>2, <3>3
  <2>3. QED
    BY <1>3, <2>1, <2>2
<1>9. TablesInv'
  <2>1. events' \in [{"security", "inject"} -> Seq(Cells)]
    <3>1. DOMAIN events' = {"security", "inject"} /\ events' = [t \in DOMAIN events' |-> events'[t]]
      BY <1>1, <1>3 DEF TablesInv
    <3>2. QED
      BY <1>8, <3>1
  <2>2. QED
    BY <1>1, <1>4, <1>6, <2>1 DEF TablesInv
<1>10. ASSUME NEW job \in Jobs
       PROVE  /\ Table(job) \in Seq(Cells) /\ Table(job)' \in Seq(Cells)
              /\ Begins(Table(job), Table(job)')
  <2>1. \/ job.kind = "export"
        \/ job.kind # "export" /\ job.of = "messages"
        \/ job.kind # "export" /\ job.of # "messages" /\ job.of \in {"security", "inject"}
    BY SessionReadsAssumption
  <2>2. CASE job.kind = "export"
    BY <1>1, <1>6, <2>2 DEF Table
  <2>3. CASE job.kind # "export" /\ job.of = "messages"
    BY <1>7, <2>3 DEF Table
  <2>4. CASE job.kind # "export" /\ job.of # "messages" /\ job.of \in {"security", "inject"}
    BY <1>1, <1>8, <2>4 DEF Table
  <2>5. QED
    BY <2>1, <2>2, <2>3, <2>4
<1>11. QED
  BY <1>4, <1>9, <1>10

\* A list finds its table, and nothing without the session.
LEMMA ListedIs ==
  ASSUME NEW job \in Jobs, job.kind = "list"
  PROVE  Listed(job) = IF exists THEN Table(job) ELSE <<>>
<1>1. job.of \in {"messages", "security", "inject"}
  BY SessionReadsAssumption
<1>2. CASE job.of = "messages"
  <2>1. Listed(job) = Messages(job.dir)
    BY <1>2 DEF Listed
  <2>2. QED
    BY <1>2, <2>1, MatchingNone DEF Messages, Committed, Table
<1>3. CASE job.of = "security"
  BY <1>3 DEF Listed, SecurityEvents, Committed, Table
<1>4. CASE job.of = "inject"
  BY <1>4 DEF Listed, InjectEvents, Committed, Table
<1>5. QED
  BY <1>1, <1>2, <1>3, <1>4

\* What the reader holds stays the beginning of a table that grows.
LEMMA ReaderKept ==
  ASSUME TypedInv, TablesInv, ReaderInv, [ReadsNext]_allVars, reader' = reader
  PROVE  ReaderInv'
<1>1. CASE reader.job \notin Jobs
  BY <1>1 DEF ReaderInv
<1>2. CASE reader.job \in Jobs
  <2> DEFINE t == Table(reader.job)
             u == Table(reader.job)'
  <2>1. t \in Seq(Cells) /\ u \in Seq(Cells) /\ Begins(t, u) /\ (exists' => exists)
    BY <1>2, TablesStep
  <2>2. reader.got \in Seq(Cells) /\ Begins(reader.got, t)
    BY <1>2 DEF ReaderInv
  <2>3. Begins(reader.got, u) /\ Len(t) <= Len(u) /\ Len(t) \in Nat /\ Len(u) \in Nat
    BY <2>1, <2>2, BeginsOn
  <2>4. reader.before \in Nat /\ reader.total \in Nat
    BY DEF ReaderInv
  <2>5. QED
    BY <1>2, <2>1, <2>3, <2>4 DEF ReaderInv
<1>3. QED
  BY <1>1, <1>2

LEMMA EmptyBegins ==
  ASSUME NEW t \in Seq(Cells)
  PROVE  <<>> \in Seq(Cells) /\ Len(<<>>) = 0 /\ Begins(<<>>, t) /\ Len(t) \in Nat
BY EmptySeq, LenProperties DEF Begins

\* The reader asks: it finds all there is, or that there is no session.
LEMMA ReaderStarts ==
  ASSUME TypedInv, TablesInv, ReaderInv, [ReadsNext]_allVars,
         NEW job \in Jobs, StartList(job) \/ StartExport(job)
  PROVE  ReaderInv'
<1> DEFINE t == Table(job)
<1>1. /\ messages' = messages /\ events' = events /\ exists' = exists
      /\ t \in Seq(Cells) /\ Begins(<<>>, t) /\ Len(t) \in Nat /\ <<>> \in Seq(Cells) /\ Len(<<>>) = 0
      /\ Table(job)' = t
  <2>1. messages' = messages /\ events' = events /\ exists' = exists
    BY DEF StartList, StartExport
  <2>2. t \in Seq(Cells)
    BY TablesStep
  <2>3. QED
    BY <2>1, <2>2, EmptyBegins DEF Table
<1>2. job \in Jobs /\ job # Idle.job
  BY SessionReadsAssumption DEF Idle
<1>3. CASE StartList(job)
  <2> DEFINE n == Len(Listed(job))
  <2>1. job.kind = "list" /\ n \in Nat /\ (exists => n = Len(t))
    <3>1. job.kind = "list"
      BY <1>3 DEF StartList
    <3>2. Listed(job) = IF exists THEN t ELSE <<>>
      BY <3>1, ListedIs
    <3>3. QED
      BY <1>1, <3>1, <3>2
  <2>2. reader' = [job |-> job, at |-> "count", before |-> n, total |-> 0, offset |-> 0, got |-> <<>>]
    BY <1>3 DEF StartList, Idle
  <2> HIDE DEF n
  <2>3. QED
    BY <1>1, <1>2, <2>1, <2>2 DEF ReaderInv, Table
<1>4. CASE StartExport(job)
  <2> DEFINE n == Len(Messages("any"))
  <2>1. job.kind = "export" /\ n \in Nat /\ (exists => n = Len(t))
    <3>1. job.kind = "export"
      BY <1>4 DEF StartExport
    <3>2. Messages("any") = IF exists THEN t ELSE <<>>
      BY <3>1 DEF Messages, Matching, Committed, Table
    <3>3. QED
      BY <1>1, <3>1, <3>2
  <2>2. reader' = [job |-> job, at |-> IF exists THEN "export" ELSE "missing", before |-> n,
                   total |-> 0, offset |-> 0, got |-> <<>>]
    BY <1>4 DEF StartExport, Idle
  <2> HIDE DEF n
  <2>3. QED
    BY <1>1, <1>2, <2>1, <2>2 DEF ReaderInv, Table
<1>5. QED
  BY <1>3, <1>4

\* The total the reader is told is of all there is.
LEMMA ReaderCounts ==
  ASSUME TypedInv, TablesInv, ReaderInv, [ReadsNext]_allVars, CountRows
  PROVE  ReaderInv'
<1> DEFINE t == Table(reader.job)
           n == Len(Listed(reader.job))
<1>1. reader.at = "count" /\ reader.job \in Jobs /\ reader.job.kind = "list"
  BY DEF CountRows, ReaderInv
<1>2. /\ messages' = messages /\ events' = events /\ exists' = exists
      /\ t \in Seq(Cells) /\ Len(t) \in Nat
  <2>1. messages' = messages /\ events' = events /\ exists' = exists
    BY DEF CountRows
  <2>2. t \in Seq(Cells)
    BY <1>1, TablesStep
  <2>3. QED
    BY <2>1, <2>2, EmptyBegins
<1>3. n \in Nat /\ (exists => n = Len(t))
  <2>1. Listed(reader.job) = IF exists THEN t ELSE <<>>
    BY <1>1, ListedIs
  <2>2. QED
    BY <1>2, <2>1, EmptyBegins
<1>4. reader' = [reader EXCEPT !.at = "page", !.total = n]
  BY DEF CountRows
<1> HIDE DEF n
<1>5. /\ reader'.job = reader.job /\ reader'.got = reader.got /\ reader'.offset = reader.offset
      /\ reader'.before = reader.before /\ reader'.at = "page" /\ reader'.total = n
  BY <1>4 DEF ReaderInv
<1>6. Table(reader.job)' = t
  BY <1>2, <1>5 DEF Table
<1>7. reader' \in [job : Jobs \cup {Idle.job}, before : Nat, total : Nat, offset : Nat,
                   at : {"idle", "count", "page", "export", "done", "missing"}, got : Seq(Cells)]
  BY <1>3, <1>4 DEF ReaderInv
<1>8. Begins(reader.got, t) /\ (exists => Len(reader.got) = reader.offset /\ reader.before <= Len(t))
  BY <1>1 DEF ReaderInv
<1>9. reader'.job # Idle.job
  BY <1>1, <1>5, SessionReadsAssumption DEF Idle
<1>10. QED
  BY <1>1, <1>2, <1>3, <1>5, <1>6, <1>7, <1>8, <1>9 DEF ReaderInv

\* A page goes on where the reader is, and the last one is not left too early.
LEMMA ReaderPages ==
  ASSUME TypedInv, TablesInv, ReaderInv, [ReadsNext]_allVars, ReadPage
  PROVE  ReaderInv'
<1> DEFINE t == Table(reader.job)
           p == Page(Listed(reader.job), reader.offset)
           got == reader.got \o p
<1>1. reader.at = "page" /\ reader.job \in Jobs /\ reader.job.kind = "list"
  BY DEF ReadPage, ReaderInv
<1>2. /\ messages' = messages /\ events' = events /\ exists' = exists /\ exists \in BOOLEAN
      /\ t \in Seq(Cells) /\ Len(t) \in Nat
  <2>1. messages' = messages /\ events' = events /\ exists' = exists /\ exists \in BOOLEAN
    BY DEF ReadPage, TablesInv
  <2>2. t \in Seq(Cells)
    BY <1>1, TablesStep
  <2>3. QED
    BY <2>1, <2>2, EmptyBegins
<1>3. /\ reader.offset \in Nat /\ reader.total \in Nat /\ reader.before \in Nat
      /\ reader.got \in Seq(Cells) /\ Len(reader.got) \in Nat /\ PageSize \in Nat
      /\ Begins(reader.got, t)
      /\ exists => /\ Len(reader.got) = reader.offset /\ reader.before <= reader.total
                   /\ reader.total <= Len(t) /\ reader.before <= Len(t)
  BY <1>1, LenProperties, SessionReadsAssumption DEF ReaderInv
<1>4. Listed(reader.job) = IF exists THEN t ELSE <<>>
  BY <1>1, ListedIs
<1>5. /\ got \in Seq(Cells) /\ Begins(got, t) /\ Len(got) \in Nat
      /\ exists => Len(got) = Smaller(reader.offset + PageSize, Len(t))
  <2>1. CASE exists
    <3>1. p = Page(t, reader.offset)
      BY <1>4, <2>1
    <3>2. /\ reader.got \o Page(t, reader.offset) \in Seq(Cells)
          /\ Begins(reader.got \o Page(t, reader.offset), t)
          /\ Len(reader.got \o Page(t, reader.offset)) = Smaller(reader.offset + PageSize, Len(t))
      <4> HIDE DEF t
      <4>1. QED
        BY <1>2, <1>3, <2>1, PageGoesOn
    <3>3. Smaller(reader.offset + PageSize, Len(t)) \in Nat
      BY <1>2, <1>3 DEF Smaller
    <3>4. QED
      BY <3>1, <3>2, <3>3
  <2>2. CASE ~exists
    <3>1. p = <<>>
      <4>1. Listed(reader.job) = <<>> /\ Len(<<>>) = 0
        BY <1>4, <2>2, EmptySeq
      <4>2. p = SubSeq(<<>>, reader.offset + 1, Smaller(reader.offset + Limit, 0))
        BY <4>1 DEF Page
      <4>3. Limit \in Nat
        BY SessionReadsAssumption DEF Limit, Smaller
      <4>4. Smaller(reader.offset + Limit, 0) \in Int /\ reader.offset + 1 \in Int
            /\ Smaller(reader.offset + Limit, 0) < reader.offset + 1
        BY <1>3, <4>3 DEF Smaller
      <4>5. QED
        BY <4>2, <4>4, SubSeqEmpty
    <3>2. got = reader.got
      BY <1>3, <3>1, ConcatEmptySeq
    <3>3. QED
      BY <1>3, <2>2, <3>2
  <2>3. QED
    BY <2>1, <2>2
<1>6. reader' = [reader EXCEPT !.at = IF CanNext THEN "count" ELSE "done",
                               !.offset = IF CanNext THEN @ + PageSize ELSE @,
                               !.got = got]
  BY DEF ReadPage
<1> HIDE DEF p, got
<1>7. /\ reader'.job = reader.job /\ reader'.got = got /\ reader'.before = reader.before
      /\ reader'.offset = IF CanNext THEN reader.offset + PageSize ELSE reader.offset
      /\ reader'.at = IF CanNext THEN "count" ELSE "done"
  BY <1>6 DEF ReaderInv
<1>8. Table(reader.job)' = t
  BY <1>2, <1>7 DEF Table
<1>9. reader' \in [job : Jobs \cup {Idle.job}, before : Nat, total : Nat, offset : Nat,
                   at : {"idle", "count", "page", "export", "done", "missing"}, got : Seq(Cells)]
  <2>1. (IF CanNext THEN reader.offset + PageSize ELSE reader.offset) \in Nat
    BY <1>3
  <2>2. QED
    BY <1>5, <1>6, <2>1 DEF ReaderInv
<1>10. reader'.job # Idle.job
  BY <1>1, <1>7, SessionReadsAssumption DEF Idle
<1>11. CASE CanNext
  <2>1. exists => Len(got) = reader.offset + PageSize
    BY <1>2, <1>3, <1>5, <1>11 DEF CanNext, Smaller
  <2>2. QED
    BY <1>1, <1>2, <1>3, <1>5, <1>7, <1>8, <1>9, <1>10, <1>11, <2>1 DEF ReaderInv
<1>12. CASE ~CanNext
  <2>1. exists => reader.before <= Len(got)
    BY <1>2, <1>3, <1>5, <1>12 DEF CanNext, Smaller
  <2>2. QED
    BY <1>1, <1>2, <1>3, <1>5, <1>7, <1>8, <1>9, <1>10, <1>12, <2>1 DEF ReaderInv
<1>13. QED
  BY <1>11, <1>12

\* An export reads all there is.
LEMMA ReaderExports ==
  ASSUME TypedInv, TablesInv, ReaderInv, [ReadsNext]_allVars, ExportMessages
  PROVE  ReaderInv'
<1> DEFINE t == Table(reader.job)
           got == Messages("any")
<1>1. reader.at = "export" /\ reader.job \in Jobs /\ reader.job.kind = "export" /\ t = messages
  BY DEF ExportMessages, ReaderInv, Table
<1>2. /\ messages' = messages /\ events' = events /\ exists' = exists /\ exists \in BOOLEAN
      /\ messages \in Seq(Cells)
  BY DEF ExportMessages, TablesInv
<1>3. got = IF exists THEN messages ELSE <<>>
  BY DEF Messages, Matching, Committed
<1>4. got \in Seq(Cells) /\ Begins(got, t) /\ Len(t) \in Nat /\ (exists => got = t)
  <2>1. Len(messages) \in Nat /\ <<>> \in Seq(Cells) /\ Begins(<<>>, messages)
    BY <1>2, EmptyBegins
  <2>2. Begins(messages, messages)
    BY <2>1 DEF Begins
  <2>3. QED
    BY <1>1, <1>2, <1>3, <2>1, <2>2
<1>5. reader' = [reader EXCEPT !.at = "done", !.got = got]
  BY DEF ExportMessages
<1> HIDE DEF got
<1>6. /\ reader'.job = reader.job /\ reader'.got = got /\ reader'.before = reader.before
      /\ reader'.at = "done"
  BY <1>5 DEF ReaderInv
<1>7. Table(reader.job)' = t
  BY <1>2, <1>6 DEF Table
<1>8. reader' \in [job : Jobs \cup {Idle.job}, before : Nat, total : Nat, offset : Nat,
                   at : {"idle", "count", "page", "export", "done", "missing"}, got : Seq(Cells)]
  BY <1>4, <1>5 DEF ReaderInv
<1>9. reader'.job # Idle.job
  BY <1>1, <1>6, SessionReadsAssumption DEF Idle
<1>10. exists => reader.before <= Len(t)
  BY <1>1 DEF ReaderInv
<1>11. QED
  BY <1>1, <1>2, <1>4, <1>6, <1>7, <1>8, <1>9, <1>10 DEF ReaderInv

LEMMA ReaderStep == ReadInv /\ [ReadsNext]_allVars => ReadInv'
<1> SUFFICES ASSUME TypedInv, TablesInv, ReaderInv, [ReadsNext]_allVars PROVE ReadInv'
  BY DEF ReadInv
<1>1. TypedInv' /\ TablesInv'
  BY TypedStep, ReadsAreSteps, TablesStep
<1>2. CASE reader' = reader
  BY <1>1, <1>2, ReaderKept DEF ReadInv
<1>3. CASE \E job \in Jobs : StartList(job) \/ StartExport(job)
  BY <1>1, <1>3, ReaderStarts DEF ReadInv
<1>4. CASE CountRows
  BY <1>1, <1>4, ReaderCounts DEF ReadInv
<1>5. CASE ReadPage
  BY <1>1, <1>5, ReaderPages DEF ReadInv
<1>6. CASE ExportMessages
  BY <1>1, <1>6, ReaderExports DEF ReadInv
<1>7. QED
  BY <1>2, <1>3, <1>4, <1>5, <1>6 DEF ReadsNext, allVars, readVars, Insert, InsertEvent,
     DeleteSession

LEMMA ReaderStart == ReadsInit => ReadInv
<1> SUFFICES ASSUME ReadsInit PROVE ReadInv
  OBVIOUS
<1>1. TypedInv
  BY DEF ReadsInit, Init, LoopInit, TypedInv, SeqInv, Of, Open
<1>2. TablesInv
  <2>1. exists = TRUE /\ messages = <<>> /\ events = [security |-> <<>>, inject |-> <<>>]
    BY DEF ReadsInit
  <2>2. DOMAIN events = {"security", "inject"} /\ events = [t \in {"security", "inject"} |-> <<>>]
    BY <2>1
  <2>3. QED
    BY <2>1, <2>2, EmptySeq DEF TablesInv
<1>3. reader = Idle /\ Idle.job \notin Jobs
  BY SessionReadsAssumption DEF ReadsInit, Idle
<1>4. ReaderInv
  BY <1>3 DEF ReaderInv, Idle
<1>5. QED
  BY <1>1, <1>2, <1>4 DEF ReadInv

\* Who pages through a session, or exports it, while it is recorded or deleted has a part
\* of each table from its beginning, with no row twice, skipped or out of order, and all
\* there was when he began if he reads to the end.
THEOREM PagesTile == ReadsSpec => []PagesTileTheSession
<1>1. ReadInv => PagesTileTheSession
  <2> SUFFICES ASSUME ReadInv PROVE PagesTileTheSession
    OBVIOUS
  <2>1. reader.job \in Jobs \cup {Idle.job} /\ reader.got \in Seq(Cells)
    BY DEF ReadInv, ReaderInv
  <2>2. Recorded = Table(reader.job)
    BY DEF Recorded, Job, Table
  <2>3. ReadsArePrefixes
    <3> SUFFICES ASSUME reader.job.kind # "none" PROVE IsPrefix(reader.got, Recorded)
      BY DEF ReadsArePrefixes
    <3>1. reader.job \in Jobs
      BY <2>1 DEF Idle
    <3>2. Begins(reader.got, Table(reader.job))
      BY <3>1 DEF ReadInv, ReaderInv
    <3>3. Table(reader.job) \in Seq(Cells)
      <4>1. messages \in Seq(Cells) /\ 0 \in Cells
        BY DEF ReadInv, TablesInv, Cells
      <4>2. \A d : Matching(messages, d) \in Seq(Cells)
        BY <4>1, MatchingGrows
      <4>3. reader.job.kind = "export" \/ reader.job.of \in {"messages", "security", "inject"}
        BY <3>1, SessionReadsAssumption
      <4>4. QED
        BY <4>1, <4>2, <4>3 DEF ReadInv, TablesInv, Table
    <3>4. QED
      BY <2>1, <2>2, <3>2, <3>3, BeginsIsPrefix
  <2>4. NothingMissed
    <3> SUFFICES ASSUME reader.at = "done", exists PROVE Len(reader.got) >= reader.before
      BY DEF NothingMissed
    <3>1. reader.job \in Jobs
      BY <2>1 DEF ReadInv, ReaderInv
    <3>2. reader.before <= Len(reader.got) /\ reader.before \in Nat /\ Len(reader.got) \in Nat
      BY <2>1, <3>1, LenProperties DEF ReadInv, ReaderInv
    <3>3. QED
      BY <3>2
  <2>5. QED
    BY <2>3, <2>4 DEF PagesTileTheSession
<1>2. QED
  BY <1>1, ReaderStart, ReaderStep, PTL DEF ReadsSpec
=============================================================================
