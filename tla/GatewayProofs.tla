---------------------------- MODULE GatewayProofs ----------------------------
(***************************************************************************)
(* What the gateway promises for every policy, every list of rules, any    *)
(* number of clients and of requests in flight, and every channel: nothing *)
(* forbidden is sent upstream, a rule fires as often as it may, exchanges  *)
(* are on record whole and in order, and what is known of a session's      *)
(* protocol is one handshake and is only replaced by better.               *)
(*                                                                         *)
(* The last part is of the injector whose decisions the gateway takes: for *)
(* every file of rules, stream and traffic a seed reproduces a run, and a  *)
(* decision is one that Injector allows.                                   *)
(***************************************************************************)
EXTENDS Gateway, SeededRuns, FiniteSetTheorems, SequenceTheorems, WellFoundedInduction,
        TLAPS

\* A handler's record, field by field.
Fields == {"stage", "req", "told", "out", "hit", "back", "resp", "replied"}
Formed(r) == r = [f \in Fields |-> r[f]]

TypeInv ==
  /\ setup \in Setups
  /\ handler = [h \in Handlers |-> handler[h]]
  /\ \A h \in Handlers : Formed(handler[h])

Decided == {"sleeping", "sending", "waiting", "relaying", "delaying", "streaming"}
Cleared(r) ==
  r.stage \in Decided /\ r.req # Nothing =>
    /\ ~Forbidden(setup.policy, r.req)
    /\ setup.policy.mode = "enforce" => r.req.size = "fits"
\* Before the decision a handler holds what was posted.
Posted(r) ==
  r.stage \in {"hinting", "reading"} =>
    r.req.size \in {"fits", "over", "huge"} /\ r.req.secrets \in Nat

GateInv == \A h \in Handlers : Cleared(handler[h]) /\ Posted(handler[h])

\* The gate is built of the two lists of events: what is forbidden raises one.
LEMMA ForbiddenIsRaised ==
  ASSUME NEW s \in Setups, NEW f, f.secrets \in Nat, Forbidden(s.policy, f)
  PROVE  Blocked(s.policy, f)
<1> DEFINE p == s.policy
<1>1. p.mode = "enforce" /\ f.method = "call"
  BY DEF Forbidden
<1>2. DenyReason(p, f) \in Seq({"deny_list", "not_allowed"})
  <2>1. DenyReason(p, f) \in {<<>>, <<"deny_list">>, <<"not_allowed">>}
    BY DEF DenyReason
  <2>2. /\ <<>> \in Seq({"deny_list", "not_allowed"})
        /\ <<"deny_list">> \in Seq({"deny_list", "not_allowed"})
        /\ <<"not_allowed">> \in Seq({"deny_list", "not_allowed"})
    OBVIOUS
  <2>3. QED
    BY <2>1, <2>2
<1>3. SecretHits(p, f) \in Seq({"secret_leak"})
      /\ Len(SecretHits(p, f)) = (IF p.scan THEN f.secrets ELSE 0)
  <2> DEFINE n == IF p.scan THEN f.secrets ELSE 0
  <2>1. n \in Nat
    OBVIOUS
  <2>2. [k \in 1 .. n |-> "secret_leak"] \in Seq({"secret_leak"})
        /\ Len([k \in 1 .. n |-> "secret_leak"]) = n
    BY <2>1
  <2>3. QED
    BY <2>2 DEF SecretHits
<1>4. DenyReason(p, f) # <<>> \/ (p.scan /\ f.secrets > 0)
  <2>1. \A i \in DOMAIN s.policy.deny : Unnamed \notin s.policy.deny[i]
    BY GatewayAssumption
  <2>2. CASE \E i \in DOMAIN p.deny : f.tool \in p.deny[i]
    <3>1. f.tool # Unnamed
      BY <2>1, <2>2
    <3>2. DenyReason(p, f) = <<"deny_list">>
      BY <2>2, <3>1 DEF DenyReason
    <3>3. QED
      BY <3>2
  <2>3. CASE p.allow # {} /\ f.tool \notin p.allow
    BY <2>3 DEF DenyReason
  <2>4. QED
    BY <2>2, <2>3 DEF Forbidden
<1>5. Len(DenyReason(p, f)) + Len(SecretHits(p, f)) > 0
  BY <1>2, <1>3, <1>4
<1>6. Raised(p, f) # <<>>
  BY <1>1, <1>2, <1>3, <1>5 DEF Raised
<1>7. QED
  BY <1>1, <1>6 DEF Blocked

\* It is enough to look at the record a step gives its handler.
Safe(r) == Formed(r) /\ Cleared(r) /\ Posted(r)
Safely(h) == UNCHANGED setup /\ \E r : Safe(r) /\ handler' = [handler EXCEPT ![h] = r]

LEMMA SafelyKeeps ==
  ASSUME TypeInv, GateInv, NEW h \in Handlers, Safely(h) PROVE TypeInv' /\ GateInv'
<1>1. PICK r : Safe(r) /\ handler' = [handler EXCEPT ![h] = r]
  BY DEF Safely
<1>2. handler'[h] = r /\ \A g \in Handlers : g # h => handler'[g] = handler[g]
  BY <1>1 DEF TypeInv
<1>3. handler' = [g \in Handlers |-> handler'[g]]
  BY <1>1 DEF TypeInv
<1>4. UNCHANGED setup
  BY DEF Safely
<1>5. QED
  BY <1>1, <1>2, <1>3, <1>4 DEF TypeInv, GateInv, Safe, Cleared, Posted

\* A handler that moves on with its decision taken is as cleared as it was.
LEMMA Onward ==
  ASSUME TypeInv, GateInv, NEW h \in Handlers, handler[h].stage \in Decided, UNCHANGED setup,
         NEW r, Formed(r), r.req = handler[h].req, r.stage \notin {"hinting", "reading"},
         handler' = [handler EXCEPT ![h] = r]
  PROVE  Safely(h)
  BY DEF GateInv, Safely, Safe, Cleared, Posted

LEMMA DecisionStep ==
  ASSUME TypeInv, GateInv, NEW h \in Handlers,
         \/ \E c \in Clients, b \in setup.posts : Post(h, c, b)
         \/ Open(h) \/ OfferHint(h) \/ RejectLarge(h) \/ PassUninspected(h)
         \/ Refuse(h) \/ Admit(h)
  PROVE  Safely(h)
<1> USE DEF Safely, Safe, Becomes, Moves, Fields
<1>1. ASSUME NEW c \in Clients, NEW b \in setup.posts, Post(h, c, b) PROVE Safely(h)
  <2>1. b.size \in {"fits", "over", "huge"} /\ b.secrets \in Nat
    BY GatewayAssumption DEF TypeInv
  <2> DEFINE n == asked[c] + 1
             q == [method |-> b.method, tool |-> b.tool, secrets |-> b.secrets,
                   size |-> b.size, id |-> IF b.asks THEN n ELSE NoId, ts |-> clock]
  <2>2. PICK header \in {FALSE, b.method # "initialize"} :
          handler' = [handler EXCEPT ![h] = [Idle EXCEPT
            !.stage = IF header /\ ~hintSent THEN "hinting" ELSE "reading", !.req = q]]
    BY <1>1 DEF Post
  <2> DEFINE r == [Idle EXCEPT !.stage = IF header /\ ~hintSent THEN "hinting" ELSE "reading",
                               !.req = q]
  <2>3. Formed(r) /\ r.req = q /\ r.stage \in {"hinting", "reading"}
    BY DEF Formed, Idle
  <2>4. q.size = b.size /\ q.secrets = b.secrets
    OBVIOUS
  <2>5. Cleared(r) /\ Posted(r)
    BY <2>1, <2>3, <2>4 DEF Cleared, Posted, Decided
  <2>6. UNCHANGED setup
    BY <1>1 DEF Post
  <2>7. QED
    BY <2>2, <2>3, <2>5, <2>6
<1>2. CASE Open(h)
  BY <1>2 DEF Open, Formed, Idle, Cleared, Posted
<1>3. CASE OfferHint(h)
  BY <1>3 DEF OfferHint, At, TypeInv, GateInv, Formed, Cleared, Posted, Decided
<1>4. CASE RejectLarge(h)
  BY <1>4 DEF RejectLarge, Formed, Idle, Cleared, Posted, Decided
<1>5. CASE PassUninspected(h)
  BY <1>5 DEF PassUninspected, At, TooLarge, Forbidden, TypeInv, GateInv, Formed, Cleared, Posted
<1>6. CASE Refuse(h)
  <2> DEFINE q == handler[h].req
             r == [handler[h] EXCEPT !.stage = "end", !.told = TRUE,
                                     !.out = RequestTap(q) \o SecurityEvents(q)]
  <2>1. UNCHANGED setup /\ handler' = [handler EXCEPT ![h] = r]
    BY <1>6 DEF Refuse
  <2>2. Formed(r) /\ r.stage = "end"
    BY DEF TypeInv, Formed
  <2>3. QED
    BY <2>1, <2>2 DEF Cleared, Posted, Decided
<1>7. CASE Admit(h)
  <2> DEFINE q == handler[h].req
  <2>1. q.size = "fits" /\ q.secrets \in Nat /\ ~Blocked(setup.policy, q)
    BY <1>7 DEF Admit, At, FrameAction, GateInv, Posted
  <2>2. ~Forbidden(setup.policy, q)
    BY <2>1, ForbiddenIsRaised DEF TypeInv
  <2> DEFINE fault(i) == IF i = NoHit THEN "none" ELSE setup.rules[i].fault
             next(i) == CASE fault(i) = "delay" -> "sleeping"
                          [] fault(i) \in {"drop", "error"} -> "end"
                          [] OTHER -> "sending"
             tell == RequestTap(q) \o SecurityEvents(q)
             r(i) == [handler[h] EXCEPT !.stage = next(i), !.hit = i, !.told = i # NoHit,
               !.out = (IF i = NoHit THEN <<>> ELSE tell)
                         \o (IF fault(i) \in {"drop", "error"} THEN Injected("c2s", q.ts, i) ELSE <<>>)]
  <2>3. PICK i : handler' = [handler EXCEPT ![h] = r(i)]
    BY <1>7 DEF Admit
  <2>4. next(i) \in {"sleeping", "end", "sending"}
    OBVIOUS
  <2>5. Formed(r(i)) /\ r(i).req = q /\ r(i).stage = next(i)
    BY DEF TypeInv, Formed
  <2>6. Cleared(r(i)) /\ Posted(r(i))
    BY <2>1, <2>2, <2>4, <2>5 DEF Cleared, Posted
  <2>7. UNCHANGED setup
    BY <1>7 DEF Admit
  <2>8. QED
    BY <2>3, <2>5, <2>6, <2>7
<1>8. QED
  BY <1>1, <1>2, <1>3, <1>4, <1>5, <1>6, <1>7

\* The records a handler moves on to keep its request.
Moved(n, r) == Formed(n) /\ n.req = r.req /\ n.stage \notin {"hinting", "reading"}

LEMMA MovedOn ==
  ASSUME NEW r, Formed(r), NEW s, s \notin {"hinting", "reading"},
         NEW o, NEW i, NEW f, NEW p
  PROVE  /\ Moved([r EXCEPT !.stage = s], r)
         /\ Moved([r EXCEPT !.stage = s, !.out = o], r)
         /\ Moved([r EXCEPT !.stage = s, !.told = TRUE, !.out = o], r)
         /\ Moved([r EXCEPT !.stage = s, !.back = i, !.resp = f, !.out = o], r)
         /\ r.stage = s => Moved([r EXCEPT !.out = o, !.resp = f, !.replied = p], r)
  BY DEF Moved, Formed, Fields

LEMMA RelayStep ==
  ASSUME TypeInv, GateInv, NEW h \in Handlers,
         \/ Wake(h) \/ Reach(h) \/ Unreachable(h) \/ Answered(h)
         \/ RelayBuffered(h) \/ Deliver(h) \/ RelayUntapped(h)
         \/ RelayStream(h) \/ StreamEvent(h) \/ StreamEnd(h)
  PROVE  Safely(h)
<1> USE DEF Moves, Becomes, At
<1>1. handler[h].stage \in Decided /\ UNCHANGED setup
  BY DEF Wake, Reach, Unreachable, Answered, RelayBuffered, Deliver, RelayUntapped, RelayStream,
     StreamEvent, StreamEnd, Decided
<1>2. \E r : Moved(r, handler[h]) /\ handler' = [handler EXCEPT ![h] = r]
  <2>0. Formed(handler[h])
    BY DEF TypeInv
  <2>1. CASE Wake(h)
    <3>1. handler' = [handler EXCEPT ![h] =
            [handler[h] EXCEPT !.stage = "sending"]]
      BY <2>1 DEF Wake
    <3>2. QED
      BY <2>0, <3>1, MovedOn
  <2>2. CASE Reach(h)
    <3>1. handler' = [handler EXCEPT ![h] =
            [handler[h] EXCEPT !.stage = "waiting"]]
      BY <2>2 DEF Reach
    <3>2. QED
      BY <2>0, <3>1, MovedOn
  <2>3. CASE Unreachable(h)
    <3>1. handler' = [handler EXCEPT ![h] =
            [handler[h] EXCEPT !.stage = "end", !.told = TRUE, !.out = Remaining(h)]]
      BY <2>3 DEF Unreachable
    <3>2. QED
      BY <2>0, <3>1, MovedOn
  <2>4. CASE Answered(h)
    <3>1. handler' = [handler EXCEPT ![h] =
            [handler[h] EXCEPT !.stage = "relaying", !.told = TRUE, !.out = Untold(h)]]
      BY <2>4 DEF Answered
    <3>2. QED
      BY <2>0, <3>1, MovedOn
  <2>5. CASE Deliver(h)
    <3>1. handler' = [handler EXCEPT ![h] =
            [handler[h] EXCEPT !.stage = "end",
                       !.out = Injected("s2c", handler[h].resp.ts, handler[h].back) \o Remaining(h)]]
      BY <2>5 DEF Deliver
    <3>2. QED
      BY <2>0, <3>1, MovedOn
  <2>6. CASE RelayUntapped(h)
    <3>1. handler' = [handler EXCEPT ![h] =
            [handler[h] EXCEPT !.stage = "end", !.out = Remaining(h)]]
      BY <2>6 DEF RelayUntapped
    <3>2. QED
      BY <2>0, <3>1, MovedOn
  <2>7. CASE RelayStream(h)
    <3>1. handler' = [handler EXCEPT ![h] =
            [handler[h] EXCEPT !.stage = "streaming", !.out = Remaining(h)]]
      BY <2>7 DEF RelayStream
    <3>2. QED
      BY <2>0, <3>1, MovedOn
  <2>8. CASE StreamEnd(h)
    <3>1. handler' = [handler EXCEPT ![h] =
            [handler[h] EXCEPT !.stage = "end"]]
      BY <2>8 DEF StreamEnd
    <3>2. QED
      BY <2>0, <3>1, MovedOn
  <2>9. CASE RelayBuffered(h)
    <3>1. PICK f, i : \/ handler' = [handler EXCEPT ![h] = [handler[h] EXCEPT
                           !.stage = "delaying", !.back = i, !.resp = f, !.out = Tap(f)]]
                      \/ handler' = [handler EXCEPT ![h] = [handler[h] EXCEPT
                           !.stage = "end", !.back = i, !.resp = f,
                           !.out = Tap(f) \o Injected("s2c", f.ts, i) \o Remaining(h)]]
      BY <2>9 DEF RelayBuffered
    <3>2. QED
      BY <2>0, <3>1, MovedOn
  <2>10. CASE StreamEvent(h)
    <3>1. PICK f : handler' = [handler EXCEPT ![h] = [handler[h] EXCEPT
                     !.out = Tap(f), !.resp = f, !.replied = @ \/ f.method = "none"]]
      BY <2>10 DEF StreamEvent
    <3>2. handler[h].stage = "streaming"
      BY <2>10 DEF StreamEvent
    <3>3. QED
      BY <2>0, <3>1, <3>2, MovedOn
  <2>11. QED
    BY <2>1, <2>2, <2>3, <2>4, <2>5, <2>6, <2>7, <2>8, <2>9, <2>10
<1>3. QED
  BY <1>1, <1>2, Onward DEF Moved

LEMMA LeavingStep ==
  ASSUME TypeInv, GateInv, NEW h \in Handlers, HangUp(h) \/ Finish(h) \/ Enqueue(h)
  PROVE  Safely(h)
<1>1. CASE HangUp(h) \/ Finish(h)
  <2>1. UNCHANGED setup /\ handler' = [handler EXCEPT ![h] = Idle]
    BY <1>1 DEF HangUp, Finish, Moves, Becomes
  <2>2. Safe(Idle)
    BY DEF Safe, Idle, Formed, Fields, Cleared, Posted, Decided
  <2>3. QED
    BY <2>1, <2>2 DEF Safely
<1>2. CASE Enqueue(h)
  <2> DEFINE r == [handler[h] EXCEPT !.out = Tail(@)]
  <2>1. UNCHANGED setup /\ handler' = [handler EXCEPT ![h] = r]
    BY <1>2 DEF Enqueue, Becomes
  <2>2. Formed(r) /\ r.stage = handler[h].stage /\ r.req = handler[h].req
    BY DEF TypeInv, Formed, Fields
  <2>3. Safe(r)
    BY <2>2 DEF Safe, GateInv, Cleared, Posted
  <2>4. QED
    BY <2>1, <2>3 DEF Safely
<1>3. QED
  BY <1>1, <1>2

LEMMA GateStep == TypeInv /\ GateInv /\ [Next]_vars => TypeInv' /\ GateInv'
<1> SUFFICES ASSUME TypeInv, GateInv, [Next]_vars PROVE TypeInv' /\ GateInv'
  OBVIOUS
<1>1. CASE \E h \in Handlers : Safely(h)
  BY <1>1, SafelyKeeps
<1>2. CASE UNCHANGED <<setup, handler>>
  BY <1>2 DEF TypeInv, GateInv, Cleared, Posted
<1>3. Drain => UNCHANGED <<setup, handler>>
  BY DEF Drain, HandleEvent, gateVars
<1>4. UNCHANGED vars => UNCHANGED <<setup, handler>>
  BY DEF vars, gateVars
<1>5. QED
  BY <1>1, <1>2, <1>3, <1>4, DecisionStep, RelayStep, LeavingStep DEF Next

LEMMA GateStart == Init => TypeInv /\ GateInv
<1>1. Safe(Idle)
  BY DEF Safe, Idle, Formed, Fields, Cleared, Posted, Decided
<1>2. QED
  BY <1>1 DEF Init, TypeInv, GateInv, Safe

\* Under enforce no upstream is sent a call the policy forbids or could not inspect:
\* for every policy and every list of faults, however many requests are in flight and
\* wherever a client hangs up (handle_post).
THEOREM GatewayForbids == Spec => []NothingForbiddenReaches
<1>1. TypeInv /\ GateInv => NothingForbiddenReaches
  BY DEF GateInv, Cleared, NothingForbiddenReaches, Sent, Decided
<1>2. QED
  BY <1>1, GateStart, GateStep, PTL DEF Spec

-----------------------------------------------------------------------------
(* The protocol columns.                                                   *)

SourceInv == source \in {"none", "header", "initialize"}

\* Whatever is drained, in whatever order: the storage thread replaces what it knows
\* of the protocol only by what it knows better (apply_header_hint,
\* record_initialize_negotiation).
THEOREM GatewayProtocolImproves == Spec => ProtocolOnlyImproves
<1>1. Init => SourceInv
  BY DEF Init, LoopInit, SourceInv
<1>2. ASSUME SourceInv, [Next]_vars
      PROVE  SourceInv' /\ (protocol' = protocol \/ Rank(source') > Rank(source))
  <2>1. CASE HandleTap
    BY <1>2, <2>1 DEF HandleTap, SetProtocol, UpdateSession, SourceInv, Rank
  <2>2. CASE HandleHint
    BY <1>2, <2>2 DEF HandleHint, HintApplies, SetProtocol, UpdateSession,
                      SourceInv, Rank
  <2>3. CASE UNCHANGED <<source, protocol>>
    BY <1>2, <2>3 DEF SourceInv
  <2>4. ASSUME NEW h \in Handlers,
               \/ \E c \in Clients, b \in setup.posts : Post(h, c, b)
               \/ Open(h) \/ OfferHint(h) \/ RejectLarge(h) \/ PassUninspected(h)
               \/ Refuse(h) \/ Admit(h) \/ Wake(h) \/ Reach(h) \/ Unreachable(h) \/ Answered(h)
        PROVE  UNCHANGED <<source, protocol>>
    BY <2>4 DEF Post, Open, OfferHint, RejectLarge, PassUninspected, Refuse, Admit, Wake, Reach,
       Unreachable, Answered, Moves, LoopIdle, loopVars
  <2>5. ASSUME NEW h \in Handlers,
               \/ RelayBuffered(h) \/ Deliver(h) \/ RelayUntapped(h) \/ RelayStream(h)
               \/ StreamEvent(h) \/ StreamEnd(h) \/ HangUp(h) \/ Enqueue(h) \/ Finish(h)
        PROVE  UNCHANGED <<source, protocol>>
    BY <2>5 DEF RelayBuffered, Deliver, RelayUntapped, RelayStream, StreamEvent, StreamEnd,
       HangUp, Enqueue, Finish, Moves, LoopIdle, loopVars
  <2>6. HandleEvent \/ UNCHANGED vars => UNCHANGED <<source, protocol>>
    BY DEF HandleEvent, LoopIdle, vars, loopVars
  <2>7. QED
    BY <1>2, <2>1, <2>2, <2>3, <2>4, <2>5, <2>6 DEF Next, Drain
<1>3. SourceInv /\ [Next]_vars
        => SourceInv' /\ [protocol' # protocol => Rank(source') > Rank(source)]_loopVars
  BY <1>2
<1>4. QED
  BY <1>1, <1>3, PTL DEF Spec, ProtocolOnlyImproves

-----------------------------------------------------------------------------
(* What a handler holds and enqueues, as sets.                              *)

IsSeq(s) == s \in Seq(Range(s))

LEMMA EmptyRange == IsSeq(<<>>) /\ Range(<<>>) = {}
  BY DEF IsSeq, Range

LEMMA OneRange == ASSUME NEW x PROVE IsSeq(<<x>>) /\ Range(<<x>>) = {x}
<1>1. DOMAIN <<x>> = {1} /\ <<x>>[1] = x
  OBVIOUS
<1>2. Range(<<x>>) = {x}
  BY <1>1 DEF Range
<1>3. <<x>> \in Seq({x})
  OBVIOUS
<1>4. QED
  BY <1>2, <1>3 DEF IsSeq

LEMMA RangeOf ==
  ASSUME NEW S, NEW s \in Seq(S)
  PROVE  /\ IsSeq(s) /\ Range(s) \subseteq S
         /\ Range(s) = {s[k] : k \in 1 .. Len(s)}
<1>1. Len(s) \in Nat /\ DOMAIN s = 1 .. Len(s)
  BY LenProperties
<1>2. \A k \in 1 .. Len(s) : s[k] \in S
  BY ElementOfSeq
<1>3. Range(s) = {s[k] : k \in 1 .. Len(s)}
  BY <1>1 DEF Range
<1>4. s = [k \in 1 .. Len(s) |-> s[k]]
  BY <1>1, LenProperties
<1>5. s \in [1 .. Len(s) -> Range(s)]
  BY <1>3, <1>4
<1>6. s \in Seq(Range(s))
  BY <1>1, <1>5, SeqDef
<1>7. QED
  BY <1>2, <1>3, <1>6 DEF IsSeq

LEMMA BothRanges ==
  ASSUME NEW s, NEW t, IsSeq(s), IsSeq(t)
  PROVE  IsSeq(s \o t) /\ Range(s \o t) = Range(s) \cup Range(t)
<1> DEFINE S == Range(s) \cup Range(t)
<1>1. s \in Seq(S) /\ t \in Seq(S)
  BY SeqMonotonic DEF IsSeq
<1>2. /\ s \o t \in Seq(S) /\ Len(s \o t) = Len(s) + Len(t)
      /\ \A k \in 1 .. Len(s) + Len(t) :
           (s \o t)[k] = IF k <= Len(s) THEN s[k] ELSE t[k - Len(s)]
  BY <1>1, ConcatProperties
<1>3. /\ Len(s) \in Nat /\ Len(t) \in Nat
      /\ Range(s) = {s[k] : k \in 1 .. Len(s)} /\ Range(t) = {t[k] : k \in 1 .. Len(t)}
      /\ Range(s \o t) = {(s \o t)[k] : k \in 1 .. Len(s) + Len(t)}
  BY <1>1, <1>2, RangeOf, LenProperties
<1>4. IsSeq(s \o t) /\ Range(s \o t) \subseteq S
  BY <1>2, RangeOf
<1>5. ASSUME NEW k \in 1 .. Len(s) PROVE s[k] \in Range(s \o t)
  <2>1. k \in 1 .. Len(s) + Len(t) /\ (s \o t)[k] = s[k]
    BY <1>2, <1>3
  <2>2. QED
    BY <1>3, <2>1
<1>6. ASSUME NEW k \in 1 .. Len(t) PROVE t[k] \in Range(s \o t)
  <2>1. /\ k + Len(s) \in 1 .. Len(s) + Len(t) /\ ~(k + Len(s) <= Len(s))
        /\ (k + Len(s)) - Len(s) = k
    BY <1>3
  <2>2. (s \o t)[k + Len(s)] = t[k]
    BY <1>2, <2>1
  <2>3. QED
    BY <1>3, <2>1, <2>2
<1>7. QED
  BY <1>3, <1>4, <1>5, <1>6

LEMMA RestRange ==
  ASSUME NEW s, IsSeq(s), s # <<>>
  PROVE  /\ IsSeq(Tail(s)) /\ Range(s) = Range(Tail(s)) \cup {Head(s)}
         /\ Len(s) \in Nat \ {0} /\ Len(Tail(s)) = Len(s) - 1
         /\ DOMAIN s = 1 .. Len(s) /\ DOMAIN Tail(s) = 1 .. Len(s) - 1 /\ Head(s) = s[1]
         /\ \A k \in 1 .. Len(s) - 1 : Tail(s)[k] = s[k + 1]
<1>1. s \in Seq(Range(s))
  BY DEF IsSeq
<1>2. /\ Len(s) \in Nat \ {0} /\ Head(s) = s[1] /\ Len(Tail(s)) = Len(s) - 1
      /\ Tail(s) \in Seq(Range(s)) /\ \A k \in 1 .. Len(s) - 1 : Tail(s)[k] = s[k + 1]
  BY <1>1, HeadTailProperties, EmptySeq, LenProperties
<1>3. DOMAIN s = 1 .. Len(s) /\ DOMAIN Tail(s) = 1 .. Len(s) - 1
  BY <1>1, <1>2, LenProperties
<1>4. /\ Range(s) = {s[k] : k \in 1 .. Len(s)} /\ IsSeq(Tail(s))
      /\ Range(Tail(s)) = {Tail(s)[k] : k \in 1 .. Len(s) - 1}
  BY <1>1, <1>2, RangeOf
<1>5. \A k \in 1 .. Len(s) : s[k] = Head(s) \/ s[k] \in Range(Tail(s))
  <2> TAKE k \in 1 .. Len(s)
  <2>1. CASE k = 1
    BY <1>2, <2>1
  <2>2. CASE k # 1
    <3>1. k - 1 \in 1 .. Len(s) - 1 /\ (k - 1) + 1 = k
      BY <1>2, <2>2
    <3>2. Tail(s)[k - 1] = s[k]
      BY <1>2, <3>1
    <3>3. QED
      BY <1>4, <3>1, <3>2
  <2>3. QED
    BY <2>1, <2>2
<1>6. \A k \in 1 .. Len(s) - 1 : Tail(s)[k] \in Range(s)
  <2> TAKE k \in 1 .. Len(s) - 1
  <2>1. k + 1 \in 1 .. Len(s)
    BY <1>2
  <2>2. QED
    BY <1>2, <1>4, <2>1
<1>7. Head(s) \in Range(s)
  BY <1>2, <1>4
<1>8. QED
  BY <1>2, <1>3, <1>4, <1>5, <1>6, <1>7

LEMMA AppendRange ==
  ASSUME NEW s, NEW x, IsSeq(s)
  PROVE  /\ IsSeq(Append(s, x)) /\ Range(Append(s, x)) = Range(s) \cup {x}
         /\ Len(s) \in Nat /\ DOMAIN s = 1 .. Len(s)
         /\ DOMAIN Append(s, x) = 1 .. Len(s) + 1
         /\ \A k \in 1 .. Len(s) : Append(s, x)[k] = s[k]
         /\ Append(s, x)[Len(s) + 1] = x
<1> DEFINE S == Range(s) \cup {x}
<1>1. s \in Seq(S) /\ x \in S
  BY SeqMonotonic DEF IsSeq
<1>2. Len(s) \in Nat /\ DOMAIN s = 1 .. Len(s)
  BY <1>1, LenProperties
<1>3. /\ Append(s, x) \in Seq(S) /\ Len(Append(s, x)) = Len(s) + 1
      /\ \A k \in 1 .. Len(s) : Append(s, x)[k] = s[k]
      /\ Append(s, x)[Len(s) + 1] = x
  BY <1>1, AppendProperties
<1>4. DOMAIN Append(s, x) = 1 .. Len(s) + 1
  BY <1>3, LenProperties
<1>5. /\ Range(s) = {s[k] : k \in 1 .. Len(s)} /\ IsSeq(Append(s, x))
      /\ Range(Append(s, x)) = {Append(s, x)[k] : k \in 1 .. Len(s) + 1}
      /\ Range(Append(s, x)) \subseteq S
  BY <1>1, <1>3, RangeOf
<1>6. \A k \in 1 .. Len(s) : s[k] \in Range(Append(s, x))
  <2> TAKE k \in 1 .. Len(s)
  <2>1. k \in 1 .. Len(s) + 1
    BY <1>2
  <2>2. QED
    BY <1>3, <1>5, <2>1
<1>7. x \in Range(Append(s, x))
  <2>1. Len(s) + 1 \in 1 .. Len(s) + 1
    BY <1>2
  <2>2. QED
    BY <1>3, <1>5, <2>1
<1>8. QED
  BY <1>2, <1>3, <1>4, <1>5, <1>6, <1>7

LEMMA TapRange ==
  ASSUME NEW f PROVE IsSeq(Tap(f)) /\ Range(Tap(f)) = IF setup.record THEN {f} ELSE {}
  BY EmptyRange, OneRange DEF Tap

LEMMA InjectedRange ==
  ASSUME NEW d, NEW t, NEW i
  PROVE  /\ IsSeq(Injected(d, t, i))
         /\ Range(Injected(d, t, i)) = IF i = NoHit THEN {} ELSE {InjectEvent(d, t, i)}
  BY EmptyRange, OneRange DEF Injected

LEMMA EventsRange ==
  ASSUME NEW q, q.secrets \in Nat
  PROVE  IsSeq(SecurityEvents(q))
<1> DEFINE p == setup.policy
           n == Len(Raised(p, q))
<1> DEFINE S == {"deny_list", "not_allowed", "secret_leak"}
<1>1. DenyReason(p, q) \in Seq(S)
  <2>1. DenyReason(p, q) \in {<<>>, <<"deny_list">>, <<"not_allowed">>}
    BY DEF DenyReason
  <2>2. <<>> \in Seq(S) /\ <<"deny_list">> \in Seq(S) /\ <<"not_allowed">> \in Seq(S)
    OBVIOUS
  <2>3. QED
    BY <2>1, <2>2
<1>2. SecretHits(p, q) \in Seq(S)
  <2> DEFINE m == IF p.scan THEN q.secrets ELSE 0
  <2>1. m \in Nat
    OBVIOUS
  <2>2. [k \in 1 .. m |-> "secret_leak"] \in Seq(S)
    BY <2>1
  <2>3. QED
    BY <2>2 DEF SecretHits
<1>3. Raised(p, q) \in Seq(S)
  <2>1. DenyReason(p, q) \o SecretHits(p, q) \in Seq(S) /\ <<>> \in Seq(S)
    BY <1>1, <1>2, ConcatProperties, EmptySeq
  <2>2. QED
    BY <2>1 DEF Raised
<1>4. n \in Nat /\ DOMAIN Raised(p, q) = 1 .. n
  BY <1>3, LenProperties
<1>5. SecurityEvents(q) = [k \in 1 .. n |-> SecurityEvent(q, k)]
  BY <1>4 DEF SecurityEvents
<1>6. SecurityEvents(q) \in [1 .. n -> Range(SecurityEvents(q))]
  BY <1>5 DEF Range
<1>7. QED
  BY <1>4, <1>6, SeqDef DEF IsSeq
\* Before the response: the request may still have to be recorded.
Pre == {"hinting", "reading", "sleeping", "sending", "waiting"}

\* What is recorded of a request, and of the faults applied to it and to its answer.
Tale(q) == Range(RequestTap(q)) \cup Range(SecurityEvents(q))
HitOf(r) == Range(Injected("c2s", r.req.ts, r.hit))
BackOf(r) == Range(Injected("s2c", r.resp.ts, r.back))

Whole(r) ==
  /\ IsSeq(r.out)
  /\ r.stage \in {"hinting", "reading"} => r.hit = NoHit /\ r.told /\ r.req # Nothing
  /\ r.stage \in Pre \cup {"relaying"} => r.back = NoHit /\ r.resp = Nothing
  /\ r.stage = "streaming" => r.back = NoHit
  /\ r.stage \in {"relaying", "delaying", "streaming", "end"} => r.told
  /\ ~r.told => r.req # Nothing /\ r.req.secrets \in Nat
  /\ r.resp = Nothing \/ r.resp.kind = "tap"

\* What is on record, or about to be, of what a handler has done.
Told(r) ==
  LET has == Enqueued \cup Range(r.out) IN
  /\ r.told /\ r.req # Nothing /\ r.stage \notin {"hinting", "reading"} /\ r.req.size = "fits"
       => Tale(r.req) \subseteq has
  /\ r.stage \in {"streaming", "end"} => HitOf(r) \cup BackOf(r) \subseteq has
  /\ r.resp # Nothing => Range(Tap(r.resp)) \subseteq has

\* The faults a handler has applied, recorded or not.
Hits(r) == {m \in Range(r.out) : m.kind = "inj"} \cup HitOf(r) \cup BackOf(r)

\* Rule i fires, and it may.
Fired(i) == /\ i \in DOMAIN setup.rules /\ ~Exhausted(setup.rules, counts, i)
            /\ counts' = Counted(counts, i)
Triggers(x, r) ==
  \/ Hits(r) \subseteq Hits(x) /\ UNCHANGED counts
  \/ \E i, d, t : Fired(i) /\ Hits(r) \subseteq Hits(x) \cup {InjectEvent(d, t, i)}

Ticks == clock' = clock + 1
\* A request new to the handler has a ts of its own, and an id of its client.
Numbers(q) ==
  \/ q.id = NoId /\ UNCHANGED asked
  \/ \E c \in Clients : /\ q.id = asked[c] + 1
                        /\ asked' = [asked EXCEPT ![c] = asked[c] + 1]
Begins(q) == q.ts = clock /\ Ticks /\ Numbers(q)

RequestFrame(q) == Frame("c2s", q.method, q.id, FALSE, "plain", q.ts, 0)
\* A frame of the upstream: an answer to the request q, or none.
AnswerFrame(m, q) ==
  /\ m.dir = "s2c" /\ m.ts = clock
  /\ m.method = "none" => m.answers = q.ts /\ m.id \in {q.id, NoId}
  /\ m.method # "none" => m.answers = 0
  /\ m.body = "version" => m.method = "none" /\ m.id = q.id /\ m.id # NoId

\* What a handler taps: its request before the response, and then frames of that.
TapsOwn(x, r) ==
  \A m \in Range(r.out) : m.kind = "tap" =>
    /\ r.req = x.req
    /\ \/ x.stage \in Pre /\ x.req # Nothing /\ m = RequestFrame(x.req)
       \/ x.stage \notin Pre /\ Ticks /\ AnswerFrame(m, x.req)

Timed(x, r) ==
  /\ \/ r.req = x.req /\ (r.stage \in Pre => x.stage \in Pre) /\ UNCHANGED asked
     \/ r.req = Nothing /\ UNCHANGED asked
     \/ Begins(r.req)
  /\ UNCHANGED clock \/ Ticks

Stay == UNCHANGED <<loopVars, setup, dropLogged, events>>
Turn(h, r) ==
  LET x == handler[h] IN
  /\ Formed(r) /\ handler' = [handler EXCEPT ![h] = r] /\ x.out = <<>> /\ Stay
  /\ Whole(r) /\ (Told(x) => Told(r))
  /\ Triggers(x, r) /\ Timed(x, r) /\ TapsOwn(x, r)

ClockInv == clock \in Nat \ {0}
WholeInv == ClockInv /\ \A h \in Handlers : Whole(handler[h])

LEMMA TaleRange ==
  ASSUME NEW q, q.secrets \in Nat
  PROVE  /\ IsSeq(RequestTap(q) \o SecurityEvents(q))
         /\ Range(RequestTap(q) \o SecurityEvents(q)) = Tale(q)
  BY TapRange, EventsRange, BothRanges DEF RequestTap, Tale

LEMMA TaleOf ==
  ASSUME NEW q, NEW m \in Tale(q)
  PROVE  m = RequestFrame(q) \/ m.kind = "sec"
<1>1. CASE m \in Range(SecurityEvents(q))
  <2>1. PICK k \in DOMAIN Raised(setup.policy, q) : m = SecurityEvent(q, k)
    BY <1>1 DEF Range, SecurityEvents
  <2>2. QED
    BY <2>1 DEF SecurityEvent
<1>2. CASE m \in Range(RequestTap(q))
  BY <1>2, TapRange DEF RequestTap, RequestFrame
<1>3. QED
  BY <1>1, <1>2 DEF Tale

\* What is left to record.
Left(x) == IF x.told THEN {} ELSE Tale(x.req)
LEMMA UntoldRange ==
  ASSUME NEW h \in Handlers, Whole(handler[h])
  PROVE  /\ IsSeq(Untold(h)) /\ Range(Untold(h)) = Left(handler[h])
         /\ IsSeq(Remaining(h)) /\ Range(Remaining(h)) = Left(handler[h]) \cup HitOf(handler[h])
<1>1. IsSeq(Untold(h)) /\ Range(Untold(h)) = Left(handler[h])
  BY TaleRange, EmptyRange DEF Untold, Left, Whole
<1>2. QED
  BY <1>1, InjectedRange, BothRanges DEF Remaining, HitOf

\* A record, read field by field.
Reads(r, stage, req, told, out, hit, back, resp) ==
  /\ Formed(r) /\ r.stage = stage /\ r.req = req /\ r.told = told /\ r.out = out
  /\ r.hit = hit /\ r.back = back /\ r.resp = resp

LEMMA Edits ==
  ASSUME NEW x, Formed(x), NEW s, NEW o, NEW i, NEW f, NEW p, NEW t
  PROVE  /\ Reads([x EXCEPT !.stage = s], s, x.req, x.told, x.out, x.hit, x.back, x.resp)
         /\ Reads([x EXCEPT !.stage = s, !.out = o],
                  s, x.req, x.told, o, x.hit, x.back, x.resp)
         /\ Reads([x EXCEPT !.stage = s, !.told = TRUE, !.out = o],
                  s, x.req, TRUE, o, x.hit, x.back, x.resp)
         /\ Reads([x EXCEPT !.stage = s, !.hit = i, !.told = t, !.out = o],
                  s, x.req, t, o, i, x.back, x.resp)
         /\ Reads([x EXCEPT !.stage = s, !.back = i, !.resp = f, !.out = o],
                  s, x.req, x.told, o, x.hit, i, f)
         /\ Reads([x EXCEPT !.out = o, !.resp = f, !.replied = p],
                  x.stage, x.req, x.told, o, x.hit, x.back, f)
         /\ Reads([x EXCEPT !.out = o], x.stage, x.req, x.told, o, x.hit, x.back, x.resp)
         /\ Reads([x EXCEPT !.stage = s, !.req = f],
                  s, f, x.told, x.out, x.hit, x.back, x.resp)
  BY DEF Reads, Formed, Fields

\* A handler that starts afresh has nothing to record.
LEMMA Afresh ==
  ASSUME NEW h \in Handlers, NEW r, NEW s, NEW q, Reads(r, s, q, TRUE, <<>>, NoHit, NoHit, Nothing),
         \/ q = Nothing /\ s \in {"idle", "sending"}
         \/ q # Nothing /\ s \in {"hinting", "reading"}
  PROVE  Whole(r) /\ Told(r) /\ Hits(r) = {} /\ TapsOwn(handler[h], r)
<1>1. IsSeq(<<>>) /\ Range(<<>>) = {}
  BY EmptyRange
<1>2. HitOf(r) = {} /\ BackOf(r) = {}
  BY InjectedRange DEF HitOf, BackOf, Reads
<1>3. QED
  BY <1>1, <1>2 DEF Reads, Whole, Told, Hits, TapsOwn
LEMMA BeginTurn ==
  ASSUME TypeInv, GateInv, WholeInv, NEW h \in Handlers,
         \/ \E c \in Clients, b \in setup.posts : Post(h, c, b)
         \/ Open(h) \/ RejectLarge(h) \/ HangUp(h) \/ Finish(h)
  PROVE  \E r : Turn(h, r)
<1>0. Formed(Idle) /\ Reads(Idle, "idle", Nothing, TRUE, <<>>, NoHit, NoHit, Nothing)
  BY DEF Idle, Formed, Fields, Reads
<1>9. /\ Idle.told = TRUE /\ Idle.out = <<>> /\ Idle.hit = NoHit /\ Idle.back = NoHit
      /\ Idle.resp = Nothing /\ Idle.req = Nothing
  BY <1>0 DEF Reads
<1>1. ASSUME NEW c \in Clients, NEW b \in setup.posts, Post(h, c, b) PROVE \E r : Turn(h, r)
  <2> DEFINE n == asked[c] + 1
             q == [method |-> b.method, tool |-> b.tool, secrets |-> b.secrets,
                   size |-> b.size, id |-> IF b.asks THEN n ELSE NoId, ts |-> clock]
             r(s) == [Idle EXCEPT !.stage = s, !.req = q]
  <2>1. PICK s \in {"hinting", "reading"} : handler' = [handler EXCEPT ![h] = r(s)]
    <3>1. \E header \in {FALSE, b.method # "initialize"} :
            Becomes(h, r(IF header /\ ~hintSent THEN "hinting" ELSE "reading"))
      BY <1>1 DEF Post
    <3>2. QED
      BY <3>1 DEF Becomes
  <2>2. /\ handler[h].out = <<>> /\ Stay /\ UNCHANGED counts /\ Ticks
        /\ asked' = IF b.asks THEN [asked EXCEPT ![c] = n] ELSE asked
    BY <1>1 DEF Post, At, Stay, Ticks
  <2>3. q.ts = clock /\ q.id = (IF b.asks THEN n ELSE NoId)
    OBVIOUS
  <2>4. Begins(q)
    BY <2>2, <2>3 DEF Begins, Numbers
  <2>5. q # Nothing
    <3>1. clock # 0 /\ Nothing.ts = 0
      BY DEF WholeInv, ClockInv, Nothing
    <3>2. QED
      BY <2>3, <3>1
  <2> HIDE DEF q
  <2>6. Reads(r(s), s, q, TRUE, <<>>, NoHit, NoHit, Nothing)
    <3>1. Reads(r(s), s, q, Idle.told, Idle.out, Idle.hit, Idle.back, Idle.resp)
      BY <1>0, Edits
    <3>2. QED
      BY <1>9, <3>1
  <2>7. r(s).req = q /\ Formed(r(s))
    BY <2>6 DEF Reads
  <2> HIDE DEF r
  <2>8. Whole(r(s)) /\ Told(r(s)) /\ Hits(r(s)) = {} /\ TapsOwn(handler[h], r(s))
    BY <2>5, <2>6, Afresh
  <2>9. Timed(handler[h], r(s)) /\ Triggers(handler[h], r(s))
    BY <2>2, <2>4, <2>7, <2>8 DEF Timed, Triggers, Begins
  <2>10. QED
    BY <2>1, <2>2, <2>7, <2>8, <2>9 DEF Turn
<1>2. ASSUME NEW r, NEW s \in {"idle", "sending"}, Moves(h, r), handler[h].out = <<>>,
             Reads(r, s, Nothing, TRUE, <<>>, NoHit, NoHit, Nothing)
      PROVE  Turn(h, r)
  <2>1. Formed(r) /\ r.req = Nothing
    BY <1>2 DEF Reads
  <2>2. /\ handler' = [handler EXCEPT ![h] = r] /\ Stay
        /\ UNCHANGED <<counts, clock, asked>>
    BY <1>2 DEF Moves, Becomes, Stay
  <2>3. Whole(r) /\ Told(r) /\ Hits(r) = {} /\ TapsOwn(handler[h], r)
    BY <1>2, Afresh
  <2>4. Timed(handler[h], r) /\ Triggers(handler[h], r)
    BY <2>1, <2>2, <2>3 DEF Timed, Triggers
  <2>5. QED
    BY <1>2, <2>1, <2>2, <2>3, <2>4 DEF Turn
<1>3. CASE Open(h)
  <2> DEFINE r == [Idle EXCEPT !.stage = "sending"]
  <2>1. Moves(h, r) /\ handler[h].out = <<>>
    BY <1>3 DEF Open, At
  <2>2. Reads(r, "sending", Nothing, TRUE, <<>>, NoHit, NoHit, Nothing)
    <3>1. Reads(r, "sending", Idle.req, Idle.told, Idle.out, Idle.hit, Idle.back, Idle.resp)
      BY <1>0, Edits
    <3>2. QED
      BY <1>9, <3>1
  <2>3. QED
    BY <2>1, <2>2, <1>2
<1>4. CASE RejectLarge(h) \/ HangUp(h) \/ Finish(h)
  <2>1. Moves(h, Idle) /\ handler[h].out = <<>>
    BY <1>4 DEF RejectLarge, HangUp, Finish, At
  <2>2. QED
    BY <1>0, <1>2, <2>1
<1>5. QED
  BY <1>1, <1>3, <1>4

\* A handler that changes its stage only.
LEMMA StrideTurn ==
  ASSUME TypeInv, GateInv, WholeInv, NEW h \in Handlers,
         PassUninspected(h) \/ Wake(h) \/ Reach(h) \/ StreamEnd(h)
  PROVE  \E r : Turn(h, r)
<1> DEFINE x == handler[h]
<1>1. PICK s : /\ Moves(h, [x EXCEPT !.stage = s]) /\ x.out = <<>>
               /\ \/ x.stage = "reading" /\ s = "sending" /\ x.req.size # "fits"
                  \/ x.stage = "sleeping" /\ s = "sending"
                  \/ x.stage = "sending" /\ s = "waiting"
                  \/ x.stage = "streaming" /\ s = "end"
  BY DEF PassUninspected, Wake, Reach, StreamEnd, At
<1> DEFINE r == [x EXCEPT !.stage = s]
<1>2. Formed(x) /\ Whole(x)
  BY DEF TypeInv, WholeInv
<1>3. Reads(r, s, x.req, x.told, x.out, x.hit, x.back, x.resp)
  BY <1>2, Edits
<1>4. /\ handler' = [handler EXCEPT ![h] = r] /\ Stay
      /\ UNCHANGED <<counts, clock, asked>>
  BY <1>1 DEF Moves, Becomes, Stay
<1> HIDE DEF r
<1>5. Range(<<>>) = {} /\ IsSeq(<<>>)
  BY EmptyRange
<1>6. Whole(r)
  BY <1>1, <1>2, <1>3 DEF Whole, Pre, Reads
<1>7. HitOf(r) = HitOf(x) /\ BackOf(r) = BackOf(x) /\ Range(r.out) = Range(x.out)
  BY <1>3 DEF HitOf, BackOf, Reads
<1>8. Told(x) => Told(r)
  BY <1>1, <1>2, <1>3, <1>7 DEF Told, Reads, Whole
<1>9. Triggers(x, r)
  BY <1>3, <1>4, <1>7 DEF Triggers, Hits, Reads
<1>10. Timed(x, r)
  BY <1>1, <1>3, <1>4 DEF Timed, Reads, Pre
<1>11. TapsOwn(x, r)
  BY <1>1, <1>3, <1>5 DEF TapsOwn, Reads
<1>12. QED
  BY <1>1, <1>3, <1>4, <1>6, <1>8, <1>9, <1>10, <1>11 DEF Turn, Reads
\* A handler that records what is left, with its request and its response as they were:
\* s is its next stage, the records o are L of the request and F of the faults.
Speaks(h, s, o, L, F) ==
  LET x == handler[h] IN
  /\ x.out = <<>> /\ Stay /\ UNCHANGED <<counts, clock, asked>>
  /\ IsSeq(o) /\ Range(o) = L \cup F
  /\ \/ handler' = [handler EXCEPT ![h] = [x EXCEPT !.stage = s, !.told = TRUE, !.out = o]]
     \/ x.told /\ handler' = [handler EXCEPT ![h] = [x EXCEPT !.stage = s, !.out = o]]
  /\ \/ L = Left(x) /\ x.stage \in {"sending", "waiting", "relaying", "delaying"}
     \/ L = Tale(x.req) /\ x.stage = "reading"
  /\ F \subseteq HitOf(x) \cup BackOf(x)
  /\ \/ s = "relaying" /\ x.stage = "waiting"
     \/ s = "streaming" /\ x.stage = "relaying"
     \/ s = "end"
  /\ s \in {"streaming", "end"} => HitOf(x) \cup BackOf(x) \subseteq F

LEMMA SpeakingTurns ==
  ASSUME TypeInv, WholeInv, NEW h \in Handlers, NEW s, NEW o, NEW L, NEW F, Speaks(h, s, o, L, F)
  PROVE  \E r : Turn(h, r)
<1> DEFINE x == handler[h]
<1>w. Formed(x) /\ Whole(x)
  BY DEF TypeInv, WholeInv
<1>s. /\ x.out = <<>> /\ Stay /\ UNCHANGED <<counts, clock, asked>>
      /\ IsSeq(o) /\ Range(o) = L \cup F
      /\ \/ handler' = [handler EXCEPT ![h] = [x EXCEPT !.stage = s, !.told = TRUE, !.out = o]]
         \/ x.told /\ handler' = [handler EXCEPT ![h] = [x EXCEPT !.stage = s, !.out = o]]
      /\ \/ L = Left(x) /\ x.stage \in {"sending", "waiting", "relaying", "delaying"}
         \/ L = Tale(x.req) /\ x.stage = "reading"
      /\ F \subseteq HitOf(x) \cup BackOf(x)
      /\ \/ s = "relaying" /\ x.stage = "waiting"
         \/ s = "streaming" /\ x.stage = "relaying"
         \/ s = "end"
      /\ s \in {"streaming", "end"} => HitOf(x) \cup BackOf(x) \subseteq F
  BY DEF Speaks
<1>1. PICK r : /\ handler' = [handler EXCEPT ![h] = r]
               /\ Reads(r, s, x.req, TRUE, o, x.hit, x.back, x.resp)
  <2>1. CASE handler' = [handler EXCEPT ![h] = [x EXCEPT !.stage = s, !.told = TRUE, !.out = o]]
    BY <1>w, <2>1, Edits
  <2>2. CASE x.told /\ handler' = [handler EXCEPT ![h] = [x EXCEPT !.stage = s, !.out = o]]
    <3>1. Reads([x EXCEPT !.stage = s, !.out = o], s, x.req, x.told, o, x.hit, x.back, x.resp)
      BY <1>w, Edits
    <3> DEFINE r0 == [x EXCEPT !.stage = s, !.out = o]
    <3>2. handler' = [handler EXCEPT ![h] = r0]
      BY <2>2
    <3>3. Reads(r0, s, x.req, TRUE, o, x.hit, x.back, x.resp)
      <4>0. [x EXCEPT !.stage = s, !.out = o].told = x.told
        BY <3>1 DEF Reads
      <4>1. r0.told = TRUE
        BY <2>2, <1>w, <4>0 DEF Whole
      <4> HIDE DEF r0
      <4>2. QED
        BY <3>1, <4>1 DEF Reads, r0
    <3>4. QED
      BY <3>2, <3>3
  <2>3. QED
    BY <1>s, <2>1, <2>2
<1>2. Whole(r)
  BY <1>w, <1>s, <1>1 DEF Whole, Pre, Reads
<1>3. HitOf(r) = HitOf(x) /\ BackOf(r) = BackOf(x)
  BY <1>1 DEF HitOf, BackOf, Reads
<1>4. Range(<<>>) = {}
  BY EmptyRange
<1>5. ~x.told \/ x.stage = "reading" => Tale(x.req) \subseteq Range(o)
  BY <1>s DEF Left
<1>6. Told(x) => Told(r)
  BY <1>w, <1>s, <1>1, <1>3, <1>4, <1>5 DEF Told, Reads, Whole
<1>7. \A m \in L : m = RequestFrame(x.req) \/ m.kind = "sec"
  BY <1>s, TaleOf DEF Left
<1>8. \A m \in F : m.kind = "inj"
  BY <1>s, InjectedRange DEF HitOf, BackOf, InjectEvent
<1>9. Triggers(x, r)
  <2>1. \A m \in Range(r.out) : m.kind = "inj" => m \in HitOf(x) \cup BackOf(x)
    BY <1>s, <1>1, <1>7 DEF Reads, RequestFrame, Frame
  <2>2. QED
    BY <1>s, <1>3, <2>1 DEF Triggers, Hits
<1>10. Timed(x, r)
  BY <1>s, <1>1 DEF Timed, Reads, Pre
<1>11. TapsOwn(x, r)
  <2> SUFFICES ASSUME NEW m \in Range(r.out), m.kind = "tap"
               PROVE  r.req = x.req /\ x.stage \in Pre /\ x.req # Nothing /\ m = RequestFrame(x.req)
    BY DEF TapsOwn
  <2>1. m \in L /\ m = RequestFrame(x.req)
    BY <1>s, <1>1, <1>7, <1>8 DEF Reads
  <2>2. x.stage \in Pre /\ x.req # Nothing
    BY <1>w, <1>s, <2>1 DEF Left, Whole, Pre
  <2>3. QED
    BY <1>1, <2>1, <2>2 DEF Reads
<1>12. Formed(r)
  BY <1>1 DEF Reads
<1>13. QED
  BY <1>s, <1>1, <1>2, <1>6, <1>9, <1>10, <1>11, <1>12 DEF Turn

LEMMA SpeakTurn ==
  ASSUME TypeInv, GateInv, WholeInv, NEW h \in Handlers,
         \/ Refuse(h) \/ Unreachable(h) \/ Answered(h) \/ Deliver(h)
         \/ RelayUntapped(h) \/ RelayStream(h)
  PROVE  \E r : Turn(h, r)
<1> DEFINE x == handler[h]
<1>1. Formed(x) /\ Whole(x)
  BY DEF TypeInv, WholeInv
<1>2. ASSUME NEW s, NEW o, NEW L, NEW F, Speaks(h, s, o, L, F) PROVE \E r : Turn(h, r)
  BY <1>2, SpeakingTurns
<1>3. /\ IsSeq(Untold(h)) /\ Range(Untold(h)) = Left(x)
      /\ IsSeq(Remaining(h)) /\ Range(Remaining(h)) = Left(x) \cup HitOf(x)
  BY <1>1, UntoldRange
<1>4. x.stage \in Pre \cup {"relaying"} => BackOf(x) = {}
  BY <1>1, InjectedRange DEF BackOf, Whole
<1>5. CASE Refuse(h)
  <2> DEFINE o == RequestTap(x.req) \o SecurityEvents(x.req)
  <2>1. /\ x.stage = "reading" /\ x.out = <<>> /\ Stay /\ UNCHANGED <<counts, clock, asked>>
        /\ handler' = [handler EXCEPT ![h] = [x EXCEPT !.stage = "end", !.told = TRUE, !.out = o]]
    BY <1>5 DEF Refuse, At, Moves, Becomes, Stay
  <2>2. IsSeq(o) /\ Range(o) = Tale(x.req)
    <3>1. x.req.secrets \in Nat
      BY <2>1 DEF GateInv, Posted
    <3>2. QED
      BY <3>1, TaleRange
  <2>3. HitOf(x) \cup BackOf(x) = {}
    BY <1>1, <2>1, InjectedRange DEF HitOf, BackOf, Whole, Pre
  <2>4. Range(o) = Tale(x.req) \cup {}
    BY <2>2
  <2> HIDE DEF o
  <2>5. Speaks(h, "end", o, Tale(x.req), {})
    BY <2>1, <2>2, <2>3, <2>4 DEF Speaks
  <2>6. QED
    BY <1>2, <2>5
<1>6. CASE Unreachable(h)
  <2>1. /\ x.stage \in {"sending", "waiting"} /\ x.out = <<>>
        /\ Stay /\ UNCHANGED <<counts, clock, asked>>
        /\ handler' = [handler EXCEPT ![h] =
             [x EXCEPT !.stage = "end", !.told = TRUE, !.out = Remaining(h)]]
    BY <1>6 DEF Unreachable, At, Moves, Becomes, Stay
  <2>2. HitOf(x) \cup BackOf(x) = HitOf(x)
    BY <1>4, <2>1 DEF Pre
  <2>3. Speaks(h, "end", Remaining(h), Left(x), HitOf(x))
    BY <1>3, <2>1, <2>2 DEF Speaks
  <2>4. QED
    BY <1>2, <2>3
<1>7. CASE Answered(h)
  <2>1. /\ x.stage = "waiting" /\ x.out = <<>>
        /\ Stay /\ UNCHANGED <<counts, clock, asked>>
        /\ handler' = [handler EXCEPT ![h] =
             [x EXCEPT !.stage = "relaying", !.told = TRUE, !.out = Untold(h)]]
    BY <1>7 DEF Answered, At, Moves, Becomes, Stay
  <2>2. Range(Untold(h)) = Left(x) \cup {}
    BY <1>3
  <2>3. Speaks(h, "relaying", Untold(h), Left(x), {})
    BY <1>3, <2>1, <2>2 DEF Speaks
  <2>4. QED
    BY <1>2, <2>3
<1>8. CASE RelayUntapped(h) \/ RelayStream(h)
  <2>1. PICK s : /\ x.stage = "relaying" /\ x.out = <<>> /\ s \in {"end", "streaming"}
                 /\ Stay /\ UNCHANGED <<counts, clock, asked>>
                 /\ handler' = [handler EXCEPT ![h] = [x EXCEPT !.stage = s, !.out = Remaining(h)]]
    BY <1>8 DEF RelayUntapped, RelayStream, At, Moves, Becomes, Stay
  <2>2. HitOf(x) \cup BackOf(x) = HitOf(x) /\ x.told
    BY <1>1, <1>4, <2>1 DEF Whole
  <2>3. Speaks(h, s, Remaining(h), Left(x), HitOf(x))
    BY <1>3, <2>1, <2>2 DEF Speaks
  <2>4. QED
    BY <1>2, <2>3
<1>9. CASE Deliver(h)
  <2> DEFINE o == Injected("s2c", x.resp.ts, x.back) \o Remaining(h)
  <2>1. /\ x.stage = "delaying" /\ x.out = <<>>
        /\ Stay /\ UNCHANGED <<counts, clock, asked>>
        /\ handler' = [handler EXCEPT ![h] = [x EXCEPT !.stage = "end", !.out = o]]
    BY <1>9 DEF Deliver, At, Becomes, Stay
  <2>2. IsSeq(o) /\ Range(o) = BackOf(x) \cup (Left(x) \cup HitOf(x))
    BY <1>3, InjectedRange, BothRanges DEF BackOf
  <2>3. Range(o) = Left(x) \cup (HitOf(x) \cup BackOf(x)) /\ x.told
    BY <1>1, <2>1, <2>2 DEF Whole
  <2> HIDE DEF o
  <2>4. Speaks(h, "end", o, Left(x), HitOf(x) \cup BackOf(x))
    BY <2>1, <2>2, <2>3 DEF Speaks
  <2>5. QED
    BY <1>2, <2>4
<1>10. QED
  BY <1>5, <1>6, <1>7, <1>8, <1>9
\* What the injector decides: the rule that fires may.
LEMMA DecisionMay ==
  ASSUME NEW d, NEW m, NEW i \in Decisions(setup.rules, counts, d, m),
         counts' = Counted(counts, i), counts = [j \in DOMAIN counts |-> counts[j]],
         NoHit \notin DOMAIN counts
  PROVE  IF i = NoHit THEN UNCHANGED counts ELSE Fired(i)
<1>1. CASE i = NoHit
  <2>1. \A j \in DOMAIN counts : j # i
    BY <1>1
  <2>2. QED
    BY <1>1, <2>1 DEF Counted
<1>2. CASE i # NoHit
  BY <1>2 DEF Decisions, Eligible, Fired
<1>3. QED
  BY <1>1, <1>2

CountType == counts \in [DOMAIN setup.rules -> Nat]

LEMMA RuleIndices ==
  ASSUME TypeInv
  PROVE  /\ NoHit \notin DOMAIN setup.rules
         /\ \A i \in DOMAIN setup.rules : setup.rules[i].max \subseteq Nat
<1> DEFINE R == [dir : {"c2s", "s2c"}, methods : SUBSET Methods, certain : BOOLEAN,
                 max : SUBSET Nat, fault : Fault]
<1>1. setup.rules \in Seq(R)
  BY GatewayAssumption DEF TypeInv
<1>2. DOMAIN setup.rules = 1 .. Len(setup.rules) /\ Len(setup.rules) \in Nat
  BY <1>1, LenProperties
<1>3. \A i \in DOMAIN setup.rules : setup.rules[i] \in R
  BY <1>1, <1>2, ElementOfSeq
<1>4. QED
  BY <1>2, <1>3 DEF NoHit

\* Admitted, with a fault or without.
LEMMA AdmitTurn ==
  ASSUME TypeInv, GateInv, WholeInv, CountType, NEW h \in Handlers, Admit(h)
  PROVE  \E r : Turn(h, r)
<1> DEFINE x == handler[h]
           q == x.req
           fault(i) == IF i = NoHit THEN "none" ELSE setup.rules[i].fault
           next(i) == CASE fault(i) = "delay" -> "sleeping"
                        [] fault(i) \in {"drop", "error"} -> "end"
                        [] OTHER -> "sending"
           tell == RequestTap(q) \o SecurityEvents(q)
           o(i) == (IF i = NoHit THEN <<>> ELSE tell)
                     \o (IF fault(i) \in {"drop", "error"} THEN Injected("c2s", q.ts, i) ELSE <<>>)
<1>w. Formed(x) /\ Whole(x)
  BY DEF TypeInv, WholeInv
<1>1. /\ x.stage = "reading" /\ x.out = <<>> /\ q.size = "fits"
      /\ Stay /\ UNCHANGED <<clock, asked>>
  BY DEF Admit, At, Stay
<1>2. PICK i \in Decisions(setup.rules, counts, "c2s", q.method) :
        /\ counts' = Counted(counts, i)
        /\ handler' = [handler EXCEPT ![h] = [x EXCEPT
             !.stage = next(i), !.hit = i, !.told = i # NoHit, !.out = o(i)]]
  BY DEF Admit, Becomes
<1>3. IF i = NoHit THEN UNCHANGED counts ELSE Fired(i)
  <2>1. counts = [j \in DOMAIN counts |-> counts[j]] /\ NoHit \notin DOMAIN counts
    BY RuleIndices DEF CountType
  <2>2. QED
    BY <1>2, <2>1, DecisionMay
<1> DEFINE r == [x EXCEPT !.stage = next(i), !.hit = i, !.told = i # NoHit, !.out = o(i)]
<1>4. Reads(r, next(i), q, i # NoHit, o(i), i, x.back, x.resp)
  BY <1>w, Edits
<1>5. handler' = [handler EXCEPT ![h] = r]
  BY <1>2
<1> HIDE DEF r
<1>6. /\ q.secrets \in Nat /\ q # Nothing /\ x.hit = NoHit /\ x.told
      /\ x.back = NoHit /\ x.resp = Nothing
  BY <1>w, <1>1 DEF GateInv, Posted, Whole, Pre
<1>7. IsSeq(tell) /\ Range(tell) = Tale(q)
  BY <1>6, TaleRange
<1>8. /\ IsSeq(o(i))
      /\ Range(o(i)) = (IF i = NoHit THEN {} ELSE Tale(q))
             \cup (IF fault(i) \in {"drop", "error"} THEN HitOf(r) ELSE {})
  <2>1. q = r.req /\ i = r.hit
    BY <1>4 DEF Reads
  <2> DEFINE a == IF i = NoHit THEN <<>> ELSE tell
             b == IF fault(i) \in {"drop", "error"} THEN Injected("c2s", q.ts, i) ELSE <<>>
  <2>2. IsSeq(a) /\ Range(a) = IF i = NoHit THEN {} ELSE Tale(q)
    BY <1>7, EmptyRange
  <2>3. IsSeq(b) /\ Range(b) = IF fault(i) \in {"drop", "error"} THEN HitOf(r) ELSE {}
    BY <2>1, EmptyRange, InjectedRange DEF HitOf
  <2> HIDE DEF a, b
  <2>4. IsSeq(a \o b) /\ Range(a \o b) = Range(a) \cup Range(b)
    BY <2>2, <2>3, BothRanges
  <2>5. o(i) = a \o b
    BY DEF a, b
  <2>6. QED
    BY <2>2, <2>3, <2>4, <2>5
<1>9. /\ HitOf(r) = (IF i = NoHit THEN {} ELSE {InjectEvent("c2s", q.ts, i)})
      /\ BackOf(r) = {}
  <2>1. r.req = q /\ r.hit = i /\ r.back = NoHit
    BY <1>4, <1>6 DEF Reads
  <2>2. HitOf(r) = Range(Injected("c2s", q.ts, i))
    BY <2>1 DEF HitOf
  <2>3. BackOf(r) = Range(Injected("s2c", r.resp.ts, NoHit))
    BY <2>1 DEF BackOf
  <2>4. QED
    BY <2>2, <2>3, InjectedRange
<1>10. next(i) \in {"sleeping", "end", "sending"} /\ (i = NoHit => next(i) = "sending")
       /\ (next(i) = "end" => fault(i) \in {"drop", "error"})
  OBVIOUS
<1>11. \A m \in Tale(q) : m = RequestFrame(q) \/ m.kind = "sec"
  BY TaleOf
<1> HIDE DEF o, next
<1>12. Whole(r)
  BY <1>4, <1>6, <1>8, <1>10 DEF Whole, Reads, Pre
<1>13. Told(r)
  BY <1>4, <1>6, <1>8, <1>9, <1>10 DEF Told, Reads
<1>14. Triggers(x, r)
  <2>1. Hits(r) \subseteq HitOf(r)
    BY <1>4, <1>8, <1>9, <1>11 DEF Hits, Reads, RequestFrame, Frame
  <2>2. CASE i = NoHit
    BY <1>3, <1>9, <2>1, <2>2 DEF Triggers
  <2>3. CASE i # NoHit
    BY <1>3, <1>9, <2>1, <2>3 DEF Triggers
  <2>4. QED
    BY <2>2, <2>3
<1>15. Timed(x, r)
  BY <1>1, <1>4 DEF Timed, Reads, Pre
<1>16. TapsOwn(x, r)
  <2> SUFFICES ASSUME NEW m \in Range(r.out), m.kind = "tap"
               PROVE  m = RequestFrame(x.req)
    BY <1>1, <1>4, <1>6 DEF TapsOwn, Pre, Reads
  <2>1. m \in Tale(q)
    BY <1>4, <1>8, <1>9 DEF Reads, InjectEvent
  <2>2. QED
    BY <1>11, <2>1
<1>17. QED
  BY <1>1, <1>4, <1>5, <1>12, <1>13, <1>14, <1>15, <1>16 DEF Turn, Reads
LEMMA RepliesAnswer ==
  ASSUME NEW h \in Handlers, Ticks
  PROVE  /\ \A f \in Replies(h) : AnswerFrame(f, handler[h].req) /\ f.kind = "tap"
         /\ AnswerFrame(Notice, handler[h].req) /\ Notice.kind = "tap"
<1> DEFINE r == handler[h].req
           cut == handler[h].hit # NoHit /\ setup.rules[handler[h].hit].fault = "truncate"
           bodies == CASE r.id = NoId -> {"plain"}
                        [] r.id # NoId /\ r.method = "initialize" -> {"plain", "version"}
                        [] OTHER -> {"plain", "tools"}
<1>1. \A b \in bodies : b = "version" => r.id # NoId
  <2>1. CASE r.id = NoId
    <3>1. bodies = {"plain"}
      BY <2>1
    <3>2. QED
      BY <3>1
  <2>2. QED
    BY <2>1
<1>2. \A f \in Replies(h) : \/ \E b \in bodies : f = Reply(h, r.id, FALSE, b)
                            \/ f = Reply(h, r.id, TRUE, "plain")
                            \/ f = Reply(h, NoId, TRUE, "plain")
  BY DEF Replies
<1> HIDE DEF bodies
<1>3. \A b \in bodies : LET f == Reply(h, r.id, FALSE, b)
                        IN AnswerFrame(f, r) /\ f.kind = "tap"
  BY <1>1 DEF AnswerFrame, Reply, Frame
<1>4. \A i \in {r.id, NoId} : LET f == Reply(h, i, TRUE, "plain")
                              IN AnswerFrame(f, r) /\ f.kind = "tap"
  BY DEF AnswerFrame, Reply, Frame
<1>5. AnswerFrame(Notice, r) /\ Notice.kind = "tap"
  BY DEF AnswerFrame, Notice, Frame
<1>6. QED
  BY <1>2, <1>3, <1>4, <1>5

\* A handler that taps a frame f of the upstream: b is the fault the injector chose for
\* it, s the next stage, and the records o are the tap and F of the faults.
Hears(h, f, s, o, b, F, r) ==
  LET x == handler[h] IN
  /\ f.kind = "tap" /\ AnswerFrame(f, x.req)
  /\ handler' = [handler EXCEPT ![h] = r]
  /\ Reads(r, s, x.req, TRUE, o, x.hit, b, f)
  /\ IsSeq(o) /\ Range(o) = Range(Tap(f)) \cup F /\ F \subseteq HitOf(r) \cup BackOf(r)
  /\ \/ s = "delaying" /\ x.stage = "relaying"
     \/ s = "end" /\ x.stage = "relaying" /\ HitOf(r) \cup BackOf(r) \subseteq F
     \/ s = "streaming" /\ x.stage = "streaming" /\ b = NoHit
  /\ IF b = NoHit THEN UNCHANGED counts ELSE Fired(b)
  /\ x.out = <<>> /\ Stay /\ UNCHANGED asked /\ Ticks

LEMMA HeardTurns ==
  ASSUME TypeInv, WholeInv, NEW h \in Handlers,
         NEW f, NEW s, NEW o, NEW b, NEW F, NEW r, Hears(h, f, s, o, b, F, r)
  PROVE  Turn(h, r)
<1> DEFINE x == handler[h]
<1>w. Formed(x) /\ Whole(x)
  BY DEF TypeInv, WholeInv
<1>s. /\ f.kind = "tap" /\ AnswerFrame(f, x.req)
      /\ handler' = [handler EXCEPT ![h] = r]
      /\ Reads(r, s, x.req, TRUE, o, x.hit, b, f)
      /\ IsSeq(o) /\ Range(o) = Range(Tap(f)) \cup F /\ F \subseteq HitOf(r) \cup BackOf(r)
      /\ \/ s = "delaying" /\ x.stage = "relaying"
         \/ s = "end" /\ x.stage = "relaying" /\ HitOf(r) \cup BackOf(r) \subseteq F
         \/ s = "streaming" /\ x.stage = "streaming" /\ b = NoHit
      /\ IF b = NoHit THEN UNCHANGED counts ELSE Fired(b)
  BY DEF Hears
<1>a. x.out = <<>> /\ Stay /\ UNCHANGED asked /\ Ticks /\ x.told
      /\ x.stage \in {"relaying", "streaming"} /\ x.back = NoHit
  BY <1>w DEF Hears, Whole
<1>1. Range(Tap(f)) \subseteq {f} /\ Range(<<>>) = {}
  BY TapRange, EmptyRange
<1>2. HitOf(r) = HitOf(x)
  BY <1>s DEF HitOf, Reads
<1>3. BackOf(r) = IF b = NoHit THEN {} ELSE {InjectEvent("s2c", f.ts, b)}
  <2>1. BackOf(r) = Range(Injected("s2c", f.ts, b))
    BY <1>s DEF BackOf, Reads
  <2>2. QED
    BY <2>1, InjectedRange
<1>4. \A m \in HitOf(r) \cup BackOf(r) : m.kind = "inj"
  BY InjectedRange DEF HitOf, BackOf, InjectEvent
<1>5. Whole(r)
  BY <1>a, <1>s DEF Whole, Reads, Pre
<1>6. Told(x) => Told(r)
  BY <1>a, <1>s, <1>1, <1>2, <1>3 DEF Told, Reads
<1>7. Triggers(x, r)
  <2>1. Hits(r) \subseteq HitOf(x) \cup BackOf(r)
    BY <1>s, <1>1, <1>2, <1>4 DEF Hits, Reads
  <2>2. CASE b = NoHit
    BY <1>s, <1>3, <2>1, <2>2 DEF Triggers, Hits
  <2>3. CASE b # NoHit
    BY <1>s, <1>3, <2>1, <2>3 DEF Triggers, Hits
  <2>4. QED
    BY <2>2, <2>3
<1>8. Timed(x, r)
  BY <1>a, <1>s DEF Timed, Reads, Pre
<1>9. TapsOwn(x, r)
  BY <1>a, <1>s, <1>1, <1>4 DEF TapsOwn, Reads, Pre
<1>10. QED
  BY <1>a, <1>s, <1>5, <1>6, <1>7, <1>8, <1>9 DEF Turn, Reads
LEMMA HearingTurns ==
  ASSUME TypeInv, GateInv, WholeInv, CountType, NEW h \in Handlers, RelayBuffered(h) \/ StreamEvent(h)
  PROVE  \E r : Turn(h, r)
<1> DEFINE x == handler[h]
<1>w. Formed(x) /\ Whole(x)
  BY DEF TypeInv, WholeInv
<1>1. /\ x.out = <<>> /\ Stay /\ UNCHANGED asked /\ Ticks /\ x.told = TRUE
      /\ x.stage \in {"relaying", "streaming"} /\ x.back = NoHit
  <2>1. x.stage \in {"relaying", "streaming"} /\ x.out = <<>> /\ Stay /\ UNCHANGED asked /\ Ticks
    BY DEF RelayBuffered, StreamEvent, At, Stay, Ticks
  <2>2. x.told /\ x.back = NoHit
    BY <1>w, <2>1 DEF Whole
  <2>3. QED
    BY <2>1, <2>2
<1>3. \A f \in Replies(h) \cup {Notice} : AnswerFrame(f, x.req) /\ f.kind = "tap"
  BY <1>1, RepliesAnswer
<1>4. CASE RelayBuffered(h)
  <2> DEFINE o(f, i) == Tap(f) \o Injected("s2c", f.ts, i) \o Remaining(h)
             late(f, i) == [x EXCEPT !.stage = "delaying", !.back = i, !.resp = f, !.out = Tap(f)]
             now(f, i) == [x EXCEPT !.stage = "end", !.back = i, !.resp = f, !.out = o(f, i)]
  <2>1. PICK f \in Replies(h), i \in Decisions(setup.rules, counts, "s2c", "none") :
          /\ counts' = Counted(counts, i)
          /\ \/ handler' = [handler EXCEPT ![h] = late(f, i)]
             \/ handler' = [handler EXCEPT ![h] = now(f, i)]
    BY <1>4 DEF RelayBuffered, Becomes
  <2>2. IF i = NoHit THEN UNCHANGED counts ELSE Fired(i)
    <3>1. counts = [j \in DOMAIN counts |-> counts[j]] /\ NoHit \notin DOMAIN counts
      BY RuleIndices DEF CountType
    <3>2. QED
      BY <2>1, <3>1, DecisionMay
  <2>3. AnswerFrame(f, x.req) /\ f.kind = "tap" /\ x.stage = "relaying"
    BY <1>3, <1>4, <2>1 DEF RelayBuffered, At
  <2>4. Reads(late(f, i), "delaying", x.req, TRUE, Tap(f), x.hit, i, f)
    <3>1. Reads(late(f, i), "delaying", x.req, x.told, Tap(f), x.hit, i, f)
      BY <1>w, Edits
    <3>2. QED
      BY <1>1, <3>1
  <2>5. Reads(now(f, i), "end", x.req, TRUE, o(f, i), x.hit, i, f)
    <3>1. Reads(now(f, i), "end", x.req, x.told, o(f, i), x.hit, i, f)
      BY <1>w, Edits
    <3>2. QED
      BY <1>1, <3>1
  <2>6. IsSeq(Tap(f)) /\ Range(Tap(f)) = Range(Tap(f)) \cup {}
    BY TapRange
  <2>7. /\ IsSeq(o(f, i))
        /\ Range(o(f, i)) = Range(Tap(f)) \cup (HitOf(now(f, i)) \cup BackOf(now(f, i)))
    <3>1. IsSeq(Remaining(h)) /\ Range(Remaining(h)) = HitOf(x)
      BY <1>w, <1>1, UntoldRange DEF Left
    <3> DEFINE e == Injected("s2c", f.ts, i)
    <3>2. IsSeq(e) /\ IsSeq(Tap(f))
      BY InjectedRange, TapRange
    <3>3. IsSeq(Tap(f) \o e) /\ Range(Tap(f) \o e) = Range(Tap(f)) \cup Range(e)
      BY <3>2, BothRanges
    <3>4. /\ IsSeq((Tap(f) \o e) \o Remaining(h))
          /\ Range((Tap(f) \o e) \o Remaining(h)) = Range(Tap(f) \o e) \cup Range(Remaining(h))
      BY <3>1, <3>3, BothRanges
    <3>5. HitOf(now(f, i)) = HitOf(x) /\ BackOf(now(f, i)) = Range(e)
      <4> HIDE DEF now
      <4>1. QED
        BY <2>5 DEF HitOf, BackOf, Reads
    <3>6. QED
      BY <3>1, <3>3, <3>4, <3>5
  <2> HIDE DEF late, now, o
  <2>8. CASE handler' = [handler EXCEPT ![h] = late(f, i)]
    <3>1. Hears(h, f, "delaying", Tap(f), i, {}, late(f, i))
      BY <1>1, <2>2, <2>3, <2>4, <2>6, <2>8 DEF Hears
    <3>2. QED
      BY <3>1, HeardTurns
  <2>9. CASE handler' = [handler EXCEPT ![h] = now(f, i)]
    <3>1. Hears(h, f, "end", o(f, i), i, HitOf(now(f, i)) \cup BackOf(now(f, i)), now(f, i))
      BY <1>1, <2>2, <2>3, <2>5, <2>7, <2>9 DEF Hears
    <3>2. QED
      BY <3>1, HeardTurns
  <2>10. QED
    BY <2>1, <2>8, <2>9
<1>5. CASE StreamEvent(h)
  <2>1. PICK f \in {Notice} \cup Replies(h) :
          handler' = [handler EXCEPT ![h] = [x EXCEPT !.out = Tap(f), !.resp = f,
                        !.replied = @ \/ f.method = "none"]]
    BY <1>5 DEF StreamEvent, Becomes
  <2> DEFINE r == [x EXCEPT !.out = Tap(f), !.resp = f, !.replied = x.replied \/ f.method = "none"]
  <2>2. handler' = [handler EXCEPT ![h] = r]
    BY <2>1
  <2>3. AnswerFrame(f, x.req) /\ f.kind = "tap" /\ x.stage = "streaming" /\ UNCHANGED counts
    BY <1>3, <1>5, <2>1 DEF StreamEvent, At
  <2>4. Reads(r, "streaming", x.req, TRUE, Tap(f), x.hit, NoHit, f)
    <3>1. Reads(r, x.stage, x.req, x.told, Tap(f), x.hit, x.back, f)
      BY <1>w, Edits
    <3>2. QED
      BY <1>1, <2>3, <3>1
  <2>5. IsSeq(Tap(f)) /\ Range(Tap(f)) = Range(Tap(f)) \cup {}
    BY TapRange
  <2> HIDE DEF r
  <2>6. Hears(h, f, "streaming", Tap(f), NoHit, {}, r)
    BY <1>1, <2>2, <2>3, <2>4, <2>5 DEF Hears
  <2>7. QED
    BY <2>6, HeardTurns
<1>6. QED
  BY <1>4, <1>5
\* All that is left: an entry reaches the channel, or the storage thread takes one.
ChanInv == IsSeq(queue) /\ IsSeq(drained)
BaseInv == WholeInv /\ ChanInv /\ CountType

LEMMA StepKinds ==
  ASSUME TypeInv, GateInv, BaseInv, [Next]_vars
  PROVE  \/ \E h \in Handlers : \E r : Turn(h, r)
         \/ \E h \in Handlers : OfferHint(h) \/ Enqueue(h)
         \/ Drain
         \/ UNCHANGED vars
<1>1. CASE Next
  <2>1. ASSUME NEW h \in Handlers,
               \/ \E c \in Clients, b \in setup.posts : Post(h, c, b)
               \/ Open(h) \/ RejectLarge(h) \/ HangUp(h) \/ Finish(h)
        PROVE  \E r : Turn(h, r)
    BY <2>1, BeginTurn DEF BaseInv
  <2>2. ASSUME NEW h \in Handlers,
               PassUninspected(h) \/ Wake(h) \/ Reach(h) \/ StreamEnd(h)
        PROVE  \E r : Turn(h, r)
    BY <2>2, StrideTurn DEF BaseInv
  <2>3. ASSUME NEW h \in Handlers,
               \/ Refuse(h) \/ Unreachable(h) \/ Answered(h) \/ Deliver(h)
               \/ RelayUntapped(h) \/ RelayStream(h)
        PROVE  \E r : Turn(h, r)
    BY <2>3, SpeakTurn DEF BaseInv
  <2>4. ASSUME NEW h \in Handlers, Admit(h) PROVE \E r : Turn(h, r)
    BY <2>4, AdmitTurn DEF BaseInv
  <2>5. ASSUME NEW h \in Handlers, RelayBuffered(h) \/ StreamEvent(h) PROVE \E r : Turn(h, r)
    BY <2>5, HearingTurns DEF BaseInv
  <2>6. QED
    BY <1>1, <2>1, <2>2, <2>3, <2>4, <2>5 DEF Next
<1>2. QED
  BY <1>1

\* A message m the channel takes, or not.
LEMMA Sends ==
  ASSUME ChanInv, NEW m, Send(m)
  PROVE  /\ IsSeq(queue') /\ Range(queue) \subseteq Range(queue')
         /\ Range(queue') \subseteq Range(queue) \cup {m}
         /\ \/ UNCHANGED queue /\ Len(queue) >= ChannelCap
            \/ queue' = Append(queue, m) /\ m \in Range(queue')
<1>1. CASE Len(queue) < ChannelCap
  <2>1. queue' = Append(queue, m)
    BY <1>1 DEF Send
  <2>2. IsSeq(Append(queue, m)) /\ Range(Append(queue, m)) = Range(queue) \cup {m}
    BY AppendRange DEF ChanInv
  <2>3. QED
    BY <2>1, <2>2
<1>2. CASE ~(Len(queue) < ChannelCap)
  <2>1. queue' = queue
    BY <1>2 DEF Send
  <2>2. Len(queue) \in Nat /\ ChannelCap \in Nat
    BY LenProperties, StorageLoopAssumption DEF ChanInv, IsSeq
  <2>3. QED
    BY <1>2, <2>1, <2>2 DEF ChanInv
<1>3. QED
  BY <1>1, <1>2

\* The hint goes ahead of everything a handler records.
LEMMA HintTurn ==
  ASSUME TypeInv, BaseInv, NEW h \in Handlers, OfferHint(h)
  PROVE  LET x == handler[h]
             r == [x EXCEPT !.stage = "reading"]
         IN /\ x.stage = "hinting" /\ x.out = <<>>
            /\ Reads(r, "reading", x.req, x.told, x.out, x.hit, x.back, x.resp)
            /\ handler' = [handler EXCEPT ![h] = r] /\ Send(Hint(x.req.ts))
            /\ UNCHANGED <<drained, tools, inits, pinned, source, protocol>>
            /\ UNCHANGED <<setup, counts, clock, asked, dropLogged, events>>
  BY Edits DEF OfferHint, At, Becomes, LoopIdle, TypeInv

\* An entry goes to the channel, and is lost with a mark in the log if that is full.
LEMMA EnqueueTurn ==
  ASSUME TypeInv, BaseInv, NEW h \in Handlers, Enqueue(h)
  PROVE  LET x == handler[h]
             r == [x EXCEPT !.out = Tail(x.out)]
         IN /\ x.out # <<>> /\ Send(Head(x.out))
            /\ Reads(r, x.stage, x.req, x.told, Tail(x.out), x.hit, x.back, x.resp)
            /\ handler' = [handler EXCEPT ![h] = r]
            /\ dropLogged' = (dropLogged \/ Len(queue) >= ChannelCap)
            /\ UNCHANGED <<drained, tools, inits, pinned, source, protocol>>
            /\ UNCHANGED <<setup, counts, clock, asked, events>>
            /\ IsSeq(Tail(x.out)) /\ Range(x.out) = Range(Tail(x.out)) \cup {Head(x.out)}
<1> DEFINE x == handler[h]
<1>1. Formed(x) /\ IsSeq(x.out)
  BY DEF TypeInv, BaseInv, WholeInv, Whole
<1>2. /\ x.out # <<>> /\ Send(Head(x.out))
      /\ handler' = [handler EXCEPT ![h] = [x EXCEPT !.out = Tail(x.out)]]
      /\ dropLogged' = (dropLogged \/ Len(queue) >= ChannelCap)
      /\ UNCHANGED <<drained, tools, inits, pinned, source, protocol>>
      /\ UNCHANGED <<setup, counts, clock, asked, events>>
  BY DEF Enqueue, Becomes, LoopIdle
<1>3. IsSeq(Tail(x.out)) /\ Range(x.out) = Range(Tail(x.out)) \cup {Head(x.out)}
  BY <1>1, <1>2, RestRange
<1>4. QED
  BY <1>1, <1>2, <1>3, Edits

\* The storage thread takes an entry and loses none but hints.
LEMMA DrainTurn ==
  ASSUME BaseInv, Drain
  PROVE  /\ queue # <<>> /\ queue' = Tail(queue) /\ IsSeq(queue')
         /\ UNCHANGED <<setup, counts, clock, asked, handler, hintSent, dropLogged>>
         /\ Range(queue) = Range(queue') \cup {Head(queue)}
         /\ \/ /\ Head(queue).kind = "tap"
               /\ drained' = Append(drained, Head(queue)) /\ events' = events
               /\ Range(drained') = Range(drained) \cup {Head(queue)}
            \/ /\ Head(queue).kind \in {"sec", "inj"} /\ UNCHANGED <<drained, inits>>
               /\ events' = events \cup {Head(queue)}
            \/ Head(queue).kind = "hint" /\ UNCHANGED <<drained, inits, events>>
         /\ IsSeq(drained')
         /\ Enqueued' \subseteq Enqueued
         /\ \A m \in Enqueued : m.kind # "hint" => m \in Enqueued'
<1>1. /\ queue # <<>> /\ queue' = Tail(queue)
      /\ UNCHANGED <<setup, counts, clock, asked, handler, hintSent, dropLogged>>
      /\ \/ /\ Head(queue).kind = "tap"
            /\ drained' = Append(drained, Head(queue)) /\ events' = events
         \/ /\ Head(queue).kind \in {"sec", "inj"} /\ UNCHANGED <<drained, inits>>
            /\ events' = events \cup {Head(queue)}
         \/ Head(queue).kind = "hint" /\ UNCHANGED <<drained, inits, events>>
  BY DEF Drain, HandleEvent, HandleTap, HandleHint, LoopIdle, gateVars
<1>2. IsSeq(Tail(queue)) /\ Range(queue) = Range(Tail(queue)) \cup {Head(queue)}
  BY <1>1, RestRange DEF BaseInv, ChanInv
<1>3. /\ IsSeq(drained) /\ IsSeq(Append(drained, Head(queue)))
      /\ Range(Append(drained, Head(queue))) = Range(drained) \cup {Head(queue)}
  BY AppendRange DEF BaseInv, ChanInv
<1>4. QED
  BY <1>1, <1>2, <1>3 DEF Enqueued

\* The handlers of a step: h as r, the others as they were.
LEMMA OneHandler ==
  ASSUME TypeInv, NEW h \in Handlers, NEW r, handler' = [handler EXCEPT ![h] = r]
  PROVE  /\ handler'[h] = r
         /\ \A g \in Handlers : g # h => handler'[g] = handler[g]
         /\ \A g \in Handlers : handler'[g] = IF g = h THEN r ELSE handler[g]
  BY DEF TypeInv

LEMMA BaseStep == TypeInv /\ GateInv /\ BaseInv /\ [Next]_vars => BaseInv'
<1> SUFFICES ASSUME TypeInv, GateInv, BaseInv, [Next]_vars PROVE BaseInv'
  OBVIOUS
<1>1. ASSUME NEW h \in Handlers, NEW r, Turn(h, r) PROVE BaseInv'
  <2>1. /\ handler' = [handler EXCEPT ![h] = r] /\ Whole(r)
        /\ UNCHANGED <<queue, drained, setup>>
        /\ (UNCHANGED clock \/ Ticks) /\ (UNCHANGED counts \/ \E i : Fired(i))
    BY <1>1 DEF Turn, Stay, loopVars, Timed, Triggers
  <2>2. \A g \in Handlers : Whole(handler'[g])
    BY <2>1, OneHandler DEF BaseInv, WholeInv
  <2>3. ClockInv' /\ ChanInv'
    BY <2>1 DEF BaseInv, WholeInv, ClockInv, ChanInv, Ticks
  <2>4. CountType'
    <3>1. CASE UNCHANGED counts
      BY <2>1, <3>1 DEF BaseInv, CountType
    <3>2. CASE \E i : Fired(i)
      BY <2>1, <3>2 DEF BaseInv, CountType, Fired, Counted
    <3>3. QED
      BY <2>1, <3>1, <3>2
  <2>5. QED
    BY <2>2, <2>3, <2>4 DEF BaseInv, WholeInv
<1>2. ASSUME NEW h \in Handlers, OfferHint(h) PROVE BaseInv'
  <2> DEFINE x == handler[h]
             r == [x EXCEPT !.stage = "reading"]
  <2>1. /\ x.stage = "hinting" /\ Reads(r, "reading", x.req, x.told, x.out, x.hit, x.back, x.resp)
        /\ handler' = [handler EXCEPT ![h] = r] /\ Send(Hint(x.req.ts))
        /\ UNCHANGED <<drained, setup, counts, clock>>
    BY <1>2, HintTurn
  <2>2. Whole(x) /\ ChanInv
    BY DEF BaseInv, WholeInv
  <2> HIDE DEF r
  <2>3. Whole(r)
    BY <2>1, <2>2 DEF Whole, Reads, Pre
  <2>4. \A g \in Handlers : Whole(handler'[g])
    BY <2>1, <2>3, OneHandler DEF BaseInv, WholeInv
  <2>5. IsSeq(queue')
    BY <2>1, <2>2, Sends
  <2>6. QED
    BY <2>1, <2>2, <2>4, <2>5 DEF BaseInv, WholeInv, ClockInv, ChanInv, CountType
<1>3. ASSUME NEW h \in Handlers, Enqueue(h) PROVE BaseInv'
  <2> DEFINE x == handler[h]
             r == [x EXCEPT !.out = Tail(x.out)]
  <2>1. /\ Reads(r, x.stage, x.req, x.told, Tail(x.out), x.hit, x.back, x.resp)
        /\ handler' = [handler EXCEPT ![h] = r] /\ Send(Head(x.out))
        /\ UNCHANGED <<drained, setup, counts, clock>> /\ IsSeq(Tail(x.out))
    BY <1>3, EnqueueTurn
  <2>2. Whole(x) /\ ChanInv
    BY DEF BaseInv, WholeInv
  <2> HIDE DEF r
  <2>3. Whole(r)
    BY <2>1, <2>2 DEF Whole, Reads, Pre
  <2>4. \A g \in Handlers : Whole(handler'[g])
    BY <2>1, <2>3, OneHandler DEF BaseInv, WholeInv
  <2>5. IsSeq(queue')
    BY <2>1, <2>2, Sends
  <2>6. QED
    BY <2>1, <2>2, <2>4, <2>5 DEF BaseInv, WholeInv, ClockInv, ChanInv, CountType
<1>4. CASE Drain
  <2>1. IsSeq(queue') /\ IsSeq(drained') /\ UNCHANGED <<setup, counts, clock, handler>>
    BY <1>4, DrainTurn
  <2>2. QED
    BY <2>1 DEF BaseInv, WholeInv, ClockInv, ChanInv, CountType
<1>5. CASE UNCHANGED vars
  <2>1. UNCHANGED <<setup, counts, clock, handler, queue, drained>>
    BY <1>5 DEF vars, gateVars, loopVars
  <2>2. QED
    BY <2>1 DEF BaseInv, WholeInv, ClockInv, ChanInv, CountType
<1>6. QED
  BY <1>1, <1>2, <1>3, <1>4, <1>5, StepKinds

LEMMA BaseStart == Init => BaseInv
<1> SUFFICES ASSUME Init PROVE BaseInv
  OBVIOUS
<1>1. IsSeq(<<>>)
  BY EmptyRange
<1>2. Whole(Idle)
  BY <1>1 DEF Whole, Idle, Nothing, Pre
<1>3. QED
  BY <1>1, <1>2 DEF Init, LoopInit, BaseInv, WholeInv, ClockInv, ChanInv, CountType
-----------------------------------------------------------------------------
(* The triggers of a rule.                                                  *)

\* Every fault applied, on record or on its way there.
Marks == {m \in Enqueued : m.kind = "inj"} \cup UNION {Hits(handler[h]) : h \in Handlers}
MarksOf(i) == {m \in Marks : m.rule = i}

CountInv ==
  \A i \in DOMAIN setup.rules :
    /\ \A n \in setup.rules[i].max : counts[i] <= n
    /\ IsFiniteSet(MarksOf(i)) /\ Cardinality(MarksOf(i)) <= counts[i]

\* Every step adds at most the mark of the rule that fires, and counts it.
LEMMA MarksGrow ==
  ASSUME TypeInv, GateInv, BaseInv, [Next]_vars
  PROVE  /\ UNCHANGED setup
         /\ \/ Marks' \subseteq Marks /\ UNCHANGED counts
            \/ \E i, d, t : Fired(i) /\ Marks' \subseteq Marks \cup {InjectEvent(d, t, i)}
<1>1. ASSUME NEW h \in Handlers, NEW r, handler' = [handler EXCEPT ![h] = r], NEW E,
             Hits(r) \subseteq Hits(handler[h]) \cup E,
             {m \in Enqueued' : m.kind = "inj"} \subseteq Marks \cup E
      PROVE  Marks' \subseteq Marks \cup E
  <2>1. \A g \in Handlers : Hits(handler'[g]) \subseteq Marks \cup E
    BY <1>1, OneHandler DEF Marks
  <2>2. Marks' = {m \in Enqueued' : m.kind = "inj"} \cup UNION {Hits(handler'[g]) : g \in Handlers}
    BY DEF Marks
  <2>3. QED
    BY <1>1, <2>1, <2>2
<1>2. ASSUME NEW h \in Handlers, NEW r, Turn(h, r)
      PROVE  /\ UNCHANGED setup
             /\ \/ Marks' \subseteq Marks /\ UNCHANGED counts
                \/ \E i, d, t : Fired(i) /\ Marks' \subseteq Marks \cup {InjectEvent(d, t, i)}
  <2>1. handler' = [handler EXCEPT ![h] = r] /\ Triggers(handler[h], r) /\ UNCHANGED setup
    BY <1>2 DEF Turn, Stay
  <2>2. {m \in Enqueued' : m.kind = "inj"} \subseteq Marks
    BY <1>2 DEF Turn, Stay, loopVars, Enqueued, Marks
  <2>3. CASE Hits(r) \subseteq Hits(handler[h]) /\ UNCHANGED counts
    <3>1. Marks' \subseteq Marks \cup {}
      BY <1>1, <2>1, <2>2, <2>3
    <3>2. QED
      BY <2>1, <2>3, <3>1
  <2>4. ASSUME NEW i, NEW d, NEW t, Fired(i),
               Hits(r) \subseteq Hits(handler[h]) \cup {InjectEvent(d, t, i)}
        PROVE  Marks' \subseteq Marks \cup {InjectEvent(d, t, i)}
    BY <1>1, <2>1, <2>2, <2>4
  <2>5. QED
    BY <2>1, <2>3, <2>4 DEF Triggers
<1>3. ASSUME NEW h \in Handlers, OfferHint(h)
      PROVE  UNCHANGED <<setup, counts>> /\ Marks' \subseteq Marks
  <2> DEFINE x == handler[h]
             r == [x EXCEPT !.stage = "reading"]
  <2>1. /\ Reads(r, "reading", x.req, x.told, x.out, x.hit, x.back, x.resp)
        /\ handler' = [handler EXCEPT ![h] = r] /\ Send(Hint(x.req.ts))
        /\ UNCHANGED <<drained, setup, counts, events>>
    BY <1>3, HintTurn
  <2> HIDE DEF r
  <2>2. Hits(r) = Hits(x)
    BY <2>1 DEF Hits, HitOf, BackOf, Reads
  <2>3. Range(queue') \subseteq Range(queue) \cup {Hint(x.req.ts)} /\ Hint(x.req.ts).kind = "hint"
    BY <2>1, Sends DEF BaseInv, Hint
  <2>4. {m \in Enqueued' : m.kind = "inj"} \subseteq Marks
    BY <2>1, <2>3 DEF Enqueued, Marks
  <2>5. Hits(r) \subseteq Hits(x) \cup {} /\ {m \in Enqueued' : m.kind = "inj"} \subseteq Marks \cup {}
    BY <2>2, <2>4
  <2>6. Marks' \subseteq Marks \cup {}
    BY <1>1, <2>1, <2>5
  <2>7. QED
    BY <2>1, <2>6
<1>4. ASSUME NEW h \in Handlers, Enqueue(h)
      PROVE  UNCHANGED <<setup, counts>> /\ Marks' \subseteq Marks
  <2> DEFINE x == handler[h]
             r == [x EXCEPT !.out = Tail(x.out)]
  <2>1. /\ Reads(r, x.stage, x.req, x.told, Tail(x.out), x.hit, x.back, x.resp)
        /\ handler' = [handler EXCEPT ![h] = r] /\ Send(Head(x.out))
        /\ UNCHANGED <<drained, setup, counts, events>>
        /\ Range(x.out) = Range(Tail(x.out)) \cup {Head(x.out)}
    BY <1>4, EnqueueTurn
  <2> HIDE DEF r
  <2>2. Hits(r) \subseteq Hits(x)
    BY <2>1 DEF Hits, HitOf, BackOf, Reads
  <2>3. Range(queue') \subseteq Range(queue) \cup {Head(x.out)}
    BY <2>1, Sends DEF BaseInv
  <2>4. Head(x.out).kind = "inj" => Head(x.out) \in Marks
    BY <2>1 DEF Hits, Marks
  <2>5. {m \in Enqueued' : m.kind = "inj"} \subseteq Marks
    BY <2>1, <2>3, <2>4 DEF Enqueued, Marks
  <2>6. Hits(r) \subseteq Hits(x) \cup {} /\ {m \in Enqueued' : m.kind = "inj"} \subseteq Marks \cup {}
    BY <2>2, <2>5
  <2>7. Marks' \subseteq Marks \cup {}
    BY <1>1, <2>1, <2>6
  <2>8. QED
    BY <2>1, <2>7
<1>5. Drain => UNCHANGED <<setup, counts>> /\ Marks' \subseteq Marks
  <2> SUFFICES ASSUME Drain PROVE UNCHANGED <<setup, counts>> /\ Marks' \subseteq Marks
    OBVIOUS
  <2>1. UNCHANGED <<setup, counts, handler>> /\ Enqueued' \subseteq Enqueued
    BY DrainTurn
  <2>2. Marks' = {m \in Enqueued' : m.kind = "inj"} \cup UNION {Hits(handler'[g]) : g \in Handlers}
    BY DEF Marks
  <2>3. QED
    BY <2>1, <2>2 DEF Marks
<1>6. UNCHANGED vars => UNCHANGED <<setup, counts>> /\ Marks' \subseteq Marks
  <2> SUFFICES ASSUME UNCHANGED vars PROVE UNCHANGED <<setup, counts>> /\ Marks' \subseteq Marks
    OBVIOUS
  <2>1. UNCHANGED <<setup, counts, handler>> /\ Enqueued' = Enqueued
    BY DEF vars, gateVars, loopVars, Enqueued
  <2>2. Marks' = {m \in Enqueued' : m.kind = "inj"} \cup UNION {Hits(handler'[g]) : g \in Handlers}
    BY DEF Marks
  <2>3. QED
    BY <2>1, <2>2 DEF Marks
<1>7. QED
  BY <1>2, <1>3, <1>4, <1>5, <1>6, StepKinds

LEMMA CountStep == TypeInv /\ GateInv /\ BaseInv /\ CountInv /\ [Next]_vars => CountInv'
<1> SUFFICES ASSUME TypeInv, GateInv, BaseInv, CountInv, [Next]_vars,
                    NEW j \in DOMAIN setup.rules
             PROVE  /\ UNCHANGED setup
                    /\ \A n \in setup.rules[j].max : counts'[j] <= n
                    /\ IsFiniteSet(MarksOf(j)') /\ Cardinality(MarksOf(j)') <= counts'[j]
  BY MarksGrow DEF CountInv
<1>1. /\ \A n \in setup.rules[j].max : counts[j] <= n
      /\ IsFiniteSet(MarksOf(j)) /\ Cardinality(MarksOf(j)) <= counts[j]
  BY DEF CountInv
<1>2. UNCHANGED setup
  BY MarksGrow
<1>3. counts[j] \in Nat /\ j \in DOMAIN counts
  BY DEF BaseInv, CountType
<1>4. Cardinality(MarksOf(j)) \in Nat
  BY <1>1, FS_CardinalityType
<1>5. MarksOf(j)' = {m \in Marks' : m.rule = j}
  BY DEF MarksOf
<1>6. ASSUME MarksOf(j)' \subseteq MarksOf(j), counts'[j] >= counts[j], counts'[j] \in Nat
      PROVE  IsFiniteSet(MarksOf(j)') /\ Cardinality(MarksOf(j)') <= counts'[j]
  <2>1. /\ IsFiniteSet(MarksOf(j)') /\ Cardinality(MarksOf(j)') <= Cardinality(MarksOf(j))
        /\ Cardinality(MarksOf(j)') \in Nat
    BY <1>1, <1>6, FS_Subset, FS_CardinalityType
  <2>2. QED
    BY <1>1, <1>3, <1>4, <1>6, <2>1
<1>7. CASE Marks' \subseteq Marks /\ UNCHANGED counts
  <2>1. MarksOf(j)' \subseteq MarksOf(j)
    BY <1>5, <1>7 DEF MarksOf
  <2>2. QED
    BY <1>1, <1>2, <1>3, <1>6, <1>7, <2>1
<1>8. ASSUME NEW i, NEW d, NEW t, Fired(i), Marks' \subseteq Marks \cup {InjectEvent(d, t, i)}
      PROVE  /\ \A n \in setup.rules[j].max : counts'[j] <= n
             /\ IsFiniteSet(MarksOf(j)') /\ Cardinality(MarksOf(j)') <= counts'[j]
  <2>1. counts'[j] = IF j = i THEN counts[j] + 1 ELSE counts[j]
    BY <1>3, <1>8 DEF Fired, Counted
  <2>2. InjectEvent(d, t, i).rule = i
    BY DEF InjectEvent
  <2>3. CASE j # i
    <3>1. MarksOf(j)' \subseteq MarksOf(j)
      BY <1>5, <1>8, <2>2, <2>3 DEF MarksOf
    <3>2. QED
      BY <1>1, <1>3, <1>6, <2>1, <2>3, <3>1
  <2>4. CASE j = i
    <3> DEFINE S == MarksOf(j) \cup {InjectEvent(d, t, i)}
    <3>1. MarksOf(j)' \subseteq S
      BY <1>5, <1>8 DEF MarksOf
    <3>2. IsFiniteSet(S) /\ Cardinality(S) <= Cardinality(MarksOf(j)) + 1
      <4>1. /\ IsFiniteSet(S)
            /\ Cardinality(S) = IF InjectEvent(d, t, i) \in MarksOf(j)
                                  THEN Cardinality(MarksOf(j)) ELSE Cardinality(MarksOf(j)) + 1
        BY <1>1, FS_AddElement
      <4>2. QED
        BY <1>4, <4>1
    <3>3. /\ IsFiniteSet(MarksOf(j)') /\ Cardinality(MarksOf(j)') <= Cardinality(S)
          /\ Cardinality(MarksOf(j)') \in Nat /\ Cardinality(S) \in Nat
      BY <3>1, <3>2, FS_Subset, FS_CardinalityType
    <3>4. \A n \in setup.rules[j].max : counts[j] < n
      <4>1. \A n \in setup.rules[j].max : ~(counts[j] >= n)
        BY <1>8, <2>4 DEF Fired, Exhausted
      <4>2. setup.rules[j].max \subseteq Nat
        BY RuleIndices
      <4>3. QED
        BY <1>3, <4>1, <4>2
    <3>5. \A n \in setup.rules[j].max : counts'[j] <= n
      <4>1. setup.rules[j].max \subseteq Nat
        BY RuleIndices
      <4>2. QED
        BY <1>3, <2>1, <2>4, <3>4, <4>1
    <3>6. Cardinality(MarksOf(j)') <= counts'[j]
      BY <1>1, <1>3, <1>4, <2>1, <2>4, <3>2, <3>3
    <3>7. QED
      BY <3>3, <3>5, <3>6
  <2>5. QED
    BY <2>3, <2>4, <1>1, <2>1
<1>9. QED
  BY <1>2, <1>7, <1>8, MarksGrow

LEMMA CountStart == Init => CountInv
<1> SUFFICES ASSUME Init, NEW i \in DOMAIN setup.rules
             PROVE  /\ \A n \in setup.rules[i].max : counts[i] <= n
                    /\ IsFiniteSet(MarksOf(i)) /\ Cardinality(MarksOf(i)) <= counts[i]
  BY DEF CountInv
<1>1. counts[i] = 0 /\ setup.rules[i].max \subseteq Nat
  BY GateStart, RuleIndices DEF Init
<1>2. Enqueued = {}
  BY EmptyRange DEF Init, LoopInit, Enqueued
<1>3. Hits(Idle) = {}
  BY EmptyRange, InjectedRange DEF Hits, HitOf, BackOf, Idle
<1>4. MarksOf(i) = {}
  BY <1>2, <1>3 DEF Init, MarksOf, Marks
<1>5. QED
  BY <1>1, <1>4, FS_EmptySet

\* No rule fires more often than its max_triggers, for every list of rules: counting
\* both directions, all the requests in flight at one time, and the faults whose events
\* are still on their way to the record (Injector::decide under the lock of the
\* gateway's state).
THEOREM TriggersStayBounded == Spec => []TriggersBounded
<1>1. BaseInv /\ CountInv /\ TypeInv => TriggersBounded
  <2> SUFFICES ASSUME BaseInv, CountInv, TypeInv,
                      NEW i \in DOMAIN setup.rules, NEW n \in setup.rules[i].max
               PROVE  LET raised == {m \in Enqueued \cup UNION {Pending(h) : h \in Handlers} :
                                      m.kind = "inj"}
                      IN Cardinality({m \in raised : m.rule = i}) <= n
    BY DEF TriggersBounded
  <2> DEFINE raised == {m \in Enqueued \cup UNION {Pending(h) : h \in Handlers} : m.kind = "inj"}
             F == {m \in raised : m.rule = i}
  <2>1. F \subseteq MarksOf(i)
    BY DEF MarksOf, Marks, Pending, Hits
  <2>2. /\ IsFiniteSet(MarksOf(i)) /\ Cardinality(MarksOf(i)) <= counts[i]
        /\ counts[i] <= n /\ counts[i] \in Nat /\ n \in Nat
    BY RuleIndices DEF CountInv, BaseInv, CountType
  <2>3. Cardinality(F) <= Cardinality(MarksOf(i)) /\ Cardinality(F) \in Nat
        /\ Cardinality(MarksOf(i)) \in Nat
    BY <2>1, <2>2, FS_Subset, FS_CardinalityType
  <2>4. QED
    BY <2>2, <2>3
<1>2. QED
  BY <1>1, GateStart, GateStep, BaseStart, BaseStep, CountStart, CountStep, PTL DEF Spec
-----------------------------------------------------------------------------
(* The record of an exchange is whole.                                      *)

ToldInv == dropLogged \/ \A h \in Handlers : Told(handler[h])

\* Nothing a handler counts as recorded is a hint.
LEMMA OnRecord ==
  ASSUME NEW r, Whole(r)
  PROVE  /\ \A m \in Tale(r.req) : m.kind # "hint"
         /\ \A m \in HitOf(r) \cup BackOf(r) : m.kind # "hint"
         /\ r.resp # Nothing => \A m \in Range(Tap(r.resp)) : m.kind # "hint"
<1>1. \A m \in Tale(r.req) : m.kind # "hint"
  BY TaleOf DEF RequestFrame, Frame
<1>2. \A m \in HitOf(r) \cup BackOf(r) : m.kind # "hint"
  BY InjectedRange DEF HitOf, BackOf, InjectEvent
<1>3. r.resp # Nothing => \A m \in Range(Tap(r.resp)) : m.kind # "hint"
  BY TapRange DEF Whole
<1>4. QED
  BY <1>1, <1>2, <1>3

\* Told is a matter of the setup, of the record and of the entries on their way.
LEMMA ToldStays ==
  ASSUME NEW g \in Handlers, Whole(handler[g]), Told(handler[g]), UNCHANGED setup,
         handler'[g].req = handler[g].req, handler'[g].told = handler[g].told,
         handler'[g].hit = handler[g].hit, handler'[g].back = handler[g].back,
         handler'[g].resp = handler[g].resp,
         handler'[g].stage = handler[g].stage \/ handler'[g].stage = "reading",
         \A m \in Enqueued \cup Range(handler[g].out) :
           m.kind # "hint" => m \in Enqueued' \cup Range(handler'[g].out)
  PROVE  Told(handler[g])'
<1> DEFINE x == handler[g]
           has == Enqueued \cup Range(x.out)
           now == Enqueued' \cup Range(handler'[g].out)
<1>1. /\ \A m \in Tale(x.req) : m.kind # "hint"
      /\ \A m \in HitOf(x) \cup BackOf(x) : m.kind # "hint"
      /\ x.resp # Nothing => \A m \in Range(Tap(x.resp)) : m.kind # "hint"
  BY OnRecord
<1>2. Tale(handler[g].req)' = Tale(x.req)
  BY DEF Tale, RequestTap, Tap, SecurityEvents, SecurityEvent
<1>3. HitOf(handler[g])' = HitOf(x) /\ BackOf(handler[g])' = BackOf(x)
  BY DEF HitOf, BackOf
<1>4. Range(Tap(handler[g].resp))' = Range(Tap(x.resp))
  BY DEF Tap
<1>5. /\ x.told /\ x.req # Nothing /\ x.stage \notin {"hinting", "reading"} /\ x.req.size = "fits"
           => Tale(x.req) \subseteq has
      /\ x.stage \in {"streaming", "end"} => HitOf(x) \cup BackOf(x) \subseteq has
      /\ x.resp # Nothing => Range(Tap(x.resp)) \subseteq has
  BY DEF Told
<1>6. \A m \in has : m.kind # "hint" => m \in now
  OBVIOUS
<1> DEFINE r == handler'[g]
<1>7. /\ r.told /\ r.req # Nothing /\ r.stage \notin {"hinting", "reading"} /\ r.req.size = "fits"
           => Tale(x.req) \subseteq now
      /\ r.stage \in {"streaming", "end"} => HitOf(x) \cup BackOf(x) \subseteq now
      /\ r.resp # Nothing => Range(Tap(x.resp)) \subseteq now
  <2> HIDE DEF has, now
  <2>1. QED
    BY <1>1, <1>5, <1>6
<1>8. QED
  BY <1>2, <1>3, <1>4, <1>7 DEF Told

LEMMA ToldStep == TypeInv /\ GateInv /\ BaseInv /\ ToldInv /\ [Next]_vars => ToldInv'
<1> SUFFICES ASSUME TypeInv, GateInv, BaseInv, [Next]_vars, ~dropLogged', ToldInv,
                    NEW g \in Handlers
             PROVE  Told(handler[g])'
  BY DEF ToldInv
<1>0. ~dropLogged => Told(handler[g])
  BY DEF ToldInv
<1>1. ASSUME NEW h \in Handlers, NEW r, Turn(h, r) PROVE Told(handler[g])'
  <2>1. /\ handler' = [handler EXCEPT ![h] = r] /\ UNCHANGED <<setup, events, queue, drained>>
        /\ Told(handler[h]) => Told(r)
        /\ UNCHANGED dropLogged
    BY <1>1 DEF Turn, Stay, loopVars
  <2>2. Told(handler'[g])
    <3>1. CASE g = h
      BY <1>0, <2>1, <3>1, OneHandler
    <3>2. CASE g # h
      BY <1>0, <2>1, <3>2, OneHandler
    <3>3. QED
      BY <3>1, <3>2
  <2>3. \A y : Told(y)' <=> Told(y)
    BY <2>1 DEF Told, Enqueued, Tale, RequestTap, Tap, SecurityEvents, SecurityEvent, HitOf, BackOf
  <2>4. QED
    BY <2>2, <2>3
<1>2. Whole(handler[g])
  BY DEF BaseInv, WholeInv
<1>3. ASSUME NEW h \in Handlers, OfferHint(h) PROVE Told(handler[g])'
  <2> DEFINE x == handler[h]
             r == [x EXCEPT !.stage = "reading"]
  <2>1. /\ Reads(r, "reading", x.req, x.told, x.out, x.hit, x.back, x.resp)
        /\ handler' = [handler EXCEPT ![h] = r] /\ Send(Hint(x.req.ts))
        /\ UNCHANGED <<drained, setup, dropLogged, events>>
    BY <1>3, HintTurn
  <2> HIDE DEF r
  <2>2. Range(queue) \subseteq Range(queue')
    BY <2>1, Sends DEF BaseInv
  <2>3. Enqueued \subseteq Enqueued'
    BY <2>1, <2>2 DEF Enqueued
  <2>4. LET y == handler'[g]
            z == handler[g]
        IN /\ y.req = z.req /\ y.told = z.told /\ y.hit = z.hit /\ y.back = z.back
           /\ y.resp = z.resp /\ y.out = z.out
           /\ y.stage = z.stage \/ y.stage = "reading"
    <3>1. handler'[g] = IF g = h THEN r ELSE handler[g]
      BY <2>1, OneHandler
    <3>2. QED
      BY <2>1, <3>1 DEF Reads
  <2>5. QED
    BY <1>0, <1>2, <2>1, <2>3, <2>4, ToldStays
<1>4. ASSUME NEW h \in Handlers, Enqueue(h) PROVE Told(handler[g])'
  <2> DEFINE x == handler[h]
             r == [x EXCEPT !.out = Tail(x.out)]
  <2>1. /\ Reads(r, x.stage, x.req, x.told, Tail(x.out), x.hit, x.back, x.resp)
        /\ handler' = [handler EXCEPT ![h] = r] /\ Send(Head(x.out))
        /\ dropLogged' = (dropLogged \/ Len(queue) >= ChannelCap)
        /\ UNCHANGED <<drained, setup, events>>
        /\ Range(x.out) = Range(Tail(x.out)) \cup {Head(x.out)}
    BY <1>4, EnqueueTurn
  <2> HIDE DEF r
  <2>2. ~dropLogged /\ Range(queue) \subseteq Range(queue') /\ Head(x.out) \in Range(queue')
    BY <2>1, Sends DEF BaseInv
  <2>3. Enqueued \subseteq Enqueued' /\ Head(x.out) \in Enqueued'
    BY <2>1, <2>2 DEF Enqueued
  <2>4. LET y == handler'[g]
            z == handler[g]
        IN /\ y.req = z.req /\ y.told = z.told /\ y.hit = z.hit /\ y.back = z.back
           /\ y.resp = z.resp /\ y.stage = z.stage
           /\ Range(z.out) \subseteq Range(y.out) \cup {Head(x.out)} \/ y.out = z.out
    <3>1. handler'[g] = IF g = h THEN r ELSE handler[g]
      BY <2>1, OneHandler
    <3>2. QED
      BY <2>1, <3>1 DEF Reads
  <2>5. \A m \in Enqueued \cup Range(handler[g].out) : m \in Enqueued' \cup Range(handler'[g].out)
    BY <2>3, <2>4
  <2>6. QED
    BY <1>0, <1>2, <2>1, <2>2, <2>4, <2>5, ToldStays
<1>5. CASE Drain
  <2>1. UNCHANGED <<setup, handler, dropLogged>>
        /\ \A m \in Enqueued : m.kind # "hint" => m \in Enqueued'
    BY <1>5, DrainTurn
  <2>2. Told(handler[g]) /\ handler'[g] = handler[g]
    BY <1>0, <2>1
  <2>3. QED
    BY <1>2, <2>1, <2>2, ToldStays
<1>6. CASE UNCHANGED vars
  BY <1>0, <1>6 DEF vars, gateVars, loopVars, Told, Enqueued, Tale, RequestTap, Tap, SecurityEvents,
     SecurityEvent, HitOf, BackOf
<1>7. QED
  BY <1>1, <1>3, <1>4, <1>5, <1>6, StepKinds
-----------------------------------------------------------------------------
(* The record of an exchange is in order.                                   *)

\* Every frame tapped, on record or on its way there.
Frames == {m \in Enqueued \cup UNION {Pending(h) : h \in Handlers} : m.kind = "tap"}
Unanswered(t) == \A m \in Frames : m.answers # t

\* The stamps tell frames apart, and an answer is younger than its request.
StampInv ==
  /\ \A m \in Frames : m.ts \in 1 .. clock - 1 /\ m.answers \in Nat /\ m.answers < m.ts
  /\ \A h \in Handlers : handler[h].req = Nothing \/ handler[h].req.ts \in 1 .. clock - 1
  /\ \A g, h \in Handlers :
       g # h /\ handler[h].req # Nothing => handler[g].req.ts # handler[h].req.ts

\* A request is not answered before it is tapped, nor while its tap is on its way.
AwaitedInv ==
  \A h \in Handlers :
    /\ handler[h].stage \in Pre /\ handler[h].req # Nothing => Unanswered(handler[h].req.ts)
    /\ \A m \in Pending(h) : m.kind = "tap" =>
         Unanswered(m.ts) /\ \A g \in Handlers : g # h => handler[g].req.ts # m.ts

\* The order of the taps in the channel and of those taken from it.
PlaceInv ==
  /\ \A k \in DOMAIN drained : drained[k].kind = "tap"
  /\ \A j, k \in DOMAIN drained : Asked(j, k) => j < k
  /\ \A j \in DOMAIN queue, k \in DOMAIN drained :
       queue[j].kind = "tap" => queue[j].ts # drained[k].answers
  /\ \A j, k \in DOMAIN queue :
       /\ queue[j].kind = "tap" /\ queue[k].kind = "tap"
       /\ queue[j].ts = queue[k].answers
       => j < k

OrderInv == StampInv /\ AwaitedInv /\ PlaceInv

\* The frames a turn taps are answers to its request, or that request unanswered.
LEMMA TappedFrames ==
  ASSUME TypeInv, BaseInv, OrderInv, NEW h \in Handlers, NEW r, Turn(h, r)
  PROVE  LET x == handler[h]
             fresh == {m \in Range(r.out) : m.kind = "tap"}
         IN /\ Frames' \subseteq Frames \cup fresh
            /\ \A m \in fresh :
                 /\ r.req = x.req /\ m.ts \in 1 .. clock' - 1 /\ m.answers \in Nat /\ m.answers < m.ts
                 /\ m.answers = 0 \/ (m.answers = x.req.ts /\ x.stage \notin Pre)
                 /\ m.ts = clock \/ (m.ts = x.req.ts /\ x.req # Nothing /\ x.stage \in Pre)
            /\ clock' \in Nat /\ clock <= clock'
<1> DEFINE x == handler[h]
           fresh == {m \in Range(r.out) : m.kind = "tap"}
<1>1. /\ handler' = [handler EXCEPT ![h] = r] /\ x.out = <<>> /\ Stay
      /\ TapsOwn(x, r) /\ (UNCHANGED clock \/ Ticks)
  BY DEF Turn, Timed
<1>2. clock \in Nat \ {0} /\ clock' \in Nat /\ clock <= clock'
  BY <1>1 DEF BaseInv, WholeInv, ClockInv, Ticks
<1>3. Enqueued' = Enqueued
  BY <1>1 DEF Stay, loopVars, Enqueued
<1>4. \A g \in Handlers : Range(handler'[g].out) \subseteq Range(handler[g].out) \cup Range(r.out)
  BY <1>1, OneHandler
<1>5. Frames' \subseteq Frames \cup fresh
  <2>1. Frames' = {m \in Enqueued' \cup UNION {Range(handler'[g].out) : g \in Handlers} :
                     m.kind = "tap"}
    BY DEF Frames, Pending
  <2>2. QED
    BY <1>3, <1>4, <2>1 DEF Frames, Pending
<1>6. (x.req = Nothing /\ x.req.ts = 0) \/ x.req.ts \in 1 .. clock - 1
  BY DEF OrderInv, StampInv, Nothing
<1>7. ASSUME NEW m \in fresh
      PROVE  /\ r.req = x.req /\ m.ts \in 1 .. clock' - 1 /\ m.answers \in Nat /\ m.answers < m.ts
             /\ m.answers = 0 \/ (m.answers = x.req.ts /\ x.stage \notin Pre)
             /\ m.ts = clock \/ (m.ts = x.req.ts /\ x.req # Nothing /\ x.stage \in Pre)
  <2>1. r.req = x.req
    BY <1>1, <1>7 DEF TapsOwn
  <2>2. CASE x.stage \in Pre /\ x.req # Nothing /\ m = RequestFrame(x.req)
    <3>1. m.ts = x.req.ts /\ m.answers = 0
      BY <2>2 DEF RequestFrame, Frame
    <3>2. QED
      BY <1>2, <1>6, <2>1, <2>2, <3>1
  <2>3. CASE x.stage \notin Pre /\ Ticks /\ AnswerFrame(m, x.req)
    <3>1. m.ts = clock /\ (m.answers = x.req.ts \/ m.answers = 0) /\ clock' = clock + 1
      BY <2>3 DEF AnswerFrame, Ticks
    <3>2. QED
      BY <1>2, <1>6, <2>1, <2>3, <3>1
  <2>4. QED
    BY <1>1, <1>7, <2>2, <2>3 DEF TapsOwn
<1>8. QED
  BY <1>2, <1>5, <1>7

LEMMA TurnOrder ==
  ASSUME TypeInv, BaseInv, OrderInv, NEW h \in Handlers, NEW r, Turn(h, r)
  PROVE  OrderInv'
<1> DEFINE x == handler[h]
           fresh == {m \in Range(r.out) : m.kind = "tap"}
<1>1. /\ handler' = [handler EXCEPT ![h] = r] /\ x.out = <<>> /\ UNCHANGED <<queue, drained>>
      /\ Timed(x, r)
  BY DEF Turn, Stay, loopVars
<1>2. /\ Frames' \subseteq Frames \cup fresh
      /\ \A m \in fresh :
           /\ r.req = x.req /\ m.ts \in 1 .. clock' - 1 /\ m.answers \in Nat /\ m.answers < m.ts
           /\ m.answers = 0 \/ (m.answers = x.req.ts /\ x.stage \notin Pre)
           /\ m.ts = clock \/ (m.ts = x.req.ts /\ x.req # Nothing /\ x.stage \in Pre)
      /\ clock' \in Nat /\ clock <= clock'
  BY TappedFrames
<1>3. handler'[h] = r /\ \A g \in Handlers : g # h => handler'[g] = handler[g]
  BY <1>1, OneHandler
<1>4. clock \in Nat \ {0} /\ Nothing.ts = 0
  BY DEF BaseInv, WholeInv, ClockInv, Nothing
<1>5. /\ \A m \in Frames : m.ts \in 1 .. clock - 1 /\ m.answers \in Nat /\ m.answers < m.ts
      /\ \A g \in Handlers : handler[g].req = Nothing \/ handler[g].req.ts \in 1 .. clock - 1
      /\ \A f, g \in Handlers :
           f # g /\ handler[g].req # Nothing => handler[f].req.ts # handler[g].req.ts
  BY DEF OrderInv, StampInv
<1>6. \A g \in Handlers :
        /\ handler[g].stage \in Pre /\ handler[g].req # Nothing => Unanswered(handler[g].req.ts)
        /\ \A m \in Pending(g) : m.kind = "tap" =>
             Unanswered(m.ts) /\ \A f \in Handlers : f # g => handler[f].req.ts # m.ts
  BY DEF OrderInv, AwaitedInv
<1>7. \/ r.req = x.req /\ (r.stage \in Pre => x.stage \in Pre)
      \/ r.req = Nothing
      \/ r.req.ts = clock /\ clock' = clock + 1
  BY <1>1 DEF Timed, Begins, Ticks
<1> HIDE DEF fresh
<1>8. StampInv'
  <2>1. \A m \in Frames' : m.ts \in 1 .. clock' - 1 /\ m.answers \in Nat /\ m.answers < m.ts
    BY <1>2, <1>4, <1>5
  <2>2. \A g \in Handlers : handler'[g].req = Nothing \/ handler'[g].req.ts \in 1 .. clock' - 1
    BY <1>2, <1>3, <1>4, <1>5, <1>7
  <2>3. \A f, g \in Handlers :
          f # g /\ handler'[g].req # Nothing => handler'[f].req.ts # handler'[g].req.ts
    <3> SUFFICES ASSUME NEW f \in Handlers, NEW g \in Handlers, f # g, handler'[g].req # Nothing
                 PROVE  handler'[f].req.ts # handler'[g].req.ts
      OBVIOUS
    <3>1. CASE f # h /\ g # h
      BY <1>3, <1>5, <3>1
    <3>2. CASE f = h
      BY <1>3, <1>4, <1>5, <1>7, <3>2
    <3>3. CASE g = h
      BY <1>3, <1>4, <1>5, <1>7, <3>3
    <3>4. QED
      BY <3>1, <3>2, <3>3
  <2>4. QED
    BY <2>1, <2>2, <2>3 DEF StampInv
<1>9. ASSUME NEW t, Unanswered(t), \A m \in fresh : m.answers # t PROVE Unanswered(t)'
  BY <1>2, <1>9 DEF Unanswered
<1>10. ASSUME NEW t, t = clock \/ (t \in 1 .. clock /\ x.stage \in Pre /\ Unanswered(t)) PROVE Unanswered(t)'
  <2>1. CASE t = clock
    <3>1. Unanswered(t)
      BY <1>4, <1>5, <2>1 DEF Unanswered
    <3>2. \A m \in fresh : m.answers # t
      BY <1>2, <1>4, <1>5, <2>1
    <3>3. QED
      BY <1>9, <3>1, <3>2
  <2>2. CASE t \in 1 .. clock /\ x.stage \in Pre /\ Unanswered(t)
    BY <1>2, <1>9, <2>2
  <2>3. QED
    BY <1>10, <2>1, <2>2
<1>11. ASSUME NEW g \in Handlers, handler'[g].stage \in Pre, handler'[g].req # Nothing
       PROVE  Unanswered(handler[g].req.ts)'
  <2>1. CASE g # h
    <3>1. Unanswered(handler[g].req.ts) /\ handler[g].req.ts # 0 /\ x.req.ts # handler[g].req.ts
      BY <1>3, <1>5, <1>6, <1>11, <2>1
    <3>2. \A m \in fresh : m.answers # handler[g].req.ts
      BY <1>2, <3>1
    <3>3. \A m \in Frames' : m.answers # handler[g].req.ts
      BY <1>2, <3>1, <3>2 DEF Unanswered
    <3>4. handler'[g].req.ts = handler[g].req.ts
      BY <1>3, <2>1
    <3>5. QED
      BY <3>3, <3>4 DEF Unanswered
  <2>2. CASE g = h
    <3>1. handler'[g].req.ts = r.req.ts
      BY <1>3, <2>2
    <3>2. \A m \in Frames' : m.answers # r.req.ts
      <4>1. CASE r.req = x.req /\ x.stage \in Pre
        <5>1. Unanswered(x.req.ts) /\ x.req.ts # 0
          BY <1>3, <1>5, <1>6, <1>11, <2>2, <4>1
        <5>2. QED
          BY <1>2, <4>1, <5>1 DEF Unanswered
      <4>2. CASE r.req.ts = clock
        BY <1>2, <1>4, <1>5, <4>2
      <4>3. QED
        BY <1>3, <1>7, <1>11, <2>2, <4>1, <4>2
    <3>3. QED
      BY <3>1, <3>2 DEF Unanswered
  <2>3. QED
    BY <2>1, <2>2
<1>12. ASSUME NEW g \in Handlers, NEW m \in Range(handler'[g].out), m.kind = "tap"
       PROVE  /\ \A n \in Frames' : n.answers # m.ts
              /\ \A f \in Handlers : f # g => handler'[f].req.ts # m.ts
  <2>1. CASE g # h
    <3>1. m \in Pending(g)
      BY <1>3, <1>12, <2>1 DEF Pending
    <3>2. /\ \A n \in Frames : n.answers # m.ts
          /\ \A f \in Handlers : f # g => handler[f].req.ts # m.ts
      BY <1>6, <1>12, <3>1 DEF Unanswered
    <3>3. m \in Frames
      BY <1>12, <3>1 DEF Frames
    <3>4. m.ts # 0 /\ m.ts # clock /\ x.req.ts # m.ts
      BY <1>4, <1>5, <2>1, <3>2, <3>3
    <3>5. \A n \in Frames' : n.answers # m.ts
      BY <1>2, <3>2, <3>4
    <3>6. r.req.ts # m.ts
      BY <1>4, <1>7, <3>4
    <3>7. QED
      BY <1>3, <2>1, <3>2, <3>5, <3>6
  <2>2. CASE g = h
    <3>1. m \in fresh
      BY <1>3, <1>12, <2>2 DEF fresh
    <3>2. CASE m.ts = clock
      <4>1. \A n \in Frames' : n.answers # m.ts
        BY <1>2, <1>4, <1>5, <3>2
      <4>2. \A f \in Handlers : f # h => handler[f].req.ts # m.ts
        BY <1>4, <1>5, <3>2
      <4>3. QED
        BY <1>3, <2>2, <4>1, <4>2
    <3>3. CASE m.ts = x.req.ts /\ x.req # Nothing /\ x.stage \in Pre
      <4>1. Unanswered(x.req.ts) /\ x.req.ts # 0
        BY <1>5, <1>6, <3>3
      <4>2. \A n \in Frames' : n.answers # m.ts
        BY <1>2, <3>3, <4>1 DEF Unanswered
      <4>3. \A f \in Handlers : f # h => handler[f].req.ts # m.ts
        BY <1>5, <3>3
      <4>4. QED
        BY <1>3, <2>2, <4>2, <4>3
    <3>4. QED
      BY <1>2, <3>1, <3>2, <3>3
  <2>3. QED
    BY <2>1, <2>2
<1>13. AwaitedInv'
  BY <1>11, <1>12 DEF AwaitedInv, Unanswered, Pending
<1>14. PlaceInv'
  BY <1>1 DEF OrderInv, PlaceInv, Asked
<1>15. QED
  BY <1>8, <1>13, <1>14 DEF OrderInv
\* A step that taps nothing new leaves the frames and their stamps as they were.
Quiet(E) ==
  /\ UNCHANGED clock /\ Enqueued' \subseteq Enqueued \cup E
  /\ \A m \in E : m.kind = "tap" => m \in Frames
  /\ \A g \in Handlers :
       /\ handler'[g].req = handler[g].req
       /\ handler'[g].stage \in Pre => handler[g].stage \in Pre
       /\ Range(handler'[g].out) \subseteq Range(handler[g].out)

LEMMA QuietOrder ==
  ASSUME OrderInv, NEW E, Quiet(E) PROVE StampInv' /\ AwaitedInv'
<1>1. Frames' \subseteq Frames
  <2>1. Frames' = {m \in Enqueued' \cup UNION {Range(handler'[g].out) : g \in Handlers} :
                     m.kind = "tap"}
    BY DEF Frames, Pending
  <2>2. QED
    BY <2>1 DEF Quiet, Frames, Pending
<1>2. StampInv'
  BY <1>1 DEF Quiet, OrderInv, StampInv
<1>3. \A t : Unanswered(t) => \A m \in Frames' : m.answers # t
  BY <1>1 DEF Unanswered
<1>4. ASSUME NEW g \in Handlers
      PROVE  /\ handler'[g].stage \in Pre /\ handler'[g].req # Nothing
                  => \A m \in Frames' : m.answers # handler'[g].req.ts
             /\ \A m \in Range(handler'[g].out) : m.kind = "tap" =>
                  /\ \A n \in Frames' : n.answers # m.ts
                  /\ \A f \in Handlers : f # g => handler'[f].req.ts # m.ts
  BY <1>3 DEF Quiet, OrderInv, AwaitedInv, Pending
<1>5. AwaitedInv'
  BY <1>4 DEF AwaitedInv, Unanswered, Pending
<1>6. QED
  BY <1>2, <1>5

LEMMA SendOrder ==
  ASSUME BaseInv, OrderInv, UNCHANGED drained, NEW m, Send(m),
         m.kind = "tap" => Unanswered(m.ts) /\ m \in Frames
  PROVE  PlaceInv'
<1>1. CASE UNCHANGED queue
  BY <1>1 DEF OrderInv, PlaceInv, Asked
<1>2. CASE queue' = Append(queue, m)
  <2> DEFINE n == Len(queue)
  <2>1. /\ n \in Nat /\ DOMAIN queue = 1 .. n /\ DOMAIN queue' = 1 .. n + 1
        /\ queue'[n + 1] = m /\ \A k \in 1 .. n : queue'[k] = queue[k]
    BY <1>2, AppendRange DEF BaseInv, ChanInv
  <2>2. \A k \in DOMAIN queue : queue[k] \in Enqueued
    BY DEF Enqueued, Range
  <2>3. \A k \in DOMAIN drained : drained[k].kind = "tap" /\ drained[k] \in Enqueued
    BY DEF Enqueued, Range, OrderInv, PlaceInv
  <2>4. ASSUME m.kind = "tap"
        PROVE  /\ \A k \in DOMAIN drained : m.ts # drained[k].answers
               /\ \A k \in DOMAIN queue : queue[k].kind = "tap" => m.ts # queue[k].answers
               /\ m.ts # m.answers
    <3>1. /\ \A k \in DOMAIN drained : drained[k] \in Frames
          /\ \A k \in DOMAIN queue : queue[k].kind = "tap" => queue[k] \in Frames
      BY <2>2, <2>3 DEF Frames
    <3>2. \A f \in Frames : f.answers # m.ts
      BY <2>4 DEF Unanswered
    <3>3. QED
      BY <2>4, <3>1, <3>2
  <2>5. /\ \A j, k \in DOMAIN drained : Asked(j, k) => j < k
        /\ \A j \in DOMAIN queue, k \in DOMAIN drained :
             queue[j].kind = "tap" => queue[j].ts # drained[k].answers
        /\ \A j, k \in DOMAIN queue :
             /\ queue[j].kind = "tap" /\ queue[k].kind = "tap"
             /\ queue[j].ts = queue[k].answers
             => j < k
    BY DEF OrderInv, PlaceInv
  <2>6. \A j \in 1 .. n + 1, k \in DOMAIN drained :
          queue'[j].kind = "tap" => queue'[j].ts # drained[k].answers
    <3> TAKE j \in 1 .. n + 1, k \in DOMAIN drained
    <3>1. CASE j = n + 1
      BY <2>1, <2>4, <3>1
    <3>2. CASE j # n + 1
      <4>1. j \in 1 .. n
        BY <2>1, <3>2
      <4>2. QED
        BY <2>1, <2>5, <4>1
    <3>3. QED
      BY <3>1, <3>2
  <2>7. \A j, k \in 1 .. n + 1 :
          /\ queue'[j].kind = "tap" /\ queue'[k].kind = "tap"
          /\ queue'[j].ts = queue'[k].answers
          => j < k
    <3> SUFFICES ASSUME NEW j \in 1 .. n + 1, NEW k \in 1 .. n + 1,
                        queue'[j].kind = "tap", queue'[k].kind = "tap",
                        queue'[j].ts = queue'[k].answers
                 PROVE  j < k
      OBVIOUS
    <3>1. j # n + 1
      <4> SUFFICES ASSUME j = n + 1 PROVE FALSE
        OBVIOUS
      <4>1. m.kind = "tap" /\ m.ts = queue'[k].answers
        BY <2>1
      <4>2. CASE k = n + 1
        BY <2>1, <2>4, <4>1, <4>2
      <4>3. CASE k # n + 1
        <5>1. k \in 1 .. n
          BY <2>1, <4>3
        <5>2. QED
          BY <2>1, <2>4, <4>1, <5>1
      <4>4. QED
        BY <4>2, <4>3
    <3>2. j \in 1 .. n
      BY <2>1, <3>1
    <3>3. CASE k = n + 1
      BY <2>1, <3>2, <3>3
    <3>4. CASE k # n + 1
      <4>1. k \in 1 .. n
        BY <2>1, <3>4
      <4>2. QED
        BY <2>1, <2>5, <3>2, <4>1
    <3>5. QED
      BY <3>3, <3>4
  <2>8. QED
    BY <2>1, <2>3, <2>5, <2>6, <2>7 DEF PlaceInv, Asked
<1>3. QED
  BY <1>1, <1>2, Sends DEF BaseInv

LEMMA DrainOrder ==
  ASSUME TypeInv, BaseInv, OrderInv, Drain PROVE OrderInv'
<1> DEFINE n == Len(queue)
           d == Len(drained)
           e == Head(queue)
<1>1. /\ queue # <<>> /\ queue' = Tail(queue) /\ Enqueued' \subseteq Enqueued
      /\ UNCHANGED <<clock, handler>>
      /\ (e.kind = "tap" /\ drained' = Append(drained, e)) \/ UNCHANGED drained
  BY DrainTurn
<1>2. StampInv' /\ AwaitedInv'
  <2>1. Quiet({})
    BY <1>1 DEF Quiet
  <2>2. QED
    BY <2>1, QuietOrder
<1>3. /\ n \in Nat \ {0} /\ DOMAIN queue = 1 .. n /\ DOMAIN queue' = 1 .. n - 1 /\ e = queue[1]
      /\ \A k \in 1 .. n - 1 : queue'[k] = queue[k + 1]
  BY <1>1, RestRange DEF BaseInv, ChanInv
<1>4. \A k \in 1 .. n - 1 : k + 1 \in 1 .. n /\ 1 \in 1 .. n
  BY <1>3
<1>5. /\ \A k \in DOMAIN drained : drained[k].kind = "tap"
      /\ \A j, k \in DOMAIN drained : Asked(j, k) => j < k
      /\ \A j \in DOMAIN queue, k \in DOMAIN drained :
           queue[j].kind = "tap" => queue[j].ts # drained[k].answers
      /\ \A j, k \in DOMAIN queue :
           /\ queue[j].kind = "tap" /\ queue[k].kind = "tap"
           /\ queue[j].ts = queue[k].answers
           => j < k
  BY DEF OrderInv, PlaceInv
<1> HIDE DEF e, n
<1>6. \A j, k \in 1 .. n - 1 :
        /\ queue'[j].kind = "tap" /\ queue'[k].kind = "tap"
        /\ queue'[j].ts = queue'[k].answers
        => j < k
  <2> SUFFICES ASSUME NEW j \in 1 .. n - 1, NEW k \in 1 .. n - 1,
                      queue'[j].kind = "tap", queue'[k].kind = "tap",
                      queue'[j].ts = queue'[k].answers
               PROVE  j < k
    OBVIOUS
  <2>1. j + 1 < k + 1
    BY <1>3, <1>4, <1>5
  <2>2. QED
    BY <1>3, <2>1
<1>7. \A j \in 1 .. n - 1, k \in DOMAIN drained :
        queue'[j].kind = "tap" => queue'[j].ts # drained[k].answers
  BY <1>3, <1>4, <1>5
<1>8. CASE UNCHANGED drained
  <2>1. PlaceInv'
    BY <1>3, <1>5, <1>6, <1>7, <1>8 DEF PlaceInv, Asked
  <2>2. QED
    BY <1>2, <2>1 DEF OrderInv
<1>9. CASE e.kind = "tap" /\ drained' = Append(drained, e)
  <2>1. /\ d \in Nat /\ DOMAIN drained = 1 .. d /\ DOMAIN drained' = 1 .. d + 1
        /\ drained'[d + 1] = e /\ \A k \in 1 .. d : drained'[k] = drained[k]
    BY <1>9, AppendRange DEF BaseInv, ChanInv
  <2>2. e.answers # e.ts
    <3>1. e \in Frames
      <4>1. 1 \in DOMAIN queue
        BY <1>3
      <4>2. QED
        BY <1>3, <1>9, <4>1 DEF Frames, Enqueued, Range
    <3>2. e.answers \in Nat /\ e.answers < e.ts /\ e.ts \in 1 .. clock - 1 /\ clock \in Nat
      BY <3>1 DEF OrderInv, StampInv, BaseInv, WholeInv, ClockInv
    <3>3. QED
      BY <3>2
  <2>3. \A k \in 1 .. d : e.ts # drained[k].answers
    BY <1>3, <1>4, <1>5, <1>9, <2>1
  <2>4. \A j \in 1 .. n - 1 : queue'[j].kind = "tap" => queue'[j].ts # e.answers
    <3> SUFFICES ASSUME NEW j \in 1 .. n - 1, queue'[j].kind = "tap", queue'[j].ts = e.answers
                 PROVE  FALSE
      OBVIOUS
    <3>1. j + 1 < 1
      BY <1>3, <1>4, <1>5, <1>9
    <3>2. QED
      BY <1>3, <3>1
  <2>5. \A k \in 1 .. d + 1 : drained'[k].kind = "tap"
    BY <1>5, <1>9, <2>1
  <2>6. \A j, k \in 1 .. d + 1 : drained'[j].ts = drained'[k].answers => j < k
    <3> SUFFICES ASSUME NEW j \in 1 .. d + 1, NEW k \in 1 .. d + 1,
                        drained'[j].ts = drained'[k].answers
                 PROVE  j < k
      OBVIOUS
    <3>1. CASE j = d + 1
      <4>1. k # d + 1
        BY <2>1, <2>2, <3>1
      <4>2. k \in 1 .. d
        BY <2>1, <4>1
      <4>3. QED
        BY <2>1, <2>3, <3>1, <4>2
    <3>2. CASE j # d + 1 /\ k = d + 1
      BY <2>1, <3>2
    <3>3. CASE j # d + 1 /\ k # d + 1
      <4>1. j \in 1 .. d /\ k \in 1 .. d
        BY <2>1, <3>3
      <4>2. QED
        BY <1>5, <2>1, <4>1 DEF Asked
    <3>4. QED
      BY <3>1, <3>2, <3>3
  <2>7. \A j \in 1 .. n - 1, k \in 1 .. d + 1 :
          queue'[j].kind = "tap" => queue'[j].ts # drained'[k].answers
    <3> TAKE j \in 1 .. n - 1, k \in 1 .. d + 1
    <3>1. CASE k = d + 1
      BY <2>1, <2>4, <3>1
    <3>2. CASE k # d + 1
      <4>1. k \in 1 .. d
        BY <2>1, <3>2
      <4>2. QED
        BY <1>7, <2>1, <4>1
    <3>3. QED
      BY <3>1, <3>2
  <2>8. PlaceInv'
    BY <1>3, <1>6, <2>1, <2>5, <2>6, <2>7 DEF PlaceInv, Asked
  <2>9. QED
    BY <1>2, <2>8 DEF OrderInv
<1>10. QED
  BY <1>1, <1>8, <1>9
LEMMA OrderStep == TypeInv /\ GateInv /\ BaseInv /\ OrderInv /\ [Next]_vars => OrderInv'
<1> SUFFICES ASSUME TypeInv, GateInv, BaseInv, OrderInv, [Next]_vars PROVE OrderInv'
  OBVIOUS
<1>1. ASSUME NEW h \in Handlers, NEW r, Turn(h, r) PROVE OrderInv'
  BY <1>1, TurnOrder
<1>2. ASSUME NEW h \in Handlers, OfferHint(h) PROVE OrderInv'
  <2> DEFINE x == handler[h]
             r == [x EXCEPT !.stage = "reading"]
             m == Hint(x.req.ts)
  <2>1. /\ x.stage = "hinting" /\ Reads(r, "reading", x.req, x.told, x.out, x.hit, x.back, x.resp)
        /\ handler' = [handler EXCEPT ![h] = r] /\ Send(m)
        /\ UNCHANGED <<drained, clock, events>>
    BY <1>2, HintTurn
  <2> HIDE DEF r
  <2>2. m.kind = "hint"
    BY DEF Hint
  <2>3. Enqueued' \subseteq Enqueued \cup {m}
    BY <2>1, Sends DEF BaseInv, Enqueued
  <2>4. Quiet({m})
    <3>1. \A g \in Handlers : handler'[g] = IF g = h THEN r ELSE handler[g]
      BY <2>1, OneHandler
    <3>2. QED
      BY <2>1, <2>2, <2>3, <3>1 DEF Quiet, Reads, Pre
  <2>5. PlaceInv'
    BY <2>1, <2>2, SendOrder
  <2>6. QED
    BY <2>4, <2>5, QuietOrder DEF OrderInv
<1>3. ASSUME NEW h \in Handlers, Enqueue(h) PROVE OrderInv'
  <2> DEFINE x == handler[h]
             r == [x EXCEPT !.out = Tail(x.out)]
             m == Head(x.out)
  <2>1. /\ Reads(r, x.stage, x.req, x.told, Tail(x.out), x.hit, x.back, x.resp)
        /\ handler' = [handler EXCEPT ![h] = r] /\ Send(m)
        /\ UNCHANGED <<drained, clock, events>>
        /\ Range(x.out) = Range(Tail(x.out)) \cup {m}
    BY <1>3, EnqueueTurn
  <2> HIDE DEF r, m
  <2>2. m.kind = "tap" => Unanswered(m.ts) /\ m \in Frames
    BY <2>1 DEF OrderInv, AwaitedInv, Pending, Frames
  <2>3. Enqueued' \subseteq Enqueued \cup {m}
    BY <2>1, Sends DEF BaseInv, Enqueued
  <2>4. Quiet({m})
    <3>1. \A g \in Handlers : handler'[g] = IF g = h THEN r ELSE handler[g]
      BY <2>1, OneHandler
    <3>2. QED
      BY <2>1, <2>2, <2>3, <3>1 DEF Quiet, Reads
  <2>5. PlaceInv'
    BY <2>1, <2>2, SendOrder
  <2>6. QED
    BY <2>4, <2>5, QuietOrder DEF OrderInv
<1>4. Drain => OrderInv'
  BY DrainOrder
<1>5. CASE UNCHANGED vars
  <2>1. UNCHANGED <<clock, handler, queue, drained, events>>
    BY <1>5 DEF vars, gateVars, loopVars
  <2>2. QED
    BY <2>1 DEF OrderInv, StampInv, AwaitedInv, PlaceInv, Unanswered, Frames, Enqueued, Pending,
       Asked
<1>6. QED
  BY <1>1, <1>2, <1>3, <1>4, <1>5, StepKinds

LEMMA OrderStart == Init => OrderInv
<1> SUFFICES ASSUME Init PROVE OrderInv
  OBVIOUS
<1>1. Range(<<>>) = {} /\ DOMAIN <<>> = {}
  BY EmptyRange
<1>2. Idle.req = Nothing /\ Idle.out = <<>> /\ Idle.stage = "idle"
  BY DEF Idle
<1>3. Frames = {}
  BY <1>1, <1>2 DEF Init, LoopInit, Frames, Enqueued, Pending
<1>4. QED
  BY <1>1, <1>2, <1>3 DEF Init, LoopInit, OrderInv, StampInv, AwaitedInv, PlaceInv, Pending, Pre

LEMMA ToldStart == Init => ToldInv
<1> SUFFICES ASSUME Init PROVE \A h \in Handlers : Told(handler[h])
  BY DEF ToldInv
<1>1. Told(Idle)
  BY DEF Told, Idle
<1>2. QED
  BY <1>1 DEF Init

\* The record of an exchange is whole and in order, for every policy, every list of
\* faults, every channel, and any number of clients and of requests in flight.  Unless
\* the log tells of a drop, a POST that ran to its end has its request, every event it
\* raised and every fault applied to it on record, also where the upstream could not be
\* reached; and no response is drained before its request (handle_post,
\* relay_response, tap_frame).
THEOREM ExchangesStayRecorded == Spec => []ExchangesRecorded
<1>1. BaseInv /\ ToldInv => ExchangesAccountedFor
  <2> SUFFICES ASSUME BaseInv, ToldInv, ~dropLogged, NEW h \in Handlers
               PROVE  /\ At(h, "end") => Owed(handler[h]) \subseteq Enqueued
                      /\ handler[h].resp # Nothing =>
                           Range(Tap(handler[h].resp)) \subseteq Enqueued \cup Pending(h)
    BY DEF ExchangesAccountedFor
  <2>1. Told(handler[h]) /\ Whole(handler[h])
    BY DEF ToldInv, BaseInv, WholeInv
  <2>2. ASSUME At(h, "end") PROVE Owed(handler[h]) \subseteq Enqueued
    <3>1. handler[h].stage = "end" /\ Range(handler[h].out) = {} /\ handler[h].told
      BY <2>1, <2>2, EmptyRange DEF At, Whole
    <3>2. QED
      BY <2>1, <3>1 DEF Told, Owed, Tale, HitOf, BackOf
  <2>3. QED
    BY <2>1, <2>2 DEF Told, Pending
<1>2. OrderInv => RequestsDrainedFirst
  BY DEF OrderInv, PlaceInv, RequestsDrainedFirst
<1>3. QED
  BY <1>1, <1>2, GateStart, GateStep, BaseStart, BaseStep, ToldStart, ToldStep, OrderStart,
     OrderStep, PTL DEF Spec, ExchangesRecorded
-----------------------------------------------------------------------------
(* The handshake of the session row.                                        *)

\* The frame m tells that the request of this id has the ts t.
Tells(m, id, t) ==
  /\ m.id = id
  /\ \/ Request(m) /\ m.ts = t
     \/ Response(m) /\ m.answers = t

\* What is known of the request of an id: where it is in flight, tapped, answered, or
\* tracked by the storage thread.
Names(id, t) ==
  /\ id # NoId
  /\ \/ \E h \in Handlers : handler[h].req.id = id /\ handler[h].req.ts = t
     \/ \E m \in Frames : Tells(m, id, t)
     \/ id \in DOMAIN inits /\ inits[id] = t

\* An id names one request, and one that has been asked.
NameInv ==
  /\ asked \in [Clients -> Nat]
  /\ \A id, t : Names(id, t) => id \in Nat /\ \A c \in Clients : id <= asked[c]
  /\ \A id, t, u : Names(id, t) /\ Names(id, u) => t = u
  /\ \A m \in Frames : m.body = "version" => m.id # NoId

\* A step keeps what is known, or names a request anew.
Renames ==
  \/ UNCHANGED asked /\ \A id, t : Names(id, t)' => Names(id, t)
  \/ \E c \in Clients : /\ asked' = [asked EXCEPT ![c] = asked[c] + 1]
                        /\ \A id, t : Names(id, t)' => \/ Names(id, t)
                                                       \/ id = asked[c] + 1 /\ t = clock

LEMMA RenamesKeep ==
  ASSUME OneClient, NameInv, Renames, \A m \in Frames' : m.body = "version" => m.id # NoId
  PROVE  NameInv'
<1>1. CASE UNCHANGED asked /\ \A id, t : Names(id, t)' => Names(id, t)
  BY <1>1 DEF NameInv
<1>2. ASSUME NEW c \in Clients, asked' = [asked EXCEPT ![c] = asked[c] + 1],
             \A id, t : Names(id, t)' => Names(id, t) \/ (id = asked[c] + 1 /\ t = clock)
      PROVE  NameInv'
  <2>1. asked' \in [Clients -> Nat] /\ asked[c] \in Nat /\ asked'[c] = asked[c] + 1
    BY <1>2 DEF NameInv
  <2>2. \A d \in Clients : d = c
    BY DEF OneClient
  <2>3. \A id, t : Names(id, t) => id \in Nat /\ id <= asked[c]
    BY DEF NameInv
  <2>4. \A id, t : Names(id, t)' => id \in Nat /\ \A d \in Clients : id <= asked'[d]
    BY <1>2, <2>1, <2>2, <2>3
  <2>5. \A id, t, u : Names(id, t)' /\ Names(id, u)' => t = u
    <3> SUFFICES ASSUME NEW id, NEW t, NEW u, Names(id, t)', Names(id, u)' PROVE t = u
      OBVIOUS
    <3>1. CASE id = asked[c] + 1
      <4>1. ~Names(id, t) /\ ~Names(id, u)
        BY <2>1, <2>3, <3>1
      <4>2. QED
        BY <1>2, <4>1
    <3>2. CASE id # asked[c] + 1
      <4>1. Names(id, t) /\ Names(id, u)
        BY <1>2, <3>2
      <4>2. QED
        BY <4>1 DEF NameInv
    <3>3. QED
      BY <3>1, <3>2
  <2>6. QED
    BY <2>1, <2>4, <2>5 DEF NameInv
<1>3. QED
  BY <1>1, <1>2 DEF Renames
LEMMA QuietFrames == ASSUME NEW E, Quiet(E) PROVE Frames' \subseteq Frames
<1>1. Frames' = {m \in Enqueued' \cup UNION {Range(handler'[g].out) : g \in Handlers} :
                   m.kind = "tap"}
  BY DEF Frames, Pending
<1>2. QED
  BY <1>1 DEF Quiet, Frames, Pending

LEMMA QuietNames ==
  ASSUME NEW E, Quiet(E), UNCHANGED <<asked, inits>> PROVE Renames
<1>1. Frames' \subseteq Frames
  BY QuietFrames
<1>2. ASSUME NEW id, NEW t, Names(id, t)' PROVE Names(id, t)
  BY <1>1, <1>2 DEF Names, Quiet
<1>3. QED
  BY <1>2 DEF Renames

LEMMA TurnNames ==
  ASSUME TypeInv, BaseInv, OrderInv, NameInv, NEW h \in Handlers, NEW r, Turn(h, r)
  PROVE  Renames /\ \A m \in Frames' : m.body = "version" => m.id # NoId
<1> DEFINE x == handler[h]
           fresh == {m \in Range(r.out) : m.kind = "tap"}
<1>1. /\ handler' = [handler EXCEPT ![h] = r] /\ UNCHANGED inits
      /\ Timed(x, r) /\ TapsOwn(x, r)
  BY DEF Turn, Stay, loopVars
<1>2. Frames' \subseteq Frames \cup fresh
  BY TappedFrames
<1>3. \A g \in Handlers : handler'[g] = IF g = h THEN r ELSE handler[g]
  BY <1>1, OneHandler
<1>4. ASSUME NEW m \in fresh
      PROVE  /\ m.body = "version" => m.id # NoId
             /\ Request(m) => m.id = x.req.id /\ m.ts = x.req.ts
             /\ Response(m) => m.id \in {x.req.id, NoId} /\ m.answers = x.req.ts
  <2>1. CASE m = RequestFrame(x.req)
    BY <2>1 DEF RequestFrame, Frame, Request, Response
  <2>2. CASE AnswerFrame(m, x.req)
    BY <2>2 DEF AnswerFrame, Request, Response
  <2>3. QED
    BY <1>1, <2>1, <2>2 DEF TapsOwn
<1>5. \A m \in Frames' : m.body = "version" => m.id # NoId
  BY <1>2, <1>4 DEF NameInv
<1>6. ASSUME NEW id, NEW t, Names(id, t)'
      PROVE  Names(id, t) \/ (id # NoId /\ r.req.id = id /\ r.req.ts = t)
  <2>1. id # NoId
    BY <1>6 DEF Names
  <2>2. CASE \E g \in Handlers : handler'[g].req.id = id /\ handler'[g].req.ts = t
    BY <1>3, <2>1, <2>2 DEF Names
  <2>3. ASSUME NEW m \in Frames', Tells(m, id, t) PROVE Names(id, t)
    <3>1. CASE m \in Frames
      BY <2>1, <2>3, <3>1 DEF Names
    <3>2. CASE m \in fresh
      <4>1. x.req.id = id /\ x.req.ts = t
        BY <1>4, <2>1, <2>3, <3>2 DEF Tells
      <4>2. QED
        BY <2>1, <4>1 DEF Names
    <3>3. QED
      BY <1>2, <3>1, <3>2
  <2>4. CASE id \in DOMAIN inits' /\ inits'[id] = t
    BY <1>1, <2>1, <2>4 DEF Names
  <2>5. QED
    BY <1>6, <2>2, <2>3, <2>4 DEF Names
<1>7. CASE UNCHANGED asked /\ (r.req = x.req \/ r.req = Nothing \/ r.req.id = NoId)
  <2>1. \A id, t : id # NoId /\ r.req.id = id /\ r.req.ts = t => Names(id, t)
    BY <1>7 DEF Names, Nothing
  <2>2. ASSUME NEW id, NEW t, Names(id, t)' PROVE Names(id, t)
    BY <1>6, <2>1, <2>2
  <2>3. Renames
    BY <1>7, <2>2 DEF Renames
  <2>4. QED
    BY <1>5, <2>3
<1>8. ASSUME NEW c \in Clients, r.req.id = asked[c] + 1, r.req.ts = clock,
             asked' = [asked EXCEPT ![c] = asked[c] + 1]
      PROVE  Renames
  BY <1>6, <1>8 DEF Renames
<1>9. Renames
  BY <1>1, <1>7, <1>8 DEF Timed, Begins, Numbers
<1>10. QED
  BY <1>5, <1>9

\* The storage thread tracks an initialize under its id.
LEMMA DrainNames ==
  ASSUME TypeInv, BaseInv, OrderInv, Drain
  PROVE  Renames /\ Frames' \subseteq Frames /\ UNCHANGED asked
<1> DEFINE e == Head(queue)
<1>1. /\ queue # <<>> /\ Enqueued' \subseteq Enqueued /\ UNCHANGED <<clock, handler, asked>>
      /\ Range(queue) = Range(queue') \cup {e}
  BY DrainTurn
<1>2. Quiet({})
  BY <1>1 DEF Quiet
<1>3. Frames' \subseteq Frames
  BY <1>2, QuietFrames
<1>4. ASSUME NEW i \in DOMAIN inits'
      PROVE  \/ i \in DOMAIN inits /\ inits'[i] = inits[i]
             \/ e \in Frames /\ Request(e) /\ e.id = i /\ e.ts = inits'[i]
  <2>1. CASE UNCHANGED inits
    BY <1>4, <2>1
  <2>2. CASE HandleTap
    <3>1. e.kind = "tap" /\ inits' \in Tracked(inits, "initialize", e)
      BY <2>2 DEF HandleTap
    <3>2. e \in Frames
      BY <1>1, <3>1 DEF Frames, Enqueued
    <3>3. CASE Opens("initialize", e)
      <4>1. inits' \in Noted(inits, e)
        BY <3>1, <3>3 DEF Tracked
      <4>2. PICK I \in SUBSET DOMAIN inits :
              inits' = [j \in I \cup {e.id} |-> IF j = e.id THEN e.ts ELSE inits[j]]
        BY <4>1 DEF Noted
      <4>3. QED
        BY <1>4, <3>2, <3>3, <4>2 DEF Opens
    <3>4. CASE ~Opens("initialize", e) /\ Retires("initialize", e)
      <4>1. inits' = Kept(inits, DOMAIN inits \ {e.id})
        BY <3>1, <3>4 DEF Tracked
      <4>2. QED
        BY <1>4, <4>1 DEF Kept
    <3>5. CASE ~Opens("initialize", e) /\ ~Retires("initialize", e)
      <4>1. inits' = inits
        BY <3>1, <3>5 DEF Tracked
      <4>2. QED
        BY <1>4, <4>1
    <3>6. QED
      BY <3>3, <3>4, <3>5
  <2>3. HandleTap \/ UNCHANGED inits
    BY DEF Drain, HandleEvent, HandleHint, LoopIdle
  <2>4. QED
    BY <2>1, <2>2, <2>3
<1>5. ASSUME NEW id, NEW t, Names(id, t)' PROVE Names(id, t)
  <2>1. CASE id \in DOMAIN inits' /\ inits'[id] = t
    <3>1. \/ id \in DOMAIN inits /\ inits[id] = t
          \/ e \in Frames /\ Tells(e, id, t)
      BY <1>4, <2>1 DEF Tells
    <3>2. QED
      BY <1>5, <3>1 DEF Names
  <2>2. CASE ~(id \in DOMAIN inits' /\ inits'[id] = t)
    BY <1>1, <1>3, <1>5, <2>2 DEF Names
  <2>3. QED
    BY <2>1, <2>2
<1>6. QED
  BY <1>1, <1>3, <1>5 DEF Renames
LEMMA NameStep ==
  ASSUME OneClient
  PROVE  TypeInv /\ GateInv /\ BaseInv /\ OrderInv /\ NameInv /\ [Next]_vars => NameInv'
<1> SUFFICES ASSUME TypeInv, GateInv, BaseInv, OrderInv, NameInv, [Next]_vars PROVE NameInv'
  OBVIOUS
<1>1. ASSUME NEW h \in Handlers, NEW r, Turn(h, r) PROVE NameInv'
  BY <1>1, TurnNames, RenamesKeep
<1>2. ASSUME NEW E, Quiet(E), UNCHANGED <<asked, inits>> PROVE NameInv'
  <2>1. Renames /\ Frames' \subseteq Frames
    BY <1>2, QuietNames, QuietFrames
  <2>2. \A m \in Frames' : m.body = "version" => m.id # NoId
    BY <2>1 DEF NameInv
  <2>3. QED
    BY <2>1, <2>2, RenamesKeep
<1>3. ASSUME NEW h \in Handlers, OfferHint(h) PROVE NameInv'
  <2> DEFINE x == handler[h]
             r == [x EXCEPT !.stage = "reading"]
             m == Hint(x.req.ts)
  <2>1. /\ x.stage = "hinting" /\ Reads(r, "reading", x.req, x.told, x.out, x.hit, x.back, x.resp)
        /\ handler' = [handler EXCEPT ![h] = r] /\ Send(m)
        /\ UNCHANGED <<drained, clock, events, asked, inits>>
    BY <1>3, HintTurn
  <2> HIDE DEF r
  <2>2. Enqueued' \subseteq Enqueued \cup {m} /\ m.kind = "hint"
    BY <2>1, Sends DEF BaseInv, Enqueued, Hint
  <2>3. Quiet({m})
    <3>1. \A g \in Handlers : handler'[g] = IF g = h THEN r ELSE handler[g]
      BY <2>1, OneHandler
    <3>2. QED
      BY <2>1, <2>2, <3>1 DEF Quiet, Reads, Pre
  <2>4. QED
    BY <1>2, <2>1, <2>3
<1>4. ASSUME NEW h \in Handlers, Enqueue(h) PROVE NameInv'
  <2> DEFINE x == handler[h]
             r == [x EXCEPT !.out = Tail(x.out)]
             m == Head(x.out)
  <2>1. /\ Reads(r, x.stage, x.req, x.told, Tail(x.out), x.hit, x.back, x.resp)
        /\ handler' = [handler EXCEPT ![h] = r] /\ Send(m)
        /\ UNCHANGED <<drained, clock, events, asked, inits>>
        /\ Range(x.out) = Range(Tail(x.out)) \cup {m}
    BY <1>4, EnqueueTurn
  <2> HIDE DEF r, m
  <2>2. Enqueued' \subseteq Enqueued \cup {m} /\ (m.kind = "tap" => m \in Frames)
    BY <2>1, Sends DEF BaseInv, Enqueued, Pending, Frames
  <2>3. Quiet({m})
    <3>1. \A g \in Handlers : handler'[g] = IF g = h THEN r ELSE handler[g]
      BY <2>1, OneHandler
    <3>2. QED
      BY <2>1, <2>2, <3>1 DEF Quiet, Reads
  <2>4. QED
    BY <1>2, <2>1, <2>3
<1>5. CASE Drain
  <2>1. Renames /\ Frames' \subseteq Frames
    BY <1>5, DrainNames
  <2>2. \A m \in Frames' : m.body = "version" => m.id # NoId
    BY <2>1 DEF NameInv
  <2>3. QED
    BY <2>1, <2>2, RenamesKeep
<1>6. CASE UNCHANGED vars
  <2>1. UNCHANGED <<asked, inits, clock, handler>> /\ Enqueued' = Enqueued
    BY <1>6 DEF vars, gateVars, loopVars, Enqueued
  <2>2. Quiet({})
    BY <2>1 DEF Quiet
  <2>3. QED
    BY <1>2, <2>1, <2>2
<1>7. QED
  BY <1>1, <1>3, <1>4, <1>5, <1>6, StepKinds

LEMMA NameStart == Init => NameInv
<1> SUFFICES ASSUME Init PROVE NameInv
  OBVIOUS
<1>1. Frames = {}
  <2>1. Range(<<>>) = {}
    BY EmptyRange
  <2>2. Idle.out = <<>>
    BY DEF Idle
  <2>3. QED
    BY <2>1, <2>2 DEF Init, LoopInit, Frames, Enqueued, Pending
<1>2. Idle.req.id = NoId
  BY DEF Idle, Nothing
<1>3. DOMAIN inits = {}
  BY DEF Init, LoopInit
<1>4. \A id, t : ~Names(id, t)
  BY <1>1, <1>2, <1>3 DEF Init, Names
<1>5. QED
  BY <1>1, <1>4 DEF Init, NameInv

\* What the handshake of the session row says is changed by the storage thread only,
\* and there by the answer of one initialize.
LEMMA VersionStep ==
  TypeInv /\ GateInv /\ BaseInv /\ OrderInv /\ NameInv /\ VersionsPaired /\ [Next]_vars
    => VersionsPaired'
<1> SUFFICES ASSUME TypeInv, GateInv, BaseInv, OrderInv, NameInv, VersionsPaired, [Next]_vars,
                    source' = "initialize"
             PROVE  \E k \in DOMAIN drained' : /\ drained'[k].ts = protocol'.negotiated
                                               /\ drained'[k].answers = protocol'.proposed
  BY DEF VersionsPaired
<1>1. CASE UNCHANGED <<drained, source, protocol>>
  BY <1>1 DEF VersionsPaired
<1>2. CASE HandleTap
  <2> DEFINE d == Len(drained)
             e == Head(queue)
  <2>1. /\ d \in Nat /\ DOMAIN drained = 1 .. d /\ DOMAIN drained' = 1 .. d + 1
        /\ drained'[d + 1] = e /\ \A k \in 1 .. d : drained'[k] = drained[k]
    BY <1>2, AppendRange DEF BaseInv, ChanInv, HandleTap
  <2>2. CASE UNCHANGED <<source, protocol>>
    <3>1. PICK k \in 1 .. d : /\ drained[k].ts = protocol.negotiated
                              /\ drained[k].answers = protocol.proposed
      BY <2>1, <2>2 DEF VersionsPaired
    <3>2. k \in 1 .. d + 1
      BY <2>1
    <3>3. QED
      BY <2>1, <2>2, <3>1, <3>2
  <2>3. CASE ~UNCHANGED <<source, protocol>>
    <3>1. /\ Answers(inits, e) /\ e.body = "version"
          /\ protocol' = [proposed |-> Proposed(inits, e), negotiated |-> e.ts]
      BY <1>2, <2>3 DEF HandleTap, SetProtocol, UpdateSession
    <3>2. e \in Frames
      <4>1. e \in Range(queue) /\ e.kind = "tap"
        BY <1>2, RestRange DEF HandleTap, BaseInv, ChanInv
      <4>2. QED
        BY <4>1 DEF Frames, Enqueued
    <3>3. e.id # NoId /\ Response(e) /\ e.id \in DOMAIN inits
      BY <3>1, <3>2 DEF NameInv, Answers
    <3>4. Names(e.id, inits[e.id]) /\ Names(e.id, e.answers)
      BY <3>2, <3>3 DEF Names, Tells
    <3>5. e.answers = inits[e.id]
      BY <3>4 DEF NameInv
    <3>6. d + 1 \in 1 .. d + 1
      BY <2>1
    <3>7. protocol'.negotiated = e.ts /\ protocol'.proposed = inits[e.id]
      BY <3>1 DEF Proposed
    <3>8. QED
      BY <2>1, <3>5, <3>6, <3>7
  <2>4. QED
    BY <2>2, <2>3
<1>3. CASE HandleHint
  <2>1. UNCHANGED drained /\ UNCHANGED <<source, protocol>>
    BY <1>3 DEF HandleHint, SetProtocol, UpdateSession
  <2>2. QED
    BY <1>1, <2>1
<1>4. CASE ~HandleTap /\ ~HandleHint
  <2>1. ASSUME NEW h \in Handlers, NEW r, Turn(h, r) PROVE UNCHANGED <<drained, source, protocol>>
    BY <2>1 DEF Turn, Stay, loopVars
  <2>2. ASSUME NEW h \in Handlers, OfferHint(h) \/ Enqueue(h)
        PROVE  UNCHANGED <<drained, source, protocol>>
    BY <2>2, HintTurn, EnqueueTurn
  <2>3. HandleEvent => UNCHANGED <<drained, source, protocol>>
    BY DEF HandleEvent, LoopIdle
  <2>4. UNCHANGED vars => UNCHANGED <<drained, source, protocol>>
    BY DEF vars, loopVars
  <2>5. QED
    BY <1>1, <1>4, <2>1, <2>2, <2>3, <2>4, StepKinds DEF Drain
<1>5. QED
  BY <1>2, <1>3, <1>4

\* The row of a session pairs the version one initialize proposed with the one its answer
\* selected, whatever the channel drops, however requests overtake each other, whichever
\* updates of the row fail, and even if hints come late; provided that the clients of the
\* upstream do not number their requests alike, of which the tracker knows nothing
\* (PendingInitialize, record_initialize_negotiation).
THEOREM HandshakesStayPaired ==
  ASSUME OneClient PROVE Spec => []VersionsPaired
<1>1. Init => VersionsPaired
  BY DEF Init, LoopInit, VersionsPaired
<1>2. TypeInv /\ GateInv /\ BaseInv /\ OrderInv /\ NameInv /\ [Next]_vars => NameInv'
  BY NameStep
<1>3. QED
  BY <1>1, <1>2, GateStart, GateStep, BaseStart, BaseStep, OrderStart, OrderStep, NameStart,
     VersionStep, PTL DEF Spec

-----------------------------------------------------------------------------
(* A seeded run.  What the rules decide for the frames of a direction is a *)
(* function of these frames and of what was decided for those before.      *)

\* After k frames of direction d that met the faults f: how often rule i has fired, the
\* rules that may fire for the next frame, the draws that were used.
TimesOf(f, i, k) == Cardinality({j \in 1 .. k : f[j] = i})
OpenTo(d, f, k) ==
  Eligible(rules, [i \in DOMAIN rules |-> TimesOf(f, i, k)], d, traffic[d][k + 1])
Passes(hit, i) == hit = NoHit \/ i <= hit
UsesOf(d, f, k) ==
  {x \in (1 .. k) \X DOMAIN rules :
     x[2] \in Drawing(OpenTo(d, f, x[1] - 1)) /\ Passes(f[x[1]], x[2])}
DrawsOf(d, f, k) == Cardinality(UsesOf(d, f, k))

\* What is chosen when n draws have been used.
HitsAfter(eligible, n) ==
  {i \in eligible :
     \/ Certain(rules[i])
     \/ draws[n + Cardinality({j \in Drawing(eligible) : j <= i})] < rules[i].prob}
ChosenAfter(eligible, n) ==
  IF HitsAfter(eligible, n) = {} THEN NoHit ELSE Min(HitsAfter(eligible, n))

Follows(d, f) ==
  \A k \in 1 .. Len(f) : f[k] = ChosenAfter(OpenTo(d, f, k - 1), DrawsOf(d, f, k - 1))

\* No rule of another direction draws.
Alone(d) == \A i \in DOMAIN rules : Certain(rules[i]) \/ rules[i].dir = d

SeedTypeInv ==
  /\ rules \in Files /\ traffic \in Traffic /\ drawn \in Nat
  /\ fired \in [DOMAIN rules -> Nat]
  /\ faults \in [Dirs -> Seq(Nat)]
  /\ \A d \in Dirs : Len(faults[d]) <= Len(traffic[d])

\* In the run and in the one before, each direction has met what follows from its
\* frames; the counters and the stream are where the faults so far put them.
SeedInv ==
  /\ \A d \in Dirs : Follows(d, faults[d])
  /\ \A d \in Dirs, i \in DOMAIN rules :
       rules[i].dir = d => fired[i] = TimesOf(faults[d], i, Len(faults[d]))
  /\ \A d \in Dirs : Alone(d) => drawn = DrawsOf(d, faults[d], Len(faults[d]))
  /\ before # <<>> =>
       \A d \in Dirs : /\ before[d] \in Seq(Nat) /\ Len(before[d]) = Len(traffic[d])
                       /\ Follows(d, before[d])

LEMMA RulesAre ==
  ASSUME rules \in Files
  PROVE  /\ Len(rules) \in Nat /\ DOMAIN rules = 1 .. Len(rules)
         /\ IsFiniteSet(DOMAIN rules)
<1>1. Len(rules) \in Nat /\ DOMAIN rules = 1 .. Len(rules)
  BY SeededRunsAssumption, LenProperties
<1>2. IsFiniteSet(1 .. Len(rules))
  BY <1>1, FS_Interval
<1>3. QED
  BY <1>1, <1>2

LEMMA FirstIs ==
  ASSUME NEW S, S \subseteq Nat, S # {}
  PROVE  Min(S) \in S /\ \A y \in S : Min(S) <= y
<1>1. PICK m \in S : \A y \in S : ~ (<<y, m>> \in OpToRel(<, Nat))
  BY NatLessThanWellFounded, WFMin
<1>2. \A y \in S : m <= y
  <2> SUFFICES ASSUME NEW y \in S PROVE m <= y
    OBVIOUS
  <2>1. m \in Nat /\ y \in Nat
    BY <1>1
  <2>2. ~ (y < m)
    BY <1>1, <2>1 DEF OpToRel
  <2>3. QED
    BY <2>1, <2>2
<1>3. QED
  BY <1>2 DEF Min

\* The choice is of an eligible rule that hits, and those before it miss.
LEMMA ChoiceIs ==
  ASSUME rules \in Files, NEW E, E \subseteq DOMAIN rules, NEW n
  PROVE  LET c == ChosenAfter(E, n)
         IN  /\ c \in Nat
             /\ c = NoHit \/ c \in E
             /\ c = NoHit => \A i \in E : ~Certain(rules[i])
             /\ c # NoHit => \A i \in E : i < c => ~Certain(rules[i])
<1> DEFINE H == HitsAfter(E, n)
<1>1. H \subseteq E /\ E \subseteq 1 .. Len(rules) /\ Len(rules) \in Nat
  BY RulesAre DEF HitsAfter
<1>2. \A i \in E : Certain(rules[i]) => i \in H
  BY DEF HitsAfter
<1> HIDE DEF H
<1>3. CASE H = {}
  <2>1. ChosenAfter(E, n) = NoHit
    BY <1>3 DEF ChosenAfter, H
  <2>2. QED
    BY <1>2, <1>3, <2>1 DEF NoHit
<1>4. CASE H # {}
  <2>1. ChosenAfter(E, n) = Min(H)
    BY <1>4 DEF ChosenAfter, H
  <2>2. Min(H) \in H /\ \A y \in H : Min(H) <= y
    BY <1>1, <1>4, FirstIs
  <2> DEFINE c == Min(H)
  <2> HIDE DEF c
  <2>3. c \in H /\ \A y \in H : c <= y
    BY <2>2 DEF c
  <2>4. c \in Nat /\ c # NoHit /\ c \in E
    BY <1>1, <2>3 DEF NoHit
  <2>5. \A i \in E : i < c => ~Certain(rules[i])
    BY <1>1, <1>2, <2>3, <2>4
  <2>6. QED
    BY <2>1, <2>4, <2>5 DEF c
<1>5. QED
  BY <1>3, <1>4

LEMMA ChosenIs == \A E : Chosen(E) = ChosenAfter(E, drawn)
<1> SUFFICES ASSUME NEW E PROVE Chosen(E) = ChosenAfter(E, drawn)
  OBVIOUS
<1>1. {i \in E : Fires(E, i)} = HitsAfter(E, drawn)
  BY DEF Fires, Draw, HitsAfter
<1>2. QED
  BY <1>1 DEF Chosen, ChosenAfter

\* Where every eligible rule is certain the stream does not matter.
LEMMA CertainChoice ==
  ASSUME NEW E, \A i \in E : Certain(rules[i]), NEW n, NEW m
  PROVE  ChosenAfter(E, n) = ChosenAfter(E, m)
<1>1. HitsAfter(E, n) = E /\ HitsAfter(E, m) = E
  BY DEF HitsAfter
<1>2. QED
  BY <1>1 DEF ChosenAfter

LEMMA EligibleIs ==
  ASSUME NEW c, NEW d, NEW m
  PROVE  /\ Eligible(rules, c, d, m) \subseteq DOMAIN rules
         /\ \A i \in Eligible(rules, c, d, m) : rules[i].dir = d
BY DEF Eligible

\* Only the counters of the rules of a direction count for its frames.
LEMMA EligibleSame ==
  ASSUME NEW c1, NEW c2, NEW d, NEW m,
         \A i \in DOMAIN rules : rules[i].dir = d => c1[i] = c2[i]
  PROVE  Eligible(rules, c1, d, m) = Eligible(rules, c2, d, m)
BY DEF Eligible, Exhausted

-----------------------------------------------------------------------------
(* The same faults so far.                                                 *)

LEMMA SamePast ==
  ASSUME NEW f, NEW g, NEW k \in Nat, \A j \in 1 .. k : f[j] = g[j], NEW d
  PROVE  OpenTo(d, f, k) = OpenTo(d, g, k)
<1>1. \A i : {j \in 1 .. k : f[j] = i} = {j \in 1 .. k : g[j] = i}
  OBVIOUS
<1>2. \A i : TimesOf(f, i, k) = TimesOf(g, i, k)
  BY <1>1 DEF TimesOf
<1>3. [i \in DOMAIN rules |-> TimesOf(f, i, k)] = [i \in DOMAIN rules |-> TimesOf(g, i, k)]
  BY <1>2
<1>4. QED
  BY <1>3 DEF OpenTo

LEMMA SameDraws ==
  ASSUME NEW f, NEW g, NEW k \in Nat, \A j \in 1 .. k : f[j] = g[j], NEW d
  PROVE  UsesOf(d, f, k) = UsesOf(d, g, k)
<1>1. ASSUME NEW l \in 0 .. k PROVE OpenTo(d, f, l) = OpenTo(d, g, l)
  <2>1. l \in Nat /\ \A j \in 1 .. l : f[j] = g[j]
    OBVIOUS
  <2>2. QED
    BY <2>1, SamePast
<1>2. \A x \in (1 .. k) \X DOMAIN rules :
        f[x[1]] = g[x[1]] /\ OpenTo(d, f, x[1] - 1) = OpenTo(d, g, x[1] - 1)
  BY <1>1
<1>3. QED
  BY <1>2 DEF UsesOf

\* Two runs of the same frames meet the same faults.
LEMMA OneCourse ==
  ASSUME NEW d, NEW f \in Seq(Nat), NEW g \in Seq(Nat), Follows(d, f), Follows(d, g),
         Len(f) <= Len(g)
  PROVE  \A i \in 1 .. Len(f) : f[i] = g[i]
<1>1. Len(f) \in Nat /\ Len(g) \in Nat
  BY LenProperties
<1> DEFINE K == {k \in 1 .. Len(f) : f[k] # g[k]}
<1> SUFFICES ASSUME K # {} PROVE FALSE
  OBVIOUS
<1>2. K \subseteq Nat
  BY <1>1
<1> DEFINE n == Min(K)
<1>3. n \in K /\ \A y \in K : n <= y
  <2> HIDE DEF K
  <2>1. QED
    BY <1>2, FirstIs
<1> HIDE DEF n
<1>4. n \in 1 .. Len(f) /\ f[n] # g[n] /\ n \in Nat /\ n - 1 \in Nat /\ n \in 1 .. Len(g)
  BY <1>1, <1>3
<1>5. \A j \in 1 .. (n - 1) : f[j] = g[j]
  BY <1>1, <1>3, <1>4
<1> HIDE DEF K
<1> DEFINE p == n - 1
<1>6. p \in Nat /\ \A j \in 1 .. p : f[j] = g[j]
  BY <1>4, <1>5
<1>7. OpenTo(d, f, p) = OpenTo(d, g, p) /\ DrawsOf(d, f, p) = DrawsOf(d, g, p)
  <2> HIDE DEF p
  <2>1. OpenTo(d, f, p) = OpenTo(d, g, p)
    BY <1>6, SamePast
  <2>2. DrawsOf(d, f, p) = DrawsOf(d, g, p)
    BY <1>6, SameDraws DEF DrawsOf
  <2>3. QED
    BY <2>1, <2>2
<1>8. QED
  BY <1>4, <1>7 DEF Follows

-----------------------------------------------------------------------------
(* One more frame.                                                         *)

\* A fault more, x for the frame after f: the counters and the draws.
LEMMA OneMore ==
  ASSUME rules \in Files, NEW d, NEW f \in Seq(Nat), NEW x \in Nat
  PROVE  LET k == Len(f)
             g == Append(f, x)
         IN  /\ \A i : TimesOf(g, i, k + 1) = TimesOf(f, i, k) + (IF i = x THEN 1 ELSE 0)
             /\ DrawsOf(d, g, k + 1) =
                  DrawsOf(d, f, k) + Cardinality({i \in Drawing(OpenTo(d, f, k)) : Passes(x, i)})
<1> DEFINE k == Len(f)
<1> DEFINE g == Append(f, x)
<1>1. k \in Nat /\ Len(g) = k + 1 /\ g[k + 1] = x /\ \A j \in 1 .. k : f[j] = g[j]
  BY AppendProperties, LenProperties
<1> HIDE DEF k, g
<1>2. ASSUME NEW i
      PROVE  TimesOf(g, i, k + 1) = TimesOf(f, i, k) + (IF i = x THEN 1 ELSE 0)
  <2> DEFINE F == {j \in 1 .. k : f[j] = i}
  <2> DEFINE G == {j \in 1 .. (k + 1) : g[j] = i}
  <2>1. IsFiniteSet(F) /\ Cardinality(F) \in Nat
    <3>1. IsFiniteSet(1 .. k)
      BY <1>1, FS_Interval
    <3>2. IsFiniteSet(F)
      BY <3>1, FS_Subset
    <3>3. QED
      BY <3>2, FS_CardinalityType
  <2>2. CASE i = x
    <3>1. G = F \cup {k + 1} /\ k + 1 \notin F
      BY <1>1, <2>2
    <3> HIDE DEF F, G
    <3>2. Cardinality(G) = Cardinality(F) + 1
      BY <2>1, <3>1, FS_AddElement
    <3>3. QED
      BY <2>1, <2>2, <3>2 DEF F, G, TimesOf
  <2>3. CASE i # x
    <3>1. G = F
      BY <1>1, <2>3
    <3> HIDE DEF F, G
    <3>2. Cardinality(G) = Cardinality(F) + 0
      BY <2>1, <3>1
    <3>3. QED
      BY <2>3, <3>2 DEF F, G, TimesOf
  <2>4. QED
    BY <2>2, <2>3
<1> DEFINE E == OpenTo(d, f, k)
<1> DEFINE S == {i \in Drawing(E) : Passes(x, i)}
<1> DEFINE U == UsesOf(d, f, k)
<1> DEFINE T == {k + 1} \X S
<1>3. E \subseteq DOMAIN rules /\ S \subseteq DOMAIN rules /\ Drawing(E) \subseteq E
  BY EligibleIs DEF OpenTo, Drawing
<1>4. ASSUME NEW l \in 0 .. k PROVE OpenTo(d, f, l) = OpenTo(d, g, l)
  <2>1. l \in Nat /\ \A j \in 1 .. l : f[j] = g[j]
    BY <1>1
  <2>2. QED
    BY <2>1, SamePast
<1>5. U = UsesOf(d, g, k)
  BY <1>1, SameDraws
<1>6. UsesOf(d, g, k + 1) = U \cup T
  <2>1. ASSUME NEW y \in UsesOf(d, g, k + 1) PROVE y \in U \cup T
    <3>1. /\ y \in (1 .. (k + 1)) \X DOMAIN rules
          /\ y[2] \in Drawing(OpenTo(d, g, y[1] - 1)) /\ Passes(g[y[1]], y[2])
      BY <2>1 DEF UsesOf
    <3>2. CASE y[1] = k + 1
      <4>1. y[1] - 1 = k /\ k \in 0 .. k
        BY <1>1, <3>2
      <4>2. y[2] \in S
        BY <1>1, <1>4, <3>1, <3>2, <4>1
      <4> HIDE DEF S
      <4>3. QED
        BY <3>1, <3>2, <4>2
    <3>3. CASE y[1] # k + 1
      <4>1. y \in (1 .. k) \X DOMAIN rules
        BY <1>1, <3>1, <3>3
      <4>2. y \in UsesOf(d, g, k)
        BY <3>1, <4>1 DEF UsesOf
      <4>3. QED
        BY <1>5, <4>2
    <3>4. QED
      BY <3>2, <3>3
  <2>2. ASSUME NEW y \in U PROVE y \in UsesOf(d, g, k + 1)
    <3>1. y \in UsesOf(d, g, k)
      BY <1>5
    <3>2. y \in (1 .. (k + 1)) \X DOMAIN rules
      BY <1>1, <3>1 DEF UsesOf
    <3>3. QED
      BY <3>1, <3>2 DEF UsesOf
  <2>3. ASSUME NEW y \in T PROVE y \in UsesOf(d, g, k + 1)
    <3>1. y[1] = k + 1 /\ y[2] \in S /\ y \in (1 .. (k + 1)) \X DOMAIN rules
      <4> HIDE DEF S
      <4>1. QED
        BY <1>1, <1>3
    <3>2. OpenTo(d, g, y[1] - 1) = E
      BY <1>1, <1>4, <3>1
    <3>3. QED
      BY <1>1, <3>1, <3>2 DEF UsesOf
  <2>4. QED
    <3> HIDE DEF U, T
    <3>1. QED
      BY <2>1, <2>2, <2>3
<1>7. U \cap T = {} /\ U \subseteq (1 .. k) \X DOMAIN rules
  <2>1. U \subseteq (1 .. k) \X DOMAIN rules
    BY DEF UsesOf
  <2> HIDE DEF U, S
  <2>2. QED
    BY <1>1, <2>1
<1>8. IsFiniteSet(U) /\ IsFiniteSet(S)
  <2>1. IsFiniteSet(1 .. k) /\ IsFiniteSet(DOMAIN rules)
    BY <1>1, FS_Interval, RulesAre
  <2>2. IsFiniteSet((1 .. k) \X DOMAIN rules)
    BY <2>1, FS_Product
  <2> HIDE DEF U, S
  <2>3. QED
    BY <1>3, <1>7, <2>1, <2>2, FS_Subset
<1>9. IsFiniteSet(T) /\ Cardinality(T) = Cardinality(S)
  <2>1. IsFiniteSet({k + 1}) /\ Cardinality({k + 1}) = 1
    BY FS_Singleton
  <2>2. Cardinality(S) \in Nat
    BY <1>8, FS_CardinalityType
  <2> HIDE DEF S
  <2>3. IsFiniteSet(T) /\ Cardinality(T) = Cardinality({k + 1}) * Cardinality(S)
    BY <1>8, <2>1, FS_Product
  <2>4. QED
    BY <2>1, <2>2, <2>3
<1>10. Cardinality(U \cup T) = Cardinality(U) + Cardinality(S)
  <2> HIDE DEF U, T, S
  <2>1. /\ Cardinality(U) \in Nat /\ Cardinality(S) \in Nat
        /\ Cardinality({}) = 0
    BY <1>8, FS_CardinalityType, FS_EmptySet
  <2>2. Cardinality(U \cup T) = Cardinality(U) + Cardinality(T) - Cardinality(U \cap T)
    BY <1>8, <1>9, FS_Union
  <2>3. Cardinality(U \cap T) = 0
    BY <1>7, <2>1
  <2>4. QED
    BY <1>9, <2>1, <2>2, <2>3
<1>11. DrawsOf(d, g, k + 1) = DrawsOf(d, f, k) + Cardinality(S)
  BY <1>6, <1>10 DEF DrawsOf
<1>12. QED
  BY <1>2, <1>11 DEF k, g

LEMMA FollowsOn ==
  ASSUME rules \in Files, NEW d, NEW f \in Seq(Nat), NEW x \in Nat, Follows(d, f),
         x = ChosenAfter(OpenTo(d, f, Len(f)), DrawsOf(d, f, Len(f)))
  PROVE  Follows(d, Append(f, x))
<1> DEFINE k == Len(f)
<1> DEFINE g == Append(f, x)
<1>1. k \in Nat /\ Len(g) = k + 1 /\ g[k + 1] = x /\ \A j \in 1 .. k : f[j] = g[j]
  BY AppendProperties, LenProperties
<1>2. x = ChosenAfter(OpenTo(d, f, k), DrawsOf(d, f, k))
  OBVIOUS
<1>3. \A j \in 1 .. k : f[j] = ChosenAfter(OpenTo(d, f, j - 1), DrawsOf(d, f, j - 1))
  BY DEF Follows
<1> HIDE DEF k, g
<1>4. ASSUME NEW l \in 0 .. k PROVE OpenTo(d, f, l) = OpenTo(d, g, l)
  <2>1. l \in Nat /\ \A j \in 1 .. l : f[j] = g[j]
    BY <1>1
  <2>2. QED
    BY <2>1, SamePast
<1>5. ASSUME NEW l \in 0 .. k PROVE DrawsOf(d, f, l) = DrawsOf(d, g, l)
  <2>1. l \in Nat /\ \A j \in 1 .. l : f[j] = g[j]
    BY <1>1
  <2>2. QED
    BY <2>1, SameDraws DEF DrawsOf
<1>6. ASSUME NEW j \in 1 .. (k + 1)
      PROVE  g[j] = ChosenAfter(OpenTo(d, g, j - 1), DrawsOf(d, g, j - 1))
  <2> DEFINE l == j - 1
  <2>1. l \in 0 .. k /\ (j \in 1 .. k \/ j = k + 1)
    BY <1>1
  <2>2. OpenTo(d, f, l) = OpenTo(d, g, l) /\ DrawsOf(d, f, l) = DrawsOf(d, g, l)
    BY <1>4, <1>5, <2>1
  <2>3. CASE j \in 1 .. k
    BY <1>1, <1>3, <2>2, <2>3
  <2>4. CASE j = k + 1
    <3>1. l = k
      BY <1>1, <2>4
    <3>2. QED
      BY <1>1, <1>2, <2>2, <2>4, <3>1
  <2>5. QED
    BY <2>1, <2>3, <2>4
<1>7. QED
  BY <1>1, <1>6 DEF Follows, g

-----------------------------------------------------------------------------
(* The specification of the seeded runs.                                   *)

\* The decision for the next frame of a direction, and what is decided.
Facing(d) == Eligible(rules, fired, d, traffic[d][Len(faults[d]) + 1])
Verdict(d) == ChosenAfter(Facing(d), drawn)

LEMMA DecideIs ==
  ASSUME SeedTypeInv, NEW d \in Dirs, Decide(d)
  PROVE  /\ Len(faults[d]) < Len(traffic[d]) /\ Verdict(d) \in Nat
         /\ fired' = Counted(fired, Verdict(d))
         /\ drawn' = drawn + Cardinality({i \in Drawing(Facing(d)) : Passes(Verdict(d), i)})
         /\ faults' = [faults EXCEPT ![d] = Append(faults[d], Verdict(d))]
         /\ UNCHANGED <<rules, draws, traffic, before>>
<1>1. Chosen(Facing(d)) = Verdict(d)
  BY ChosenIs DEF Verdict
<1>2. Verdict(d) \in Nat
  <2>1. Facing(d) \subseteq DOMAIN rules /\ rules \in Files
    BY EligibleIs DEF Facing, SeedTypeInv
  <2>2. QED
    BY <2>1, ChoiceIs DEF Verdict
<1>3. QED
  BY <1>1, <1>2 DEF Decide, Facing, Passes, fixed

LEMMA SeedTypeStep == SeedTypeInv /\ [SeedNext]_seedVars => SeedTypeInv'
<1> SUFFICES ASSUME SeedTypeInv, [SeedNext]_seedVars PROVE SeedTypeInv'
  OBVIOUS
<1>1. rules \in Files /\ Len(rules) \in Nat /\ IsFiniteSet(DOMAIN rules)
  BY RulesAre DEF SeedTypeInv
<1>2. \A d \in Dirs : Len(traffic[d]) \in Nat
  BY SeededRunsAssumption, LenProperties DEF SeedTypeInv
<1>3. CASE Again
  <2>1. \A d \in Dirs : faults'[d] = <<>>
    BY <1>3 DEF Again, NoFaults
  <2>2. faults' \in [Dirs -> Seq(Nat)]
    BY <1>3 DEF Again, NoFaults
  <2>3. \A d \in Dirs : Len(faults'[d]) <= Len(traffic'[d])
    BY <1>2, <1>3, <2>1 DEF Again, fixed
  <2>4. fired' \in [DOMAIN rules -> Nat] /\ drawn' \in Nat
    BY <1>3 DEF Again
  <2>5. QED
    BY <1>3, <2>2, <2>3, <2>4 DEF SeedTypeInv, Again, fixed
<1>4. ASSUME NEW d \in Dirs, Decide(d) PROVE SeedTypeInv'
  <2> DEFINE v == Verdict(d)
  <2> DEFINE S == {i \in Drawing(Facing(d)) : Passes(v, i)}
  <2>1. /\ Len(faults[d]) < Len(traffic[d]) /\ v \in Nat
        /\ fired' = Counted(fired, v) /\ drawn' = drawn + Cardinality(S)
        /\ faults' = [faults EXCEPT ![d] = Append(faults[d], v)]
        /\ UNCHANGED <<rules, draws, traffic, before>>
    BY <1>4, DecideIs
  <2>2. S \subseteq DOMAIN rules
    BY EligibleIs DEF Facing, Drawing
  <2> HIDE DEF S, v
  <2>3. Cardinality(S) \in Nat
    BY <1>1, <2>2, FS_Subset, FS_CardinalityType
  <2>4. fired' \in [DOMAIN rules -> Nat]
    BY <2>1 DEF SeedTypeInv, Counted
  <2>5. Append(faults[d], v) \in Seq(Nat) /\ Len(Append(faults[d], v)) = Len(faults[d]) + 1
    BY <2>1, AppendProperties DEF SeedTypeInv
  <2>6. faults' \in [Dirs -> Seq(Nat)]
    BY <2>1, <2>5 DEF SeedTypeInv
  <2>7. \A e \in Dirs : Len(faults'[e]) <= Len(traffic'[e])
    <3> SUFFICES ASSUME NEW e \in Dirs PROVE Len(faults'[e]) <= Len(traffic'[e])
      OBVIOUS
    <3>1. CASE e = d
      <4>1. Len(faults[d]) \in Nat
        BY LenProperties DEF SeedTypeInv
      <4>2. faults'[e] = Append(faults[d], v)
        BY <2>1, <3>1 DEF SeedTypeInv
      <4>3. QED
        BY <1>2, <2>1, <2>5, <3>1, <4>1, <4>2
    <3>2. CASE e # d
      <4>1. faults'[e] = faults[e]
        BY <2>1, <3>2 DEF SeedTypeInv
      <4>2. QED
        BY <2>1, <4>1 DEF SeedTypeInv
    <3>3. QED
      BY <3>1, <3>2
  <2>8. drawn' \in Nat
    BY <2>1, <2>3 DEF SeedTypeInv
  <2>9. QED
    BY <2>1, <2>4, <2>6, <2>7, <2>8 DEF SeedTypeInv
<1>5. CASE UNCHANGED seedVars
  BY <1>5 DEF SeedTypeInv, seedVars, fixed
<1>6. QED
  BY <1>3, <1>4, <1>5 DEF SeedNext

\* What the invariant says of a direction does not depend on the state otherwise.
LEMMA StillFollows ==
  ASSUME UNCHANGED <<rules, draws, traffic>>, NEW d
  PROVE  /\ Follows(d, faults[d])' <=> Follows(d, faults'[d])
         /\ Follows(d, before[d])' <=> Follows(d, before'[d])
         /\ DrawsOf(d, faults[d], Len(faults[d]))' = DrawsOf(d, faults'[d], Len(faults'[d]))
BY DEF Follows, ChosenAfter, HitsAfter, DrawsOf, UsesOf, OpenTo, TimesOf, Eligible, Drawing

LEMMA NoneYet ==
  ASSUME NEW d, NEW f, f = <<>>
  PROVE  /\ Follows(d, f) /\ DrawsOf(d, f, Len(f)) = 0
         /\ \A i : TimesOf(f, i, Len(f)) = 0
<1>1. Len(f) = 0
  OBVIOUS
<1>2. 1 .. Len(f) = {}
  BY <1>1
<1>3. UsesOf(d, f, Len(f)) = {} /\ \A i : {j \in 1 .. Len(f) : f[j] = i} = {}
  BY <1>2 DEF UsesOf
<1>4. QED
  BY <1>2, <1>3, FS_EmptySet DEF Follows, DrawsOf, TimesOf

LEMMA SeedStart == SeedInit => SeedTypeInv /\ SeedInv
<1> SUFFICES ASSUME SeedInit PROVE SeedTypeInv /\ SeedInv
  OBVIOUS
<1>1. /\ rules \in Files /\ traffic \in Traffic /\ drawn = 0 /\ before = <<>>
      /\ fired = [i \in DOMAIN rules |-> 0] /\ \A d \in Dirs : faults[d] = <<>>
      /\ faults \in [Dirs -> Seq(Nat)]
  BY DEF SeedInit, NoFaults
<1>2. \A d \in Dirs : Len(traffic[d]) \in Nat
  BY <1>1, SeededRunsAssumption, LenProperties
<1>3. SeedTypeInv
  BY <1>1, <1>2 DEF SeedTypeInv
<1>4. \A d \in Dirs : Follows(d, faults[d]) /\ DrawsOf(d, faults[d], Len(faults[d])) = 0
        /\ \A i : TimesOf(faults[d], i, Len(faults[d])) = 0
  BY <1>1, NoneYet
<1>5. QED
  BY <1>1, <1>3, <1>4 DEF SeedInv

LEMMA AgainStep == SeedTypeInv /\ SeedInv /\ Again => SeedInv'
<1> SUFFICES ASSUME SeedTypeInv, SeedInv, Again PROVE SeedInv'
  OBVIOUS
<1>1. /\ UNCHANGED <<rules, draws, traffic>> /\ drawn' = 0 /\ before' = faults
      /\ fired' = [i \in DOMAIN rules |-> 0] /\ \A d \in Dirs : faults'[d] = <<>>
      /\ \A d \in Dirs : Len(faults[d]) = Len(traffic[d])
  BY DEF Again, NoFaults, fixed
<1>2. ASSUME NEW d \in Dirs
      PROVE  /\ Follows(d, faults[d])' /\ DrawsOf(d, faults[d], Len(faults[d]))' = 0
             /\ \A i : TimesOf(faults'[d], i, Len(faults'[d])) = 0
  <2>1. /\ Follows(d, faults'[d]) /\ DrawsOf(d, faults'[d], Len(faults'[d])) = 0
        /\ \A i : TimesOf(faults'[d], i, Len(faults'[d])) = 0
    BY <1>1, NoneYet
  <2>2. QED
    BY <1>1, <2>1, StillFollows
<1>3. ASSUME NEW d \in Dirs, NEW i \in DOMAIN rules'
      PROVE  fired'[i] = TimesOf(faults'[d], i, Len(faults'[d]))
  BY <1>1, <1>2
<1>4. ASSUME NEW d \in Dirs
      PROVE  before'[d] \in Seq(Nat) /\ Len(before'[d]) = Len(traffic'[d]) /\ Follows(d, before[d])'
  <2>1. Follows(d, faults[d]) /\ before'[d] = faults[d]
    BY <1>1 DEF SeedInv
  <2>2. Follows(d, before'[d])
    BY <2>1
  <2>3. QED
    BY <1>1, <2>1, <2>2, StillFollows DEF SeedTypeInv
<1>5. QED
  BY <1>1, <1>2, <1>3, <1>4 DEF SeedInv, TimesOf

LEMMA DecideStep ==
  ASSUME OneDirectionDraws, SeedTypeInv, SeedInv, NEW d \in Dirs, Decide(d)
  PROVE  SeedInv'
<1> DEFINE f == faults[d]
<1> DEFINE v == Verdict(d)
<1> DEFINE k == Len(f)
<1> DEFINE S == {i \in Drawing(Facing(d)) : Passes(v, i)}
<1>1. /\ v \in Nat /\ fired' = Counted(fired, v) /\ drawn' = drawn + Cardinality(S)
      /\ faults' = [faults EXCEPT ![d] = Append(f, v)]
      /\ UNCHANGED <<rules, draws, traffic, before>>
  BY DecideIs
<1>2. rules \in Files /\ f \in Seq(Nat) /\ k \in Nat
  BY LenProperties DEF SeedTypeInv
<1>3. Facing(d) = OpenTo(d, f, k)
  <2>1. \A i \in DOMAIN rules :
          rules[i].dir = d => fired[i] = [j \in DOMAIN rules |-> TimesOf(f, j, k)][i]
    BY DEF SeedInv
  <2>2. QED
    BY <2>1, EligibleSame DEF Facing, OpenTo
<1>4. \A e \in Dirs : faults'[e] = IF e = d THEN Append(f, v) ELSE faults[e]
  BY <1>1 DEF SeedTypeInv
<1>5. ASSUME NEW e \in Dirs, e # d, Alone(e)
      PROVE  (\A i \in Facing(d) : Certain(rules[i])) /\ Cardinality(S) = 0
  <2>1. \A i \in Facing(d) : Certain(rules[i])
    BY <1>5, EligibleIs DEF Facing, Alone
  <2>2. S = {}
    BY <2>1 DEF Drawing
  <2>3. QED
    BY <2>1, <2>2, FS_EmptySet
<1>6. v = ChosenAfter(OpenTo(d, f, k), DrawsOf(d, f, k))
  <2>1. PICK e \in Dirs : Alone(e)
    BY <1>2 DEF OneDirectionDraws, Alone
  <2>2. CASE e = d
    BY <1>3, <2>1, <2>2 DEF SeedInv, Verdict
  <2>3. CASE e # d
    BY <1>3, <1>5, <2>1, <2>3, CertainChoice DEF Verdict
  <2>4. QED
    BY <2>2, <2>3
<1> DEFINE g == Append(f, v)
<1>7. Follows(d, g)
  BY <1>1, <1>2, <1>6, FollowsOn DEF SeedInv
<1>8. /\ Len(g) = k + 1
      /\ \A i : TimesOf(g, i, Len(g)) = TimesOf(f, i, k) + (IF i = v THEN 1 ELSE 0)
      /\ DrawsOf(d, g, Len(g)) = DrawsOf(d, f, k) + Cardinality(S)
  <2>1. Len(g) = k + 1
    BY <1>1, <1>2, AppendProperties
  <2>2. /\ \A i : TimesOf(g, i, k + 1) = TimesOf(f, i, k) + (IF i = v THEN 1 ELSE 0)
        /\ DrawsOf(d, g, k + 1) =
             DrawsOf(d, f, k) + Cardinality({i \in Drawing(OpenTo(d, f, k)) : Passes(v, i)})
    <3> HIDE DEF v, f
    <3>1. QED
      BY <1>1, <1>2, OneMore
  <2>3. QED
    BY <1>3, <2>1, <2>2
<1>9. v = NoHit \/ v \in Facing(d)
  <2>1. Facing(d) \subseteq DOMAIN rules
    BY EligibleIs DEF Facing
  <2>2. QED
    BY <1>2, <2>1, ChoiceIs DEF Verdict
<1>10. \A i \in Facing(d) : rules[i].dir = d
  BY EligibleIs DEF Facing
<1> HIDE DEF v, f, S, g, k
<1>11. ASSUME NEW e \in Dirs PROVE Follows(e, faults[e])'
  <2>1. Follows(e, faults'[e])
    BY <1>4, <1>7 DEF SeedInv, g, f
  <2>2. QED
    BY <1>1, <2>1, StillFollows
<1>12. ASSUME NEW e \in Dirs, NEW i \in DOMAIN rules, rules[i].dir = e
       PROVE  fired'[i] = TimesOf(faults'[e], i, Len(faults'[e]))
  <2>1. fired[i] = TimesOf(faults[e], i, Len(faults[e])) /\ fired[i] \in Nat
    BY <1>12 DEF SeedInv, SeedTypeInv
  <2>2. fired'[i] = IF i = v THEN fired[i] + 1 ELSE fired[i]
    BY <1>1, <1>12 DEF Counted, SeedTypeInv
  <2>3. CASE e = d
    <3>1. faults'[e] = g /\ fired[i] = TimesOf(f, i, k)
      BY <1>4, <2>1, <2>3 DEF f, g, k
    <3>2. TimesOf(g, i, Len(g)) = TimesOf(f, i, k) + (IF i = v THEN 1 ELSE 0)
      BY <1>8
    <3>3. QED
      BY <2>1, <2>2, <3>1, <3>2
  <2>4. CASE e # d
    <3>1. i # v
      <4>1. i # NoHit
        BY <1>2, <1>12, RulesAre DEF NoHit
      <4>2. QED
        BY <1>9, <1>10, <1>12, <2>4, <4>1
    <3>2. QED
      BY <1>4, <2>1, <2>2, <2>4, <3>1
  <2>5. QED
    BY <2>3, <2>4
<1>13. ASSUME NEW e \in Dirs, Alone(e)
       PROVE  drawn' = DrawsOf(e, faults[e], Len(faults[e]))'
  <2>1. drawn = DrawsOf(e, faults[e], Len(faults[e])) /\ drawn \in Nat
    BY <1>13 DEF SeedInv, SeedTypeInv
  <2>2. drawn' = DrawsOf(e, faults'[e], Len(faults'[e]))
    <3>1. CASE e = d
      BY <1>1, <1>4, <1>8, <2>1, <3>1 DEF f, g, k
    <3>2. CASE e # d
      BY <1>1, <1>4, <1>5, <1>13, <2>1, <3>2
    <3>3. QED
      BY <3>1, <3>2
  <2>3. QED
    BY <1>1, <2>2, StillFollows
<1>14. before # <<>> => \A e \in Dirs :
         before'[e] \in Seq(Nat) /\ Len(before'[e]) = Len(traffic'[e]) /\ Follows(e, before[e])'
  BY <1>1, StillFollows DEF SeedInv
<1>15. \A e \in Dirs : Alone(e)' => Alone(e)
  BY <1>1 DEF Alone
<1>16. QED
  BY <1>1, <1>11, <1>12, <1>13, <1>14, <1>15 DEF SeedInv, TimesOf

LEMMA SeedStep ==
  ASSUME OneDirectionDraws
  PROVE  SeedTypeInv /\ SeedInv /\ [SeedNext]_seedVars => SeedTypeInv' /\ SeedInv'
<1> SUFFICES ASSUME SeedTypeInv, SeedInv, [SeedNext]_seedVars PROVE SeedTypeInv' /\ SeedInv'
  OBVIOUS
<1>1. SeedTypeInv'
  BY SeedTypeStep
<1>2. CASE UNCHANGED seedVars
  <2>1. /\ UNCHANGED <<rules, draws, traffic>> /\ faults' = faults /\ before' = before
        /\ fired' = fired /\ drawn' = drawn
    BY <1>2 DEF seedVars, fixed
  <2>2. \A d \in Dirs : /\ Follows(d, faults[d])' <=> Follows(d, faults[d])
                        /\ Follows(d, before[d])' <=> Follows(d, before[d])
                        /\ DrawsOf(d, faults[d], Len(faults[d]))' = DrawsOf(d, faults[d], Len(faults[d]))
                        /\ Alone(d)' <=> Alone(d)
    BY <2>1, StillFollows DEF Alone
  <2>3. QED
    BY <1>1, <2>1, <2>2 DEF SeedInv, TimesOf
<1>3. QED
  BY <1>1, <1>2, AgainStep, DecideStep DEF SeedNext

LEMMA SameCourse == SeedTypeInv /\ SeedInv => SameFaults
<1> SUFFICES ASSUME SeedTypeInv, SeedInv, before # <<>>, NEW d \in Dirs,
                    NEW i \in DOMAIN faults[d]
             PROVE  faults[d][i] = before[d][i]
  BY DEF SameFaults
<1> DEFINE f == faults[d]
<1> DEFINE g == before[d]
<1>1. /\ f \in Seq(Nat) /\ g \in Seq(Nat) /\ Follows(d, f) /\ Follows(d, g)
      /\ Len(f) <= Len(g)
  BY DEF SeedInv, SeedTypeInv
<1>2. i \in 1 .. Len(f)
  BY <1>1, LenProperties
<1> HIDE DEF f, g
<1>3. f[i] = g[i]
  BY <1>1, <1>2, OneCourse
<1>4. QED
  BY <1>3 DEF f, g

\* A decision is one of those Injector has for the rules without their probabilities.
LEMMA DecisionAllowed ==
  ASSUME SeedTypeInv, NEW d \in Dirs, Decide(d)
  PROVE  /\ Verdict(d) \in Decisions(Abstracted, fired, d, traffic[d][Len(faults[d]) + 1])
         /\ fired' = Counted(fired, Verdict(d))
<1> DEFINE m == traffic[d][Len(faults[d]) + 1]
<1> DEFINE c == Verdict(d)
<1> DEFINE E == Facing(d)
<1>1. E \subseteq DOMAIN rules /\ rules \in Files
  BY EligibleIs DEF Facing, SeedTypeInv
<1>2. /\ c \in Nat /\ (c = NoHit \/ c \in E)
      /\ c = NoHit => \A i \in E : ~Certain(rules[i])
      /\ c # NoHit => \A i \in E : i < c => ~Certain(rules[i])
  BY <1>1, ChoiceIs DEF Verdict
<1>3. Eligible(Abstracted, fired, d, m) = E
  <2>1. DOMAIN Abstracted = DOMAIN rules
    BY DEF Abstracted
  <2>2. \A i \in DOMAIN rules : /\ Abstracted[i].dir = rules[i].dir
                                /\ Abstracted[i].methods = rules[i].methods
                                /\ Abstracted[i].max = rules[i].max
    BY DEF Abstracted
  <2>3. QED
    BY <2>1, <2>2 DEF Eligible, Exhausted, Facing
<1>4. \A i \in E : Abstracted[i].certain = Certain(rules[i])
  BY <1>1 DEF Abstracted
<1> HIDE DEF c, E, m
<1>5. c \in Decisions(Abstracted, fired, d, m)
  <2>1. CASE c = NoHit
    <3>1. \A j \in E : ~Abstracted[j].certain
      BY <1>2, <1>4, <2>1
    <3>2. QED
      BY <1>3, <2>1, <3>1 DEF Decisions
  <2>2. CASE c # NoHit
    <3>1. c \in E /\ \A j \in {i \in E : i < c} : ~Abstracted[j].certain
      BY <1>2, <1>4, <2>2
    <3>2. QED
      BY <1>3, <3>1 DEF Decisions
  <2>3. QED
    BY <2>1, <2>2
<1>6. QED
  BY <1>5, DecideIs DEF c, m

LEMMA DecisionsStep == SeedTypeInv /\ [SeedNext]_seedVars =>
  [\A d \in Dirs : Len(faults'[d]) = Len(faults[d]) + 1 =>
     LET n == Len(faults'[d])
     IN  /\ faults'[d][n] \in Decisions(Abstracted, fired, d, traffic[d][n])
         /\ fired' = Counted(fired, faults'[d][n])]_seedVars
<1> SUFFICES ASSUME SeedTypeInv, SeedNext, NEW d \in Dirs,
                    Len(faults'[d]) = Len(faults[d]) + 1
             PROVE  LET n == Len(faults'[d])
                    IN  /\ faults'[d][n] \in Decisions(Abstracted, fired, d, traffic[d][n])
                        /\ fired' = Counted(fired, faults'[d][n])
  OBVIOUS
<1>1. faults[d] \in Seq(Nat) /\ Len(faults[d]) \in Nat
  BY LenProperties DEF SeedTypeInv
<1>2. ~Again
  <2>1. Again => faults'[d] = <<>>
    BY DEF Again, NoFaults
  <2>2. Len(<<>>) = 0
    OBVIOUS
  <2>3. QED
    BY <1>1, <2>1, <2>2
<1>3. PICK e \in Dirs : Decide(e)
  BY <1>2 DEF SeedNext
<1>4. e = d
  <2>1. e # d => faults'[d] = faults[d]
    BY <1>3, DecideIs DEF SeedTypeInv
  <2>2. QED
    BY <1>1, <2>1
<1> DEFINE v == Verdict(d)
<1>5. v \in Nat /\ faults'[d] = Append(faults[d], v)
  BY <1>3, <1>4, DecideIs DEF SeedTypeInv
<1>6. v \in Decisions(Abstracted, fired, d, traffic[d][Len(faults[d]) + 1])
      /\ fired' = Counted(fired, v)
  BY <1>3, <1>4, DecisionAllowed
<1> HIDE DEF v
<1>7. faults'[d][Len(faults'[d])] = v /\ Len(faults'[d]) = Len(faults[d]) + 1
  BY <1>1, <1>5, AppendProperties
<1>8. QED
  BY <1>6, <1>7

\* One seed, one run: if the rules that draw are of one direction, the same frames meet
\* the same faults in whatever order the pumps come to the lock; and whatever is drawn,
\* a decision is one that Injector has (Injector::decide, Injector::new).
THEOREM SeedsAlwaysReproduce == ASSUME OneDirectionDraws PROVE SeedSpec => SeedsReproduce
<1> DEFINE Allowed == \A d \in Dirs : Len(faults'[d]) = Len(faults[d]) + 1 =>
      LET n == Len(faults'[d])
      IN  /\ faults'[d][n] \in Decisions(Abstracted, fired, d, traffic[d][n])
          /\ fired' = Counted(fired, faults'[d][n])
<1>1. SeedInit => SeedTypeInv /\ SeedInv
  BY SeedStart
<1>2. SeedTypeInv /\ SeedInv /\ [SeedNext]_seedVars => (SeedTypeInv /\ SeedInv)'
  BY SeedStep
<1>3. SeedTypeInv /\ SeedInv => SameFaults
  BY SameCourse
<1>4. SeedTypeInv /\ [SeedNext]_seedVars => [Allowed]_seedVars
  BY DecisionsStep
<1> HIDE DEF Allowed
<1>5. SeedSpec => [][SameFaults']_seedVars /\ [][Allowed]_seedVars
  BY <1>1, <1>2, <1>3, <1>4, PTL DEF SeedSpec
<1>6. QED
  BY <1>5 DEF SeedsReproduce, DecisionsAreAllowed, Allowed
=============================================================================
