------------------------------- MODULE Gateway -------------------------------
(***************************************************************************)
(* `mcpglass gateway` (crates/cli/src/gateway.rs): the handlers that carry *)
(* HTTP requests to one upstream and its responses back, with the limits,  *)
(* the policy gate, the injected faults and the taps, and the storage loop *)
(* of that upstream.  All its clients share the channel, the session, the  *)
(* hint latch and the injector.                                            *)
(*                                                                         *)
(* A step ends where the code awaits: there other handlers run, and there  *)
(* a handler is dropped when its client hangs up.  What a handler enqueues *)
(* between two awaits it enqueues message by message (out), for the        *)
(* storage thread drains meanwhile.  Requests with a foreign Origin or     *)
(* Host, or for an unknown upstream, are turned away before any of this.   *)
(***************************************************************************)
EXTENDS StorageLoop, PolicyGate, Injector, Functions

CONSTANTS
  Clients,    \* each numbers its requests itself, from 1
  Handlers,   \* the requests that can be in flight
  Setups,     \* what the gateway may be started with, and what its clients then send
  MaxFrames   \* bound: frames that are given a time stamp

\* A setup is [policy, rules, record, posts, opens].  opens: there are GETs and DELETEs.
\* What is POSTed is [method, tool, secrets, size, asks].  size: it "fits" the frame cap,
\* is "over" it, or over MAX_BUFFER_BYTES ("huge"); asks: it is a request with an id.
ASSUME GatewayAssumption ==
  /\ MaxFrames \in Nat
  /\ \A s \in Setups :
       /\ s.policy.mode \in {"monitor", "enforce"} /\ s.record \in BOOLEAN
       /\ \A i \in DOMAIN s.policy.deny : Unnamed \notin s.policy.deny[i]
       /\ s.rules \in Seq([dir : {"c2s", "s2c"}, methods : SUBSET Methods, certain : BOOLEAN,
                           max : SUBSET Nat, fault : Fault])
       /\ \A b \in s.posts : /\ b.size \in {"fits", "over", "huge"} /\ b.secrets \in Nat
                             /\ b.method \in {"tools/list", "initialize"} => b.asks

\* The clients of an upstream share its session and its trackers, which know a request
\* by its id alone: two clients that number their requests alike are taken for one.
OneClient == \A c, d \in Clients : c = d

VARIABLES
  setup,      \* GatewayState: the policy, the rules and the record mode
  counts,     \* Injector::counts
  clock,      \* stamps the frames
  asked,      \* how many requests each client has numbered
  handler,    \* per handler: where it is
  hintSent,   \* Upstream::hint_sent
  dropLogged, \* Upstream::drop_logged
  events      \* the security and inject events the storage thread has inserted

gateVars == <<setup, counts, clock, asked, handler, hintSent, dropLogged, events>>
vars == <<loopVars, gateVars>>

Nothing == [method |-> "none", id |-> NoId, ts |-> 0]  \* a GET or DELETE posts none
Idle == [stage |-> "idle", req |-> Nothing, told |-> TRUE, out |-> <<>>,
         hit |-> NoHit, back |-> NoHit, resp |-> Nothing, replied |-> FALSE]

Init ==
  /\ LoopInit
  /\ setup \in Setups /\ counts = [i \in DOMAIN setup.rules |-> 0]
  /\ clock = 1 /\ asked = [c \in Clients |-> 0]
  /\ handler = [h \in Handlers |-> Idle]
  /\ hintSent = FALSE /\ dropLogged = FALSE
  /\ events = {}

At(h, stage) == handler[h].stage = stage /\ handler[h].out = <<>>
Becomes(h, r) == handler' = [handler EXCEPT ![h] = r]
LoopIdle == UNCHANGED <<drained, tools, inits, pinned, source, protocol>>
\* A step that moves h on and nothing else.
Moves(h, r) ==
  /\ Becomes(h, r)
  /\ UNCHANGED <<loopVars, setup, counts, clock, asked, hintSent, dropLogged, events>>

-----------------------------------------------------------------------------
(* What a handler enqueues.                                                *)

\* tap_frame: nothing under --record off.
Tap(f) == IF setup.record THEN <<f>> ELSE <<>>

RequestTap(r) == Tap(Frame("c2s", r.method, r.id, FALSE, "plain", r.ts, 0))

SecurityEvent(r, k) ==
  [kind |-> "sec", ts |-> r.ts, nth |-> k, rule |-> Raised(setup.policy, r)[k],
   blocked |-> Blocked(setup.policy, r)]

\* emit_events.
SecurityEvents(r) == [k \in DOMAIN Raised(setup.policy, r) |-> SecurityEvent(r, k)]

\* Mutated form: a request that cannot be sent is not recorded.
Untold_UnlessSent(h) ==
  IF handler[h].told \/ handler[h].stage = "sending" THEN <<>>
  ELSE RequestTap(handler[h].req) \o SecurityEvents(handler[h].req)

\* The request and its events, until they have been enqueued.
Untold(h) ==
  IF handler[h].told THEN <<>>
  ELSE RequestTap(handler[h].req) \o SecurityEvents(handler[h].req)

\* emit_inject.
InjectEvent(dir, ts, i) == [kind |-> "inj", dir |-> dir, ts |-> ts, rule |-> i]
Injected(dir, ts, i) == IF i = NoHit THEN <<>> ELSE <<InjectEvent(dir, ts, i)>>

\* What is left to enqueue when the response is under way, or there is none.
Remaining(h) == Untold(h) \o Injected("c2s", handler[h].req.ts, handler[h].hit)

Enqueue(h) ==
  /\ handler[h].out # <<>>
  /\ Send(Head(handler[h].out))
  /\ dropLogged' = (dropLogged \/ Len(queue) >= ChannelCap)
  /\ Becomes(h, [handler[h] EXCEPT !.out = Tail(@)])
  /\ LoopIdle
  /\ UNCHANGED <<setup, counts, clock, asked, hintSent, events>>

-----------------------------------------------------------------------------
(* handle_post.                                                            *)

\* A client may send the version header once it has initialised; the latch is read.
Post(h, c, b) ==
  /\ At(h, "idle") /\ clock <= MaxFrames
  /\ \E header \in {FALSE, b.method # "initialize"} :
     LET n == asked[c] + 1 IN
       /\ b.asks => n \in Ids
       /\ asked' = IF b.asks THEN [asked EXCEPT ![c] = n] ELSE asked
       /\ Becomes(h, [Idle EXCEPT
            !.stage = IF header /\ ~hintSent THEN "hinting" ELSE "reading",
            !.req = [method |-> b.method, tool |-> b.tool, secrets |-> b.secrets,
                     size |-> b.size, id |-> IF b.asks THEN n ELSE NoId, ts |-> clock]])
  /\ clock' = clock + 1
  /\ UNCHANGED <<loopVars, setup, counts, hintSent, dropLogged, events>>

\* hint_protocol_version: the latch is set if the channel took the hint.
OfferHint(h) ==
  /\ At(h, "hinting")
  /\ Send(Hint(handler[h].req.ts))
  /\ hintSent' = (hintSent \/ Len(queue) < ChannelCap)
  /\ Becomes(h, [handler[h] EXCEPT !.stage = "reading"])
  /\ LoopIdle
  /\ UNCHANGED <<setup, counts, clock, asked, dropLogged, events>>

\* read_limit: enforce refuses what it cannot inspect.
TooLarge(r) == r.size = "huge" \/ (r.size = "over" /\ setup.policy.mode = "enforce")

\* 413: nothing is recorded.
RejectLarge(h) == At(h, "reading") /\ TooLarge(handler[h].req) /\ Moves(h, Idle)

\* An oversized body that monitor mode forwards undecided and untapped.
PassUninspected(h) ==
  /\ At(h, "reading") /\ handler[h].req.size = "over" /\ ~TooLarge(handler[h].req)
  /\ Moves(h, [handler[h] EXCEPT !.stage = "sending"])

\* BlockWithResponse or BlockSilent: answered here, with the request on record.
Refuse(h) ==
  LET r == handler[h].req IN
  /\ At(h, "reading") /\ r.size = "fits" /\ FrameAction(setup.policy, r) # "forward"
  /\ Moves(h, [handler[h] EXCEPT !.stage = "end", !.told = TRUE,
                 !.out = RequestTap(r) \o SecurityEvents(r)])

\* Forward: the injector is asked, and a hit is handled by inject_c2s_gateway, which
\* records the request first.
Admit(h) ==
  LET r == handler[h].req IN
  /\ At(h, "reading") /\ r.size = "fits" /\ FrameAction(setup.policy, r) = "forward"
  /\ \E i \in Decisions(setup.rules, counts, "c2s", r.method) :
       LET fault == IF i = NoHit THEN "none" ELSE setup.rules[i].fault
           tell == RequestTap(r) \o SecurityEvents(r)
           answered == fault \in {"drop", "error"}
           next == CASE fault = "delay" -> "sleeping"
                     [] answered -> "end"
                     [] OTHER -> "sending"
       IN /\ counts' = Counted(counts, i)
          /\ Becomes(h, [handler[h] EXCEPT
               !.stage = next, !.hit = i, !.told = i # NoHit,
               !.out = (IF i = NoHit THEN <<>> ELSE tell)
                         \o (IF answered THEN Injected("c2s", r.ts, i) ELSE <<>>)])
  /\ UNCHANGED <<loopVars, setup, clock, asked, hintSent, dropLogged, events>>

\* A delayed request goes on its way.
Wake(h) == At(h, "sleeping") /\ Moves(h, [handler[h] EXCEPT !.stage = "sending"])

\* handle_get and handle_delete: passed through, with nothing to record.
Open(h) ==
  /\ setup.opens /\ At(h, "idle") /\ clock <= MaxFrames
  /\ Moves(h, [Idle EXCEPT !.stage = "sending"])

-----------------------------------------------------------------------------
(* send_upstream and relay_response.                                       *)

Reach(h) == At(h, "sending") /\ Moves(h, [handler[h] EXCEPT !.stage = "waiting"])

\* 502: the attempted request is recorded.
Unreachable(h) ==
  /\ At(h, "sending") \/ At(h, "waiting")
  /\ Moves(h, [handler[h] EXCEPT !.stage = "end", !.told = TRUE,
                 !.out = Remaining(h)])

\* Mutated form: the request is recorded with what is left to record at the end.
Answered_TellLast(h) == At(h, "waiting") /\ Moves(h, [handler[h] EXCEPT !.stage = "relaying"])

\* The response has begun: the request is recorded before any of it is relayed.
Answered(h) ==
  /\ At(h, "waiting")
  /\ Moves(h, [handler[h] EXCEPT !.stage = "relaying", !.told = TRUE,
                 !.out = Untold(h)])

\* Frames the upstream may send: what it answers, or a message of its own.  A body
\* that was cut short may be answered with an error about no request.
Reply(h, id, err, b) == Frame("s2c", "none", id, err, b, clock, handler[h].req.ts)
Replies(h) ==
  LET r == handler[h].req
      cut == handler[h].hit # NoHit /\ setup.rules[handler[h].hit].fault = "truncate"
      bodies == CASE r.id = NoId -> {"plain"}
                   [] r.id # NoId /\ r.method = "initialize" -> {"plain", "version"}
                   [] OTHER -> {"plain", "tools"}
  IN {Reply(h, r.id, FALSE, b) : b \in bodies} \cup {Reply(h, r.id, TRUE, "plain")}
       \cup (IF cut THEN {Reply(h, NoId, TRUE, "plain")} ELSE {})
Notice == Frame("s2c", "call", NoId, FALSE, "plain", clock, 0)

\* A body that is not a stream of events is read whole and tapped as one frame; then
\* the injector is asked.
RelayBuffered(h) ==
  /\ At(h, "relaying") /\ clock <= MaxFrames
  /\ \E f \in Replies(h), i \in Decisions(setup.rules, counts, "s2c", "none") :
       LET fault == IF i = NoHit THEN "none" ELSE setup.rules[i].fault IN
       /\ counts' = Counted(counts, i)
       /\ IF fault = "delay"
            THEN Becomes(h, [handler[h] EXCEPT !.stage = "delaying", !.back = i, !.resp = f,
                   !.out = Tap(f)])
            ELSE Becomes(h, [handler[h] EXCEPT !.stage = "end", !.back = i, !.resp = f,
                   !.out = Tap(f) \o Injected("s2c", f.ts, i) \o Remaining(h)])
  /\ clock' = clock + 1
  /\ UNCHANGED <<loopVars, setup, asked, hintSent, dropLogged, events>>

\* inject_s2c_gateway after its sleep.
Deliver(h) ==
  /\ At(h, "delaying")
  /\ LET f == handler[h].resp IN
       /\ Becomes(h, [handler[h] EXCEPT !.stage = "end",
            !.out = Injected("s2c", f.ts, handler[h].back) \o Remaining(h)])
  /\ UNCHANGED <<loopVars, setup, counts, clock, asked, hintSent, dropLogged, events>>

\* The body is over MAX_BUFFER_BYTES and passed on untapped, or cannot be read (502).
RelayUntapped(h) ==
  At(h, "relaying") /\ Moves(h, [handler[h] EXCEPT !.stage = "end", !.out = Remaining(h)])

\* text/event-stream: the handler returns, and the stream runs on.
RelayStream(h) ==
  At(h, "relaying") /\ Moves(h, [handler[h] EXCEPT !.stage = "streaming", !.out = Remaining(h)])

\* A chunk completes an event: it is tapped before the chunk is handed on.  An event
\* the SseSplitter skips as too long is handed on all the same, and not shown here.
StreamEvent(h) ==
  /\ At(h, "streaming") /\ clock <= MaxFrames
  /\ \E f \in {Notice} \cup (IF handler[h].replied THEN {} ELSE Replies(h)) :
       Becomes(h, [handler[h] EXCEPT !.out = Tap(f), !.resp = f,
                     !.replied = @ \/ f.method = "none"])
  /\ clock' = clock + 1
  /\ UNCHANGED <<loopVars, setup, counts, asked, hintSent, dropLogged, events>>

StreamEnd(h) == At(h, "streaming") /\ Moves(h, [handler[h] EXCEPT !.stage = "end"])

\* The client hangs up: the handler is dropped where it awaits.
Awaiting == {"reading", "sleeping", "sending", "waiting", "relaying", "delaying", "streaming"}
HangUp(h) == (\E s \in Awaiting : At(h, s)) /\ Moves(h, Idle)

Finish(h) == At(h, "end") /\ Moves(h, Idle)

-----------------------------------------------------------------------------
(* The storage thread.                                                     *)

HandleEvent ==
  /\ queue # <<>> /\ Head(queue).kind \in {"sec", "inj"}
  /\ events' = events \cup {Head(queue)}
  /\ queue' = Tail(queue)
  /\ LoopIdle
  /\ UNCHANGED <<setup, counts, clock, asked, handler, hintSent, dropLogged>>

Drain == HandleEvent \/ ((HandleTap \/ HandleHint) /\ UNCHANGED gateVars)

Next ==
  \/ \E h \in Handlers :
       \/ \E c \in Clients, b \in setup.posts : Post(h, c, b)
       \/ Open(h) \/ OfferHint(h)
       \/ RejectLarge(h) \/ PassUninspected(h) \/ Refuse(h) \/ Admit(h) \/ Wake(h)
       \/ Reach(h) \/ Unreachable(h) \/ Answered(h)
       \/ RelayBuffered(h) \/ Deliver(h) \/ RelayUntapped(h)
       \/ RelayStream(h) \/ StreamEvent(h) \/ StreamEnd(h)
       \/ HangUp(h) \/ Enqueue(h) \/ Finish(h)
  \/ Drain

Spec == Init /\ [][Next]_vars

-----------------------------------------------------------------------------

Enqueued == Range(queue) \cup Range(drained) \cup events
Pending(h) == Range(handler[h].out)

\* Where a handler has sent its request and not yet been dropped or finished.
Sent(h) == handler[h].stage \in {"waiting", "relaying", "delaying", "streaming"}

\* Under enforce the upstream receives nothing the policy forbids and nothing that
\* could not be inspected, whatever the faults and however clients come and go.
NothingForbiddenReaches ==
  \A h \in Handlers : Sent(h) /\ handler[h].req # Nothing =>
    /\ ~Forbidden(setup.policy, handler[h].req)
    /\ setup.policy.mode = "enforce" => handler[h].req.size = "fits"

\* A rule fires at most max_triggers times, over all handlers and both directions.
TriggersBounded ==
  LET fired == {m \in Enqueued \cup UNION {Pending(h) : h \in Handlers} : m.kind = "inj"}
  IN \A i \in DOMAIN setup.rules : \A n \in setup.rules[i].max :
       Cardinality({m \in fired : m.rule = i}) <= n

\* What a POST that ran to its end leaves on record: the request if it was inspected,
\* all its security events, and each fault that was applied to it.
Owed(x) ==
  IF x.req = Nothing \/ x.req.size # "fits" THEN {}
  ELSE Range(RequestTap(x.req)) \cup Range(SecurityEvents(x.req))
         \cup Range(Injected("c2s", x.req.ts, x.hit))
         \cup Range(Injected("s2c", x.resp.ts, x.back))

\* Unless the channel was full, which the log says, every POST whose client stayed has
\* all of that enqueued when it ends, an unreachable upstream included; and a frame of
\* the upstream is on record as it was received, whatever the client is given.
ExchangesAccountedFor ==
  \/ dropLogged
  \/ \A h \in Handlers :
       /\ At(h, "end") => Owed(handler[h]) \subseteq Enqueued
       /\ handler[h].resp # Nothing =>
            Range(Tap(handler[h].resp)) \subseteq Enqueued \cup Pending(h)

\* A response is drained after its request, unless the channel dropped the request:
\* the order handle_post is written for.
RequestsDrainedFirst ==
  \A j, k \in DOMAIN drained : Asked(j, k) => j < k

\* The record of an exchange is whole and in order: both of its frames, its events
\* and its faults, the request before the response, or a drop the log tells of.
ExchangesRecorded == ExchangesAccountedFor /\ RequestsDrainedFirst

\* docs/security-model.md: events "are always recorded regardless".  A handler that has
\* sent an inspected call upstream does not leave with its events unsent.
FlaggedCallsRecorded ==
  [][\A h \in Handlers :
       Sent(h) /\ handler'[h] = Idle /\ handler[h].req # Nothing /\ ~dropLogged
         => (handler[h].req.size = "fits"
               => Range(SecurityEvents(handler[h].req)) \subseteq Enqueued)]_vars
=============================================================================
