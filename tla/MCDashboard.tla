----------------------------- MODULE MCDashboard -----------------------------
(* TLC instances of Replay and of Viewer, one world each: the replay button's *)
(* request and the browser share no state, so a behaviour has steps of one of *)
(* them only.                                                                 *)
EXTENDS Replay, Viewer

VARIABLE world \* the part that takes the steps

\* A request of each transport, one of a session without the column, and every
\* kind of message that is not replayable.
Request == [dir |-> "c2s", method |-> TRUE, id |-> 1, body |-> TRUE, argv |-> TRUE,
            url |-> FALSE, transport |-> "stdio"]
MCRows ==
  {Request, [Request EXCEPT !.transport = "http"], [Request EXCEPT !.transport = "old"],
   [Request EXCEPT !.transport = "old", !.url = TRUE], [Request EXCEPT !.argv = FALSE],
   [Request EXCEPT !.dir = "s2c"], [Request EXCEPT !.method = FALSE],
   [Request EXCEPT !.id = 0], [Request EXCEPT !.body = FALSE],
   [Request EXCEPT !.transport = "none"]}

\* A prompt browser whose user picks from the list, and one that is neither.
MCBrowsers == {[prompt |-> TRUE, links |-> FALSE], [prompt |-> FALSE, links |-> TRUE]}

vars == <<world, exchangeVars, viewerVars>>

\* The part that stands still does so in one of its initial states.
Idle(w) ==
  IF w = "replay"
  THEN browser = [prompt |-> TRUE, links |-> FALSE] /\ begun = 0 /\ hash = 0
  ELSE row = Request
MCInit == world \in {"replay", "viewer"} /\ ReplayInit /\ ViewerInit /\ Idle(world)

InReplay == world = "replay" /\ UNCHANGED <<world, viewerVars>>
InViewer == world = "viewer" /\ UNCHANGED <<world, exchangeVars>>

MCNext == (InReplay /\ ReplayNext) \/ (InViewer /\ ViewerNext)

\* The fairness of ReplaySpec and of ViewerSpec.
MCFairness ==
  /\ WF_exchangeVars(world = "replay" /\ ReplayStep)
  /\ WF_exchangeVars(world = "replay" /\ Timeout)
  /\ WF_viewerVars(world = "viewer" /\ Tick)
  /\ WF_viewerVars(world = "viewer" /\ HashChange)
  /\ SF_viewerVars(world = "viewer" /\ ServeCurrent("list"))
  /\ SF_viewerVars(world = "viewer" /\ ArriveCurrent("list"))

MCSpec == MCInit /\ [][MCNext]_vars /\ MCFairness

\* Every replay that is asked for ends, against a server that neither reads, nor
\* answers, nor exits (the timeout of replay_stdio and replay_http).
ReplayEnds == <>(world = "viewer" \/ Finished)
=============================================================================
