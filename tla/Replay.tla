-------------------------------- MODULE Replay --------------------------------
(***************************************************************************)
(* `mcpglass replay` and the dashboard's replay button                     *)
(* (crates/cli/src/replay.rs, replay_message in crates/dashboard): a       *)
(* recorded request is sent once more, to a server process started for the *)
(* purpose or, for a gateway session, to its upstream over HTTP.           *)
(*                                                                         *)
(* The server is modelled by what it may do, not by what replay hopes for: *)
(* it answers in its own time or never, speaks unasked, leaves its stdin   *)
(* unread, exits, opens a session and stalls.  A frame is told by its kind *)
(* and its id, an answer also by the request it answers.                   *)
(***************************************************************************)
EXTENDS Naturals, Sequences, FiniteSets

CONSTANTS
  Rows,      \* recorded messages replay may be asked for
  OwnIds,    \* ids of the server's own requests
  Chatty,    \* TRUE: a server may speak before it has answered initialize
  CanLeave,  \* TRUE: who asked may go away (a dashboard client that hangs up)
  PipeCap,   \* frames a pipe holds
  MaxSaid,   \* bound: frames a server sends unasked
  SseCap     \* bound: SSE events read before replay gives up

\* method and rpc_id as columns, 0 for NULL; body FALSE for a metadata-only row;
\* transport: the session's column ("none": no such session; "old": NULL).
ASSUME ReplayAssumption ==
  /\ Rows \subseteq [dir : {"c2s", "s2c"}, method : BOOLEAN, id : Nat,
                     body : BOOLEAN, argv : BOOLEAN, url : BOOLEAN,
                     transport : {"stdio", "http", "old", "none"}]
  /\ OwnIds \subseteq Nat /\ Chatty \in BOOLEAN /\ CanLeave \in BOOLEAN
  /\ PipeCap \in Nat \ {0} /\ MaxSaid \in Nat /\ SseCap \in Nat \ {0}

VARIABLES
  row,       \* the message to replay
  phase,     \* how far replay is
  outcome,   \* what it returns
  child,     \* the spawned server process
  stdin,     \* frames the server has not read
  stdout,    \* frames replay has not read: the server's output, or SSE events
  seen,      \* what the server has read
  answered,  \* what it has answered
  said,      \* frames it has sent unasked
  reply,     \* the HTTP response on its way
  sid,       \* replay knows a session id
  session,   \* the session at the upstream
  taken      \* SSE events read

replayVars == <<row, phase, outcome, child, sid, taken>>
serverVars == <<stdin, stdout, seen, answered, said, reply, session>>
exchangeVars == <<replayVars, serverVars>>

Handshake == "initialize"
NoFrame == [kind |-> "none", to |-> "none", id |-> 0]
Pending == [kind |-> "pending", frame |-> NoFrame]
Error(kind) == [kind |-> kind, frame |-> NoFrame]
Ok(frame) == [kind |-> "ok", frame |-> frame]
Answer(to, id) == [kind |-> "response", to |-> to, id |-> id]
Unasked(kind, id) == [kind |-> kind, to |-> "none", id |-> id]
NoReply == [status |-> "none", sid |-> FALSE, sse |-> FALSE]

\* run_replay: only a client's request with its body on record is replayed.
Replayable(m) ==
  /\ m.dir = "c2s" /\ m.method /\ m.id # 0 /\ m.body
  /\ m.transport # "none"
OverHttp(m) == m.transport = "http" \/ (m.transport = "old" /\ m.url)

ReplayInit ==
  /\ row \in Rows /\ phase = "lookup" /\ outcome = Pending
  /\ child = "none" /\ stdin = <<>> /\ stdout = <<>>
  /\ seen = {} /\ answered = {} /\ said = 0
  /\ reply = NoReply /\ sid = FALSE /\ session = "none" /\ taken = 0

To(p) == phase' = p /\ UNCHANGED outcome
Return(o, p) == phase' = p /\ outcome' = o

-----------------------------------------------------------------------------
(* Both transports.                                                        *)

LookUp ==
  /\ phase = "lookup"
  /\ \/ ~Replayable(row) /\ Return(Error("unreplayable"), "done")
     \/ Replayable(row) /\ OverHttp(row) /\ To("post_init")
     \/ Replayable(row) /\ ~OverHttp(row) /\ row.argv /\ To("spawn")
     \/ Replayable(row) /\ ~OverHttp(row) /\ ~row.argv /\ Return(Error("internal"), "done")
     \/ Return(Error("internal"), "done") \* the store does not open or answer
  /\ UNCHANGED <<row, child, sid, taken, serverVars>>

\* tokio::time::timeout drops the exchange wherever it is.
StdioExchange == {"write_init", "read_init", "write_initialized", "write_raw", "await"}
HttpExchange  == {"post_init", "post_initialized", "post_raw", "sse"}

\* Mutant: only reads are bounded, a write waits for as long as it takes.
Timeout_ReadsOnly ==
  \/ /\ phase \in {"read_init", "await"}
     /\ Return(Error("timeout"), "teardown")
     /\ UNCHANGED <<row, child, sid, taken, serverVars>>
  \/ /\ phase \in HttpExchange
     /\ Return(Error("timeout"), "done")
     /\ UNCHANGED <<row, child, sid, taken, serverVars>>
\* Mutant: the DELETE is inside the exchange and its timeout.
Timeout_OverDelete ==
  \/ /\ phase \in StdioExchange
     /\ Return(Error("timeout"), "teardown")
     /\ UNCHANGED <<row, child, sid, taken, serverVars>>
  \/ /\ phase \in HttpExchange \cup {"delete"}
     /\ Return(Error("timeout"), "done")
     /\ UNCHANGED <<row, child, sid, taken, serverVars>>
\* Mutant: a timeout returns at once, past the kill.
Timeout_NoKill ==
  /\ phase \in StdioExchange \cup HttpExchange
  /\ Return(Error("timeout"), "done")
  /\ UNCHANGED <<row, child, sid, taken, serverVars>>
Timeout ==
  \/ /\ phase \in StdioExchange
     /\ Return(Error("timeout"), "teardown")
     /\ UNCHANGED <<row, child, sid, taken, serverVars>>
  \/ /\ phase \in HttpExchange
     /\ Return(Error("timeout"), "done")
     /\ UNCHANGED <<row, child, sid, taken, serverVars>>

\* The caller's future is dropped, and with it the child's handle and the pipes:
\* spawn_child does not ask for the process to be killed with its handle.
Leave ==
  /\ CanLeave /\ phase \notin {"done", "gone"}
  /\ phase' = "gone"
  /\ UNCHANGED <<row, outcome, child, sid, taken, serverVars>>

-----------------------------------------------------------------------------
(* Over stdio: replay_stdio and stdio_exchange.                            *)

Spawn ==
  /\ phase = "spawn"
  /\ \/ child' = "running" /\ To("write_init")
     \/ UNCHANGED child /\ Return(Error("upstream"), "done")
  /\ UNCHANGED <<row, sid, taken, serverVars>>

\* write_line: waits for room in the pipe, fails when the server is gone.
Write(here, frame, next) ==
  /\ phase = here
  /\ \/ /\ child = "running" /\ Len(stdin) < PipeCap
        /\ stdin' = Append(stdin, frame) /\ To(next)
     \/ child = "exited" /\ Return(Error("upstream"), "teardown") /\ UNCHANGED stdin
  /\ UNCHANGED <<row, child, sid, taken, stdout, seen, answered, said, reply, session>>

\* Mutant: the handshake and the request are written without waiting.
WriteInit_NoWait == Write("write_init", Handshake, "write_initialized")
WriteInit        == Write("write_init", Handshake, "read_init")
WriteInitialized == Write("write_initialized", "initialized", "write_raw")
WriteRaw         == Write("write_raw", "raw", "await")

\* next_frame: a frame, or the end of the stream once the server is gone.
ReadInit ==
  /\ phase = "read_init"
  /\ \/ stdout # <<>> /\ stdout' = Tail(stdout) /\ To("write_initialized")
     \/ /\ stdout = <<>> /\ child = "exited" /\ UNCHANGED stdout
        /\ Return(Error("upstream"), "teardown")
  /\ UNCHANGED <<row, child, sid, taken, stdin, seen, answered, said, reply, session>>

\* Mutant: the first frame after the request is its answer.
Matches_Any(frame) == TRUE
Matches(frame) == frame.id = row.id

ReadAnswer ==
  /\ phase = "await"
  /\ \/ /\ stdout # <<>> /\ stdout' = Tail(stdout)
        /\ IF Matches(Head(stdout)) THEN Return(Ok(Head(stdout)), "teardown")
                                    ELSE To("await")
     \/ /\ stdout = <<>> /\ child = "exited" /\ UNCHANGED stdout
        /\ Return(Error("upstream"), "teardown")
  /\ UNCHANGED <<row, child, sid, taken, stdin, seen, answered, said, reply, session>>

\* child.kill().await: kills and reaps, also one that has exited.
Teardown ==
  /\ phase = "teardown" /\ child' = "reaped" /\ To("done")
  /\ UNCHANGED <<row, sid, taken, serverVars>>

-----------------------------------------------------------------------------
(* Over HTTP: replay_http and http_exchange.                               *)

\* The request fails on the way, there or back.
ConnectionFails ==
  /\ phase \in HttpExchange /\ Return(Error("upstream"), "done")
  /\ UNCHANGED <<row, child, sid, taken, serverVars>>

GotInit ==
  /\ phase = "post_init" /\ reply # NoReply /\ reply' = NoReply
  /\ IF reply.status = "2xx" THEN To("post_initialized") /\ sid' = reply.sid
     ELSE Return(Error("upstream"), "done") /\ UNCHANGED sid
  /\ UNCHANGED <<row, child, taken, stdin, stdout, seen, answered, said, session>>

\* The status of the notification is not looked at.
GotInitialized ==
  /\ phase = "post_initialized" /\ reply # NoReply /\ reply' = NoReply
  /\ To("post_raw")
  /\ UNCHANGED <<row, child, sid, taken, stdin, stdout, seen, answered, said, session>>

GotRaw ==
  /\ phase = "post_raw" /\ reply # NoReply /\ reply' = NoReply
  /\ \/ reply.status # "2xx" /\ Return(Error("upstream"), "done")
     \/ reply.status = "2xx" /\ reply.sse /\ To("sse")
     \/ reply.status = "2xx" /\ ~reply.sse /\ Return(Ok(Answer("raw", row.id)), "delete")
  /\ UNCHANGED <<row, child, sid, taken, stdin, stdout, seen, answered, said, session>>

\* read_sse_response: the first event with the id; none when the stream ends.
ReadEvent ==
  /\ phase = "sse" /\ stdout # <<>> /\ stdout' = Tail(stdout) /\ taken' = taken + 1
  /\ \/ taken = SseCap /\ Return(Error("upstream"), "done")
     \/ taken < SseCap /\ Matches(Head(stdout)) /\ Return(Ok(Head(stdout)), "delete")
     \/ taken < SseCap /\ ~Matches(Head(stdout)) /\ To("sse")
  /\ UNCHANGED <<row, child, sid, stdin, seen, answered, said, reply, session>>
SseEnds ==
  /\ phase = "sse" /\ stdout = <<>> /\ Return(Ok(NoFrame), "delete")
  /\ UNCHANGED <<row, child, sid, taken, serverVars>>

\* The best-effort DELETE, under a time budget of its own.
Delete ==
  /\ phase = "delete" /\ To("done")
  /\ IF sid THEN session' \in {session, "closed"} ELSE UNCHANGED session
  /\ UNCHANGED <<row, child, sid, taken, stdin, stdout, seen, answered, said, reply>>

-----------------------------------------------------------------------------
(* The server.                                                             *)

ServerReads ==
  /\ child = "running" /\ stdin # <<>>
  /\ seen' = seen \cup {Head(stdin)} /\ stdin' = Tail(stdin)
  /\ UNCHANGED <<replayVars, stdout, answered, said, reply, session>>

\* An id of its own answers initialize: 0 stands for it here.
Says(frame) == Len(stdout) < PipeCap /\ stdout' = Append(stdout, frame)
CanSpeak == child = "running" \/ phase = "sse"

ServerAnswers ==
  /\ CanSpeak
  /\ \E r \in (seen \cap {Handshake, "raw"}) \ answered :
       /\ Says(Answer(r, IF r = "raw" THEN row.id ELSE 0))
       /\ answered' = answered \cup {r}
  /\ UNCHANGED <<replayVars, stdin, seen, said, reply, session>>

ServerSpeaks ==
  /\ CanSpeak /\ said < MaxSaid /\ (Chatty \/ Handshake \in answered)
  /\ \E f \in {Unasked("notification", 0)} \cup {Unasked("request", i) : i \in OwnIds} : Says(f)
  /\ said' = said + 1
  /\ UNCHANGED <<replayVars, stdin, seen, answered, reply, session>>

ServerExits ==
  /\ child = "running" /\ child' = "exited"
  /\ UNCHANGED <<row, phase, outcome, sid, taken, serverVars>>

\* The upstream takes a POST and answers it: with an error, a body or a stream,
\* and for initialize with a session it keeps.
Asked == CASE phase = "post_init" -> Handshake
           [] phase = "post_initialized" -> "initialized"
           [] OTHER -> "raw"
Upstream(status, sse) ==
  /\ phase \in HttpExchange \ {"sse"} /\ reply = NoReply
  /\ seen' = seen \cup {Asked}
  /\ \E keeps \in {s \in BOOLEAN : s => phase = "post_init" /\ status = "2xx"} :
       /\ reply' = [status |-> status, sid |-> keeps, sse |-> sse]
       /\ session' = IF keeps THEN "open" ELSE session
  /\ answered' = IF status = "2xx" /\ ~sse THEN answered \cup {Asked} ELSE answered
  /\ UNCHANGED <<replayVars, stdin, stdout, said>>

ReplayStep ==
  \/ LookUp \/ Timeout \/ Spawn \/ WriteInit \/ WriteInitialized \/ WriteRaw
  \/ ReadInit \/ ReadAnswer \/ Teardown \/ GotInit \/ GotInitialized \/ GotRaw
  \/ ReadEvent \/ Delete

ReplayNext ==
  \/ ReplayStep \/ Leave \/ ConnectionFails \/ SseEnds
  \/ ServerReads \/ ServerAnswers \/ ServerSpeaks \/ ServerExits
  \/ \E status \in {"2xx", "error"}, sse \in BOOLEAN :
       (sse => phase = "post_raw") /\ Upstream(status, sse)

\* Replay's own steps happen, its timers fire; the server owes nothing.
ReplaySpec == ReplayInit /\ [][ReplayNext]_exchangeVars /\ WF_exchangeVars(ReplayStep) /\ WF_exchangeVars(Timeout)

-----------------------------------------------------------------------------
(* Properties.                                                             *)

\* What a successful replay returns is the server's answer to the request: no
\* notification, no request of the server's, no answer to the handshake, and no
\* error page (ReplayResult, response_raw).
AnswerIsOurs ==
  outcome.kind = "ok" /\ outcome.frame # NoFrame =>
    outcome.frame.kind = "response" /\ outcome.frame.to = "raw" /\ "raw" \in answered

\* The request reaches a server that has answered initialize.
HandshakeFirst ==
  "raw" \in seen \/ (\E i \in DOMAIN stdin : stdin[i] = "raw") => Handshake \in answered

\* A replay that has ended has killed and reaped the server it started, whatever
\* result it returns.
ChildReaped == phase = "done" => child \in {"none", "reaped"}

\* A replay keeps to the protocol from spawn to kill: it asks after the handshake,
\* takes the answer to its request and nothing else, and leaves no server behind.
ReplayIsOrderly == AnswerIsOurs /\ HandshakeFirst /\ ChildReaped

Finished == phase \in {"done", "gone"}

\* The same when its caller goes away first (replay_stdio: "the child is always
\* killed on the way out").
AlwaysKilled == Finished => child \in {"none", "reaped"}

\* An answer that has been read is returned: no timer, least of all that of the
\* DELETE, turns it into a timeout (replay_http, bug #2).
AnswerIsKept == [][outcome.kind = "ok" => outcome' = outcome]_exchangeVars
=============================================================================
