---------------------------- MODULE StdioRecording ----------------------------
(***************************************************************************)
(* The order in which the pumps of `mcpglass wrap` (crates/cli/src/main.rs)*)
(* hand frames to the storage thread: each pump puts its frame on the wire *)
(* and taps it afterwards, and the two pumps are tasks of their own.  The  *)
(* pumps' locks, faults and gate are the matter of StdioWrap.              *)
(***************************************************************************)
EXTENDS StorageLoop

CONSTANTS
  FreshIds,   \* the client never uses an id twice
  Recording,  \* FALSE under --record off: the pumps enqueue no tap
  MaxFrames   \* bound: frames put on the wire

ASSUME StdioRecordingAssumption == FreshIds \in BOOLEAN /\ Recording \in BOOLEAN /\ MaxFrames \in Nat

VARIABLES
  clock,     \* stamps the frames
  c2sOwed,   \* what pump_c2s has forwarded and not yet tapped
  s2cOwed,   \* what pump_s2c has forwarded and not yet tapped
  used,      \* the ids the client has used
  atServer,  \* the requests the server has not answered
  atClient   \* the requests the client has not answered

pumpVars == <<clock, c2sOwed, s2cOwed, used, atServer, atClient>>
vars == <<loopVars, pumpVars>>

Nothing == [kind |-> "none"]

Init ==
  /\ LoopInit
  /\ clock = 1 /\ c2sOwed = Nothing /\ s2cOwed = Nothing
  /\ used = {} /\ atServer = {} /\ atClient = {}

Busy == {r.id : r \in atServer}

Wire == clock <= MaxFrames /\ clock' = clock + 1

\* pump_c2s forwards a request: the client may use an id again once it has been
\* answered.
ForwardRequest(m, id) ==
  /\ Wire /\ c2sOwed = Nothing
  /\ id \notin (IF FreshIds THEN used ELSE Busy)
  /\ LET f == Frame("c2s", m, id, FALSE, "plain", clock, 0) IN
       c2sOwed' = f /\ atServer' = atServer \cup {f}
  /\ used' = used \cup {id}
  /\ UNCHANGED <<loopVars, s2cOwed, atClient>>

\* pump_c2s forwards the client's answer to something the server asked.
ForwardAnswer(r) ==
  /\ Wire /\ c2sOwed = Nothing
  /\ c2sOwed' = Frame("c2s", "none", r.id, FALSE, "plain", clock, r.ts)
  /\ atClient' = atClient \ {r}
  /\ UNCHANGED <<loopVars, s2cOwed, used, atServer>>

\* pump_s2c forwards a response: result.tools may be in that of any call.
ForwardResponse(r, err, b) ==
  /\ Wire /\ s2cOwed = Nothing
  /\ err => b = "plain"
  /\ b = "version" => r.method = "initialize"
  /\ b = "tools" => r.method # "initialize"
  /\ s2cOwed' = Frame("s2c", "none", r.id, err, b, clock, r.ts)
  /\ atServer' = atServer \ {r}
  /\ UNCHANGED <<loopVars, c2sOwed, used, atClient>>

\* pump_s2c forwards a request of the server's (sampling/createMessage), which
\* numbers its requests as it likes.
ForwardServerRequest(id) ==
  /\ Wire /\ s2cOwed = Nothing
  /\ LET f == Frame("s2c", "call", id, FALSE, "plain", clock, 0) IN
       s2cOwed' = f /\ atClient' = atClient \cup {f}
  /\ UNCHANGED <<loopVars, c2sOwed, used, atServer>>

Enqueue(f) == IF Recording THEN Send(f) ELSE UNCHANGED queue

C2sTap ==
  /\ c2sOwed # Nothing /\ Enqueue(c2sOwed) /\ c2sOwed' = Nothing
  /\ UNCHANGED <<drained, tools, inits, pinned, source, protocol>>
  /\ UNCHANGED <<clock, s2cOwed, used, atServer, atClient>>

S2cTap ==
  /\ s2cOwed # Nothing /\ Enqueue(s2cOwed) /\ s2cOwed' = Nothing
  /\ UNCHANGED <<drained, tools, inits, pinned, source, protocol>>
  /\ UNCHANGED <<clock, c2sOwed, used, atServer, atClient>>

Drain == HandleTap /\ UNCHANGED pumpVars

Pump ==
  \/ \E m \in Methods \ {"none"}, id \in Ids : ForwardRequest(m, id)
  \/ \E r \in atClient : ForwardAnswer(r)
  \/ \E r \in atServer, err \in BOOLEAN, b \in Bodies : ForwardResponse(r, err, b)
  \/ \E id \in Ids : ForwardServerRequest(id)
  \/ C2sTap \/ S2cTap

Next == Pump \/ Drain

Spec == Init /\ [][Next]_vars

\* The --record option: security events "are always recorded regardless".  The tools a
\* client is shown come to the storage thread, which compares them and raises
\* fingerprint_change, unless the channel is full.
AdvertisementsCompared ==
  [][/\ s2cOwed # Nothing /\ s2cOwed' = Nothing /\ s2cOwed.body = "tools"
     /\ Len(queue) < ChannelCap
     => queue' = Append(queue, s2cOwed)]_vars
=============================================================================
