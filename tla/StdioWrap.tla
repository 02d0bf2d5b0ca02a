------------------------------ MODULE StdioWrap ------------------------------
(***************************************************************************)
(* `mcpglass wrap`: the two pumps that carry MCP frames between a client   *)
(* and a spawned stdio server, the stdout they share, the bounded channel  *)
(* into which they tap, the storage thread that drains it, and the order   *)
(* in which run_wrap takes all of it down (crates/cli/src/main.rs).        *)
(*                                                                         *)
(* A stream is modelled by the chunks FramedStream cuts it into (module    *)
(* FramedStream models the cutting itself):                                *)
(*   "frame"  a newline-terminated frame the pump can inspect,             *)
(*   "raw"    a segment of an oversized frame without its newline,         *)
(*   "end"    the segment of an oversized frame that carries the newline,  *)
(*   "rem"    unterminated bytes left at end of stream.                    *)
(* The client's and the server's streams are kept whole (sent, emitted)    *)
(* and each pump has a read cursor, so a chunk is named by its index.      *)
(***************************************************************************)
EXTENDS Naturals, Sequences, FiniteSets

CONSTANTS
  Mode,          \* policy.mode: "monitor" or "enforce"
  Recording,     \* FALSE under --record off: the pumps enqueue no tap
  Faults,        \* the faults --inject may return; {} without --inject
  ClientChunks,  \* the chunks a client's stream may contain
  ServerChunks,  \* the chunks a server's stream may contain
  ChanCap,       \* capacity of the storage channel (8192 in a release build)
  MaxClient,     \* bound: chunks in the client's stream
  MaxServer      \* bound: chunks in the server's stream

\* A chunk says what the pumps look at: its shape, how many security events
\* evaluate_request raises on it, and whether it has a non-null id.
ASSUME StdioWrapAssumption ==
  /\ Mode \in {"monitor", "enforce"}
  /\ Recording \in BOOLEAN
  /\ Faults \subseteq {"delay", "truncate", "drop", "error"}
  /\ ChanCap \in Nat \ {0}
  /\ MaxClient \in Nat
  /\ MaxServer \in Nat
  /\ \A c \in ClientChunks \cup ServerChunks :
       /\ c.t \in {"frame", "raw", "end"}
       /\ c.hits \in Nat
       /\ c.id \in BOOLEAN

VARIABLES
  sent,         \* the client's stream on our stdin
  clientOpen,   \* the client may still write to our stdin
  clientReads,  \* the client still reads our stdout
  emitted,      \* the server's stream on its stdout
  child,        \* "up" or "exited"
  stdinOpen,    \* the server still accepts writes to its stdin
  toServer,     \* what was written to the server's stdin
  stdout,       \* what was written to our stdout, one element per write
  lock,         \* SharedStdout's holder: "free", "c2s" or "s2c"
  pc,           \* where each pump is
  rd,           \* how many chunks each pump has taken
  fault,        \* the injected fault of each pump's current frame
  left,         \* security events of the current c2s frame not yet sent
  dropping,     \* pump_c2s's enforce_dropping_oversized latch
  logged,       \* each pump's drop_logged latch
  chan,         \* the storage channel
  drained,      \* what the storage thread has received
  storage,      \* "up" or "ended"
  main          \* where run_wrap is

clientVars == <<sent, clientOpen, clientReads>>
serverVars == <<emitted, child, stdinOpen>>
wireVars   == <<toServer, stdout, lock>>
pumpVars   == <<pc, rd, fault, left, dropping>>
tapVars    == <<logged, chan>>
storeVars  == <<drained, storage>>
outerVars  == <<clientVars, serverVars, storeVars, main>>  \* what no pump writes
vars == <<clientVars, serverVars, wireVars, pumpVars, tapVars, storeVars, main>>

Pumps == {"c2s", "s2c"}
Rem   == [t |-> "rem", hits |-> 0, id |-> FALSE]

\* A stream that stops inside an oversized frame has no remainder to flush.
MidFrame(s) == s # <<>> /\ s[Len(s)].t = "raw"

\* The chunk c may come next in stream s: FramedStream's first segment of an
\* oversized frame never holds its newline, and only "end" leaves it.
Follows(s, c) ==
  IF MidFrame(s) THEN c.t \in {"raw", "end"} ELSE c.t \in {"frame", "raw"}

Init ==
  /\ sent = <<>> /\ clientOpen = TRUE /\ clientReads = TRUE
  /\ emitted = <<>> /\ child = "up" /\ stdinOpen = TRUE
  /\ toServer = <<>> /\ stdout = <<>> /\ lock = "free"
  /\ pc = [p \in Pumps |-> "read"]
  /\ rd = [p \in Pumps |-> 0]
  /\ fault = [p \in Pumps |-> "none"]
  /\ left = 0
  /\ dropping = FALSE
  /\ logged = [p \in Pumps |-> FALSE]
  /\ chan = <<>>
  /\ drained = <<>> /\ storage = "up"
  /\ main = "wait"

-----------------------------------------------------------------------------
(* The environment: a client and a server that may do anything.            *)

ClientSend ==
  /\ clientOpen
  /\ Len(sent) < MaxClient
  /\ \E c \in ClientChunks : Follows(sent, c) /\ sent' = Append(sent, c)
  /\ UNCHANGED <<clientOpen, clientReads, serverVars, wireVars, pumpVars,
                 tapVars, storeVars, main>>

\* End of our stdin, with or without unterminated bytes before it.
ClientClose ==
  /\ clientOpen
  /\ clientOpen' = FALSE
  /\ \/ sent' = sent
     \/ ~MidFrame(sent) /\ sent' = Append(sent, Rem)
  /\ UNCHANGED <<clientReads, serverVars, wireVars, pumpVars, tapVars,
                 storeVars, main>>

ClientStopsReading ==
  /\ clientReads
  /\ clientReads' = FALSE
  /\ UNCHANGED <<sent, clientOpen, serverVars, wireVars, pumpVars, tapVars,
                 storeVars, main>>

ServerSend ==
  /\ child = "up"
  /\ Len(emitted) < MaxServer
  /\ \E c \in ServerChunks : Follows(emitted, c) /\ emitted' = Append(emitted, c)
  /\ UNCHANGED <<clientVars, child, stdinOpen, wireVars, pumpVars, tapVars,
                 storeVars, main>>

ServerClosesStdin ==
  /\ stdinOpen
  /\ stdinOpen' = FALSE
  /\ UNCHANGED <<clientVars, emitted, child, wireVars, pumpVars, tapVars,
                 storeVars, main>>

\* The server exits, for whatever reason; what it wrote stays in the pipe.
ServerExit ==
  /\ child = "up"
  /\ child' = "exited"
  /\ stdinOpen' = FALSE
  /\ \/ emitted' = emitted
     \/ ~MidFrame(emitted) /\ emitted' = Append(emitted, Rem)
  /\ UNCHANGED <<clientVars, wireVars, pumpVars, tapVars, storeVars, main>>

-----------------------------------------------------------------------------
(* The tap channel.                                                        *)

Msg(kind, p, i) == [m |-> kind, d |-> p, i |-> i]

\* Mutated forms: a drop that is not latched; a send that waits for room.
TrySend_SilentDrop(p, msg) ==
  /\ chan' = IF Len(chan) < ChanCap THEN Append(chan, msg) ELSE chan
  /\ UNCHANGED logged
TrySend_Blocking(p, msg) ==
  Len(chan) < ChanCap /\ chan' = Append(chan, msg) /\ UNCHANGED logged

\* mpsc try_send: a full channel drops the message; log_drop_once latches.
TrySend(p, msg) ==
  IF Len(chan) < ChanCap
    THEN chan' = Append(chan, msg) /\ UNCHANGED logged
    ELSE UNCHANGED chan /\ logged' = [logged EXCEPT ![p] = TRUE]

StorageRecv ==
  /\ chan # <<>>
  /\ drained' = Append(drained, Head(chan))
  /\ chan' = Tail(chan)
  /\ UNCHANGED <<clientVars, serverVars, wireVars, pumpVars, logged, storage, main>>

\* blocking_recv returns None once both pumps dropped their senders.
StorageEnd ==
  /\ storage = "up"
  /\ chan = <<>>
  /\ \A p \in Pumps : pc[p] = "done"
  /\ storage' = "ended"
  /\ UNCHANGED <<clientVars, serverVars, wireVars, pumpVars, tapVars, drained,
                 main>>

-----------------------------------------------------------------------------
(* pump_c2s.                                                               *)

Goto(p, at) == pc' = [pc EXCEPT ![p] = at]
Blocked(c) == Mode = "enforce" /\ c.hits > 0
NextC2s == sent[rd["c2s"] + 1]
CurC2s  == sent[rd["c2s"]]
CanRead(p, s) == pc[p] = "read" /\ rd[p] < Len(s)
Take(p) == rd' = [rd EXCEPT ![p] = @ + 1]

\* A complete frame is decided, and if it is cleared the injector is asked.
C2sDecide ==
  /\ CanRead("c2s", sent)
  /\ NextC2s.t = "frame"
  /\ Take("c2s")
  /\ left' = NextC2s.hits
  /\ IF Blocked(NextC2s)
       THEN /\ Goto("c2s", IF NextC2s.id THEN "lock" ELSE "tap")
            /\ UNCHANGED fault
       ELSE \E f \in Faults \cup {"none"} :
              /\ fault' = [fault EXCEPT !["c2s"] = f]
              /\ Goto("c2s",
                   CASE f \in {"none", "truncate"} -> "forward"
                     [] f = "delay" -> "sleep"
                     [] f = "drop"  -> "inj"
                     [] f = "error" -> IF NextC2s.id THEN "lock" ELSE "inj")
  /\ UNCHANGED <<outerVars, wireVars, dropping, tapVars>>

\* Mutated forms: oversized frames fail open under enforce too; they are dropped
\* in either mode; the latch is never released.
FailClosed_Never == FALSE
FailClosed_Always == TRUE
StillDropping_Stuck(c) == TRUE

\* A segment of an oversized frame: dropped under enforce, with one event for
\* the whole frame, and forwarded untapped under monitor.
FailClosed == Mode = "enforce"
StillDropping(c) == c.t # "end"

C2sDropRaw ==
  /\ CanRead("c2s", sent)
  /\ NextC2s.t \in {"raw", "end"}
  /\ FailClosed
  /\ Take("c2s")
  /\ IF dropping
       THEN UNCHANGED tapVars
       ELSE TrySend("c2s", Msg("over", "c2s", rd["c2s"] + 1))
  /\ dropping' = StillDropping(NextC2s)
  /\ UNCHANGED <<outerVars, wireVars, pc, fault, left>>

C2sForwardRaw ==
  /\ CanRead("c2s", sent)
  /\ NextC2s.t \in {"raw", "end"}
  /\ ~FailClosed
  /\ Take("c2s")
  /\ IF stdinOpen
       THEN /\ toServer' = Append(toServer, [i |-> rd["c2s"] + 1, whole |-> TRUE])
            /\ UNCHANGED pc
       ELSE UNCHANGED toServer /\ Goto("c2s", "done")
  /\ UNCHANGED <<outerVars, stdout, lock, fault, left, dropping, tapVars>>

C2sWake ==
  /\ pc["c2s"] = "sleep"
  /\ Goto("c2s", "forward")
  /\ UNCHANGED <<outerVars, wireVars, rd, fault, left, dropping, tapVars>>

\* Mutated form: an injected error does not withhold the frame.
AfterWire_Forwards(p) ==
  CASE fault[p] = "none" -> "tap" [] fault[p] = "error" -> "forward" [] OTHER -> "inj"

\* Where a pump goes once a frame's wire action is done: an injected fault is
\* recorded as an event before the frame is tapped.
AfterWire(p) == IF fault[p] = "none" THEN "tap" ELSE "inj"

\* Mutated form: a truncated frame is followed by the whole one.
Delivery_Both ==
  (IF fault["c2s"] = "truncate" THEN <<[i |-> rd["c2s"], whole |-> FALSE]>> ELSE <<>>)
    \o <<[i |-> rd["c2s"], whole |-> TRUE]>>

\* forward_frame, or the prefix a truncate fault leaves of the frame. A failed
\* write ends the pump before anything is recorded.
Delivery == <<[i |-> rd["c2s"], whole |-> fault["c2s"] # "truncate"]>>
AfterForward == IF stdinOpen THEN AfterWire("c2s") ELSE "done"

C2sForward ==
  /\ pc["c2s"] = "forward"
  /\ toServer' = IF stdinOpen THEN toServer \o Delivery ELSE toServer
  /\ Goto("c2s", AfterForward)
  /\ UNCHANGED <<outerVars, stdout, lock, rd, fault, left, dropping, tapVars>>

\* Mutated form: try_lock instead of lock().await, giving the refusal up.
C2sLock_GivesUp ==
  /\ pc["c2s"] = "lock"
  /\ IF lock = "free" THEN lock' = "c2s" /\ Goto("c2s", "resp")
                      ELSE UNCHANGED lock /\ Goto("c2s", "tap")
  /\ UNCHANGED <<outerVars, toServer, stdout, rd, fault, left, dropping, tapVars>>

C2sLock ==
  /\ pc["c2s"] = "lock"
  /\ lock = "free"
  /\ lock' = "c2s"
  /\ Goto("c2s", "resp")
  /\ UNCHANGED <<outerVars, toServer, stdout, rd, fault, left, dropping, tapVars>>

\* The refusal (or injected error) goes to the client as one write; a failure
\* to write it is only logged.
C2sRespond ==
  /\ pc["c2s"] = "resp"
  /\ stdout' = IF clientReads
                 THEN Append(stdout, [p |-> "resp", i |-> rd["c2s"]])
                 ELSE stdout
  /\ lock' = "free"
  /\ Goto("c2s", AfterWire("c2s"))
  /\ UNCHANGED <<outerVars, toServer, rd, fault, left, dropping, tapVars>>

C2sInject ==
  /\ pc["c2s"] = "inj"
  /\ TrySend("c2s", Msg("inj", "c2s", rd["c2s"]))
  /\ fault' = [fault EXCEPT !["c2s"] = "none"]
  /\ Goto("c2s", "tap")
  /\ UNCHANGED <<outerVars, wireVars, rd, left, dropping>>

\* Mutated forms: events are recorded only with the traffic; one iteration too
\* many; the tap repeated inside the loop over the events.
EventsOwed_IfRecording == Recording /\ left > 0
EventMsg_Tap == Msg("tap", "c2s", rd["c2s"])

EventsOwed == left > 0
LastEvent == left = 1
EventMsg == Msg("sec", "c2s", rd["c2s"])

\* --record off stops the taps and not the security events.
C2sTap ==
  /\ pc["c2s"] = "tap"
  /\ IF Recording
       THEN TrySend("c2s", Msg("tap", "c2s", rd["c2s"]))
       ELSE UNCHANGED tapVars
  /\ Goto("c2s", IF EventsOwed THEN "ev" ELSE "read")
  /\ UNCHANGED <<outerVars, wireVars, rd, fault, left, dropping>>

C2sEvent ==
  /\ pc["c2s"] = "ev"
  /\ TrySend("c2s", EventMsg)
  /\ left' = left - 1
  /\ Goto("c2s", IF LastEvent THEN "read" ELSE "ev")
  /\ UNCHANGED <<outerVars, wireVars, rd, fault, dropping>>

\* End of stdin: unterminated bytes are forwarded undecided, in either mode,
\* then the server's stdin is closed and the sender dropped.
C2sEof ==
  /\ pc["c2s"] = "read"
  /\ ~clientOpen
  /\ \/ /\ rd["c2s"] = Len(sent)
        /\ UNCHANGED <<toServer, rd>>
     \/ /\ rd["c2s"] < Len(sent)
        /\ NextC2s.t = "rem"
        /\ Take("c2s")
        /\ toServer' = IF stdinOpen
                         THEN Append(toServer, [i |-> rd["c2s"] + 1, whole |-> TRUE])
                         ELSE toServer
  /\ Goto("c2s", "done")
  /\ UNCHANGED <<outerVars, stdout, lock, fault, left, dropping, tapVars>>

-----------------------------------------------------------------------------
(* pump_s2c.                                                               *)

NextS2c == emitted[rd["s2c"] + 1]
CurS2c  == emitted[rd["s2c"]]

\* Mutated form: the recording comes first.
S2cRead_TapsFirst ==
  /\ CanRead("s2c", emitted)
  /\ Take("s2c")
  /\ TrySend("s2c", Msg("tap", "s2c", rd["s2c"] + 1))
  /\ Goto("s2c", "lock")
  /\ UNCHANGED <<outerVars, wireVars, fault, left, dropping>>

S2cRead ==
  /\ CanRead("s2c", emitted)
  /\ Take("s2c")
  /\ \E f \in IF NextS2c.t = "frame" THEN Faults \cup {"none"} ELSE {"none"} :
       /\ fault' = [fault EXCEPT !["s2c"] = f]
       /\ Goto("s2c",
            CASE f \in {"none", "truncate"} -> "lock"
              [] f = "delay" -> "sleep"
              [] f = "drop"  -> "inj"
              [] f = "error" -> IF NextS2c.id THEN "lock" ELSE "inj")
  /\ UNCHANGED <<outerVars, wireVars, left, dropping, tapVars>>

S2cWake ==
  /\ pc["s2c"] = "sleep"
  /\ Goto("s2c", "lock")
  /\ UNCHANGED <<outerVars, wireVars, rd, fault, left, dropping, tapVars>>

S2cLock ==
  /\ pc["s2c"] = "lock"
  /\ lock = "free"
  /\ lock' = "s2c"
  /\ Goto("s2c", "write")
  /\ UNCHANGED <<outerVars, toServer, stdout, rd, fault, left, dropping, tapVars>>

\* What the first write of the current chunk puts on stdout.
Part ==
  CASE CurS2c.t # "frame"         -> CurS2c.t
    [] fault["s2c"] = "truncate"  -> "cut"
    [] fault["s2c"] = "error"     -> "err"
    [] OTHER                      -> "body"

\* Mutated form: one lock acquisition per write instead of per frame.
LockAfterWrite_Released == "free"

LockAfterWrite == IF Part = "body" THEN lock ELSE "free"

\* Every other chunk is one locked write; only a whole frame takes a second
\* write, of its newline, under the same lock. A failed write ends the pump.
S2cWrite ==
  /\ pc["s2c"] = "write"
  /\ IF clientReads
       THEN /\ stdout' = Append(stdout, [p |-> Part, i |-> rd["s2c"]])
            /\ lock' = LockAfterWrite
            /\ Goto("s2c", CASE Part = "body"           -> "nl"
                             [] Part \in {"raw", "end"} -> "read"
                             [] Part = "rem"            -> "done"
                             [] Part \in {"cut", "err"} -> "inj")
       ELSE /\ UNCHANGED stdout
            /\ lock' = "free"
            /\ Goto("s2c", "done")
  /\ UNCHANGED <<outerVars, toServer, rd, fault, left, dropping, tapVars>>

S2cNewline ==
  /\ pc["s2c"] = "nl"
  /\ lock' = "free"
  /\ IF clientReads
       THEN /\ stdout' = Append(stdout, [p |-> "nl", i |-> rd["s2c"]])
            /\ Goto("s2c", AfterWire("s2c"))
       ELSE UNCHANGED stdout /\ Goto("s2c", "done")
  /\ UNCHANGED <<outerVars, toServer, rd, fault, left, dropping, tapVars>>

S2cInject ==
  /\ pc["s2c"] = "inj"
  /\ TrySend("s2c", Msg("inj", "s2c", rd["s2c"]))
  /\ fault' = [fault EXCEPT !["s2c"] = "none"]
  /\ Goto("s2c", "tap")
  /\ UNCHANGED <<outerVars, wireVars, rd, left, dropping>>

S2cTap ==
  /\ pc["s2c"] = "tap"
  /\ IF Recording
       THEN TrySend("s2c", Msg("tap", "s2c", rd["s2c"]))
       ELSE UNCHANGED tapVars
  /\ Goto("s2c", "read")
  /\ UNCHANGED <<outerVars, wireVars, rd, fault, left, dropping>>

\* Mutated form: the server's exit is taken for the end of its output.
S2cAtEnd_OnExit == child = "exited"

S2cAtEnd == child = "exited" /\ rd["s2c"] = Len(emitted)

S2cEof ==
  /\ pc["s2c"] = "read"
  /\ S2cAtEnd
  /\ Goto("s2c", "done")
  /\ UNCHANGED <<outerVars, wireVars, rd, fault, left, dropping, tapVars>>

-----------------------------------------------------------------------------
(* run_wrap's teardown.                                                    *)

MainStep(from, to) == main = from /\ main' = to

MainReap ==
  /\ MainStep("wait", "drain")
  /\ child = "exited"
  /\ UNCHANGED <<clientVars, serverVars, wireVars, pumpVars, tapVars, storeVars>>

\* The server's stdout is drained to its end before t_in is aborted.
MainAbort ==
  /\ MainStep("drain", "join")
  /\ pc["s2c"] = "done"
  /\ UNCHANGED <<clientVars, serverVars, wireVars, pumpVars, tapVars, storeVars>>

\* Mutated form: t_in is awaited without being aborted first.
Aborted_Never == FALSE

Aborted == main = "join"

\* The abort takes effect at one of pump_c2s's awaits, never between the wire
\* action of a frame and the try_sends that follow it; a held lock is dropped.
C2sCancel ==
  /\ Aborted
  /\ pc["c2s"] \in {"read", "sleep", "forward", "lock", "resp"}
  /\ Goto("c2s", "done")
  /\ lock' = IF lock = "c2s" THEN "free" ELSE lock
  /\ UNCHANGED <<outerVars, toServer, stdout, rd, fault, left, dropping, tapVars>>

MainJoin ==
  /\ MainStep("join", "flush")
  /\ pc["c2s"] = "done"
  /\ UNCHANGED <<clientVars, serverVars, wireVars, pumpVars, tapVars, storeVars>>

MainExit ==
  /\ MainStep("flush", "exit")
  /\ storage = "ended"
  /\ UNCHANGED <<clientVars, serverVars, wireVars, pumpVars, tapVars, storeVars>>

-----------------------------------------------------------------------------

Environment ==
  \/ ClientSend \/ ClientClose \/ ClientStopsReading
  \/ ServerSend \/ ServerClosesStdin \/ ServerExit

PumpC2s ==
  \/ C2sDecide \/ C2sDropRaw \/ C2sForwardRaw \/ C2sWake \/ C2sForward
  \/ C2sLock \/ C2sRespond \/ C2sInject \/ C2sTap \/ C2sEvent \/ C2sEof

PumpS2c ==
  \/ S2cRead \/ S2cWake \/ S2cLock \/ S2cWrite \/ S2cNewline \/ S2cInject
  \/ S2cTap \/ S2cEof

Main == MainReap \/ MainAbort \/ C2sCancel \/ MainJoin \/ MainExit

Storage == StorageRecv \/ StorageEnd

Next == Environment \/ PumpC2s \/ PumpS2c \/ Main \/ Storage

Spec == Init /\ [][Next]_vars

\* The pumps and run_wrap are runtime tasks: each is polled again while it can
\* move. Nothing is assumed of the client, of the server or of the storage thread.
PumpFairness == WF_vars(PumpC2s) /\ WF_vars(PumpS2c) /\ WF_vars(Main)

WireSpec == Spec /\ PumpFairness
-----------------------------------------------------------------------------
(* What the proxy promises.                                                *)

Messages == [m : {"tap", "sec", "inj", "over"}, d : Pumps, i : Nat]

C2sPcs == {"read", "sleep", "forward", "lock", "resp", "inj", "tap", "ev", "done"}
S2cPcs == {"read", "sleep", "lock", "write", "nl", "inj", "tap", "done"}

PartiesOK ==
  /\ sent \in Seq(ClientChunks \cup {Rem}) /\ emitted \in Seq(ServerChunks \cup {Rem})
  /\ clientOpen \in BOOLEAN /\ clientReads \in BOOLEAN /\ stdinOpen \in BOOLEAN
  /\ child \in {"up", "exited"}

WireOK ==
  /\ toServer \in Seq([i : Nat, whole : BOOLEAN])
  /\ stdout \in Seq([p : {"body", "nl", "cut", "err", "resp", "raw", "end", "rem"}, i : Nat])
  /\ lock \in {"free", "c2s", "s2c"}

PumpsOK ==
  /\ pc \in [Pumps -> C2sPcs \cup S2cPcs]
  /\ pc["c2s"] \in C2sPcs /\ pc["s2c"] \in S2cPcs
  /\ rd \in [Pumps -> Nat]
  /\ fault \in [Pumps -> Faults \cup {"none"}]
  /\ left \in Nat
  /\ dropping \in BOOLEAN

\* A cursor never passes the end of the stream it reads.
CursorsOK == rd["c2s"] <= Len(sent) /\ rd["s2c"] <= Len(emitted)

StoreOK ==
  /\ logged \in [Pumps -> BOOLEAN]
  /\ chan \in Seq(Messages) /\ drained \in Seq(Messages)
  /\ storage \in {"up", "ended"}
  /\ main \in {"wait", "drain", "join", "flush", "exit"}

\* Every variable holds a value of its kind, and a cursor stays inside its stream.
TypeOK == PartiesOK /\ WireOK /\ PumpsOK /\ CursorsOK /\ StoreOK

\* The gate: under enforce no frame that raised a security event and no piece
\* of an oversized frame is ever on the server's stdin. (decide_c2s_frame and
\* the Chunk::Raw arm of pump_c2s.)
MustNotForward(c) == Mode = "enforce" /\ (c.hits > 0 \/ c.t \in {"raw", "end"})
GateHolds == \A k \in DOMAIN toServer : ~MustNotForward(sent[toServer[k].i])

\* The server gets the client's chunks in the client's order and none of them
\* twice, whatever is refused, delayed or cut in between.
Increasing(s) == \A j, k \in DOMAIN s : j < k => s[j].i < s[k].i
ForwardedInOrder == Increasing(toServer)

ForwardedWhole(i) == \E k \in DOMAIN toServer : toServer[k] = [i |-> i, whole |-> TRUE]
Written(p, i) == \E k \in DOMAIN stdout : stdout[k] = [p |-> p, i |-> i]

\* The wire action of client chunk i is over: the pump is past it.
C2sSettled(i) ==
  \/ i < rd["c2s"]
  \/ i = rd["c2s"] /\ pc["c2s"] \in {"read", "tap", "ev"}
S2cSettled(i) ==
  \/ i < rd["s2c"]
  \/ i = rd["s2c"] /\ pc["s2c"] \in {"read", "tap"}

\* A client frame is either forwarded or answered by the proxy (a refusal or an
\* injected error), never both, and it is answered at most once.
OneOutcome ==
  /\ \A j \in DOMAIN toServer : ~Written("resp", toServer[j].i)
  /\ \A j, k \in DOMAIN stdout :
       stdout[j].p = "resp" /\ stdout[k] = stdout[j] => j = k

\* Every client line has one fate: it is forwarded once, in its turn, or answered
\* once by the proxy, whatever fault is applied and wherever the pump is cancelled.
DeliveredOnce == ForwardedInOrder /\ OneOutcome

\* Frame atomicity of the shared stdout: the newline of a server frame directly
\* follows its body, so that no synthesized response lands between the two.
FramesAtomic ==
  \A k \in DOMAIN stdout :
    stdout[k].p = "body" /\ k < Len(stdout) =>
      stdout[k + 1] = [p |-> "nl", i |-> stdout[k].i]

\* Everything the storage thread has received or will receive, in order.
Reported == drained \o chan
IsReported(kind, p, i) == \E k \in DOMAIN Reported : Reported[k] = Msg(kind, p, i)

\* A frame that an injected fault kept from crossing has its event in the log,
\* or the drop latch stands for it.
Excused(p, i) == Faults # {} /\ (logged[p] \/ IsReported("inj", p, i))

\* Nothing that passed the gate is missing on either side, but for a frame whose
\* injected fault is on record, and every blocked request that has an id was
\* answered: the wire is whole up to the chunk a pump is working on.
NoTrafficLost ==
  /\ \A i \in DOMAIN sent :
       C2sSettled(i) =>
         MustNotForward(sent[i]) \/ ForwardedWhole(i) \/ Excused("c2s", i)
  /\ \A i \in DOMAIN emitted :
       S2cSettled(i) =>
         \/ Written(IF emitted[i].t = "frame" THEN "nl" ELSE emitted[i].t, i)
         \/ Excused("s2c", i)
  /\ \A i \in DOMAIN sent :
       C2sSettled(i) /\ sent[i].t = "frame" /\ Blocked(sent[i]) /\ sent[i].id =>
         Written("resp", i) \/ ~clientReads

\* The wire comes first: when a frame is recorded, or an event about it, its
\* wire action has already been taken.
WireBeforeTap ==
  \A k \in DOMAIN Reported :
    LET r == Reported[k] IN
      /\ r.d = "s2c" /\ r.m = "tap" /\ Faults = {} => Written("nl", r.i)
      /\ r.d = "c2s" /\ r.m \in {"tap", "sec"} /\ Faults = {} /\ ~Blocked(sent[r.i])
           => ForwardedWhole(r.i)
      /\ r.d = "c2s" /\ r.m \in {"tap", "sec"} /\ Blocked(sent[r.i]) /\ sent[r.i].id
           => Written("resp", r.i) \/ ~clientReads

\* Each direction is recorded in wire order and no frame is recorded twice.
TapsInOrder ==
  \A j, k \in DOMAIN Reported :
    /\ j < k
    /\ Reported[j].m = "tap" /\ Reported[k].m = "tap"
    /\ Reported[j].d = Reported[k].d
    => Reported[j].i < Reported[k].i

\* The database tells the story of the wire: of nothing that has not happened yet,
\* and per direction in the order in which it happened.
TapsFollowWire == WireBeforeTap /\ TapsInOrder

\* Pump p is through with chunk i, recording included.
Finished(p, i) == i < rd[p] \/ (i = rd[p] /\ pc[p] = "read")
Reports(msg) == {k \in DOMAIN Reported : Reported[k] = msg}

\* A gap in the audit log is announced: while a pump's drop latch is down, every
\* frame it is through with is recorded, exactly once, with each of its events.
GapsAreLogged ==
  /\ \A i \in DOMAIN sent :
       Finished("c2s", i) /\ sent[i].t = "frame" /\ ~logged["c2s"] =>
         /\ Recording => Cardinality(Reports(Msg("tap", "c2s", i))) = 1
         /\ Cardinality(Reports(Msg("sec", "c2s", i))) = sent[i].hits
  /\ \A i \in DOMAIN emitted :
       Finished("s2c", i) /\ emitted[i].t = "frame" /\ ~logged["s2c"] /\ Recording =>
         Cardinality(Reports(Msg("tap", "s2c", i))) = 1

\* Under enforce each oversized client frame raises its one event at its first
\* segment, however many segments it has and however many such frames follow
\* each other; none is missing unless the drop latch says so.
FirstSegments ==
  {i \in 1 .. rd["c2s"] : sent[i].t = "raw" /\ (i = 1 \/ sent[i - 1].t # "raw")}
OversizedReportedOnce ==
  LET overs == {k \in DOMAIN Reported : Reported[k].m = "over"} IN
    /\ \A k \in overs : Mode = "enforce" /\ Reported[k].i \in FirstSegments
    /\ \A j, k \in overs : Reported[j].i = Reported[k].i => j = k
    /\ Mode = "enforce" /\ ~logged["c2s"] =>
         \A i \in FirstSegments : \E k \in overs : Reported[k].i = i

\* Nothing disappears in silence: what is missing on a side was refused or has its
\* fault on record, what is missing in the database was announced, and an oversized
\* line that was dropped is one event however many segments it came in.
NothingSilentlyLost == NoTrafficLost /\ GapsAreLogged /\ OversizedReportedOnce

\* The comment on SharedStdout: "an injected error can never land in the middle
\* of a real frame". A real frame is one the server terminated by a newline,
\* whatever its size.
ResponseNeverMidFrame ==
  \A k \in DOMAIN stdout :
    stdout[k].p = "resp" /\ k > 1 => stdout[k - 1].p \notin {"body", "raw"}

\* The storage thread may stall for ever and the channel stay full: whatever a
\* client or a server sends still crosses, unless its pump has ended. Each pump
\* catches up with its peer again and again.
CaughtUp ==
  /\ pc["c2s"] # "done" => \A i \in DOMAIN sent : C2sSettled(i)
  /\ pc["s2c"] # "done" => \A i \in DOMAIN emitted : S2cSettled(i)
WireNeverStalls == []<>CaughtUp

\* Once the server exits the program exits, even when the client neither closes
\* its end nor sends another byte and pump_c2s is blocked reading from it. Only
\* here must the storage thread be scheduled: run_wrap joins it.
ExitFollowsServer ==
  WF_vars(Storage) => ((child = "exited") ~> (main = "exit"))

\* run_wrap returns only when the server's whole output has been offered to the
\* client and everything enqueued has reached the storage thread.
ExitIsClean ==
  main = "exit" =>
    /\ chan = <<>>
    /\ lock = "free"
    /\ clientReads /\ Faults = {} =>
         \A i \in DOMAIN emitted :
           Written(IF emitted[i].t = "frame" THEN "nl" ELSE emitted[i].t, i)
=============================================================================
