------------------------------- MODULE StartUp -------------------------------
(***************************************************************************)
(* A proxy, wrap or gateway, and a dashboard starting over one database:   *)
(* the configuration that may stop the proxy, the gateway's open that      *)
(* creates the schema before its storage threads open for themselves       *)
(* (crates/cli/src/main.rs, gateway.rs and tap.rs), and the dashboard's    *)
(* choice between one connection for all requests and one for each         *)
(* (crates/dashboard/src/lib.rs).                                          *)
(*                                                                         *)
(* The connections are openers of StoreOpen: First is the gateway's up     *)
(* front, the other writers are the storage threads, one of which serves a *)
(* wrap; Chooser is the dashboard's call of is_legacy_v0 before it opens   *)
(* anything, Cached its own connection, the other readers are requests.    *)
(***************************************************************************)
EXTENDS StoreOpen

CONSTANTS
  First, Chooser, Cached,
  Configs,     \* what may be at the path a --policy or --inject names
  MaxRestarts  \* bound: proxies begun after one has ended

Upstreams == Writers \ {First}
Requests  == Readers \ {Chooser, Cached}

ASSUME StartUpAssumption ==
  /\ First \in Writers /\ Cached # Chooser /\ {Cached, Chooser} \subseteq Readers
  /\ Upstreams # {}
  /\ Configs \subseteq {"none", "good", "broken", "missing"} /\ Configs # {}
  /\ MaxRestarts \in Nat

VARIABLES
  program,   \* the proxy that runs, "wrap" or "gateway"
  stage,     \* where it is
  sessions,  \* the sessions begun: thread, file and start of the proxy
  since,     \* the sessions there were when a request began
  saw,       \* those it was answered with
  restarts,
  misled     \* history: openers that took a file of ours for a Phase-0 file

dash == <<since, saw>>
startVars == <<vars, program, stage, sessions, dash, restarts, misled>>

StartInit ==
  /\ Init
  /\ program \in {"wrap", "gateway"}
  /\ stage = "start" /\ sessions = {} /\ restarts = 0 /\ misled = {}
  /\ since = [q \in Requests |-> {}] /\ saw = [q \in Requests |-> {}]

-----------------------------------------------------------------------------
(* The proxy.                                                              *)

\* A named file that is missing, does not parse, names an unknown key, has a
\* pattern that does not compile or a probability outside [0, 1] is an error; no
\* name is none.
Loads(config) == config \in {"none", "good"}

Configure ==
  /\ stage = "start" /\ program = "gateway"
  /\ \E policy, inject \in Configs :
       stage' = IF Loads(policy) /\ Loads(inject) THEN "first" ELSE "ended"
  /\ UNCHANGED <<vars, program, sessions, dash, restarts>>

\* A wrap also ends where its server does not start.
ConfigureWrap ==
  /\ stage = "start" /\ program = "wrap"
  /\ \E policy, inject \in Configs, started \in BOOLEAN :
       stage' = IF Loads(policy) /\ Loads(inject) /\ started THEN "threads" ELSE "ended"
  /\ UNCHANGED <<vars, program, sessions, dash, restarts>>

Threads == IF program = "gateway" THEN Upstreams ELSE {CHOOSE u \in Upstreams : TRUE}

Done(o) == pc[o] \in {"up", "failed"}

\* Mutated form: nothing opens the database before the threads do.
MaySpawn_AtOnce == TRUE
\* The statement that opens up front is over, whatever came of it.
MaySpawn == Done(First)

OpenFirst ==
  /\ stage = "first" /\ Open(First)
  /\ UNCHANGED <<program, stage, sessions, dash, restarts>>

Spawn ==
  /\ stage = "first" /\ MaySpawn
  /\ stage' = "threads"
  /\ UNCHANGED <<vars, program, sessions, dash, restarts>>

\* storage_loop up to its session; one that cannot open drains its channel.
OpenThread(u) ==
  /\ stage = "threads" /\ Open(u)
  /\ UNCHANGED <<program, stage, sessions, dash, restarts>>

Session(u) == [of |-> u, in |-> file[u], run |-> restarts]

BeginSession(u) ==
  /\ stage = "threads" /\ pc[u] = "up" /\ Session(u) \notin sessions
  /\ sessions' = sessions \cup {Session(u)}
  /\ UNCHANGED <<vars, program, stage, dash, restarts>>

\* The port is taken, the server exits, or the proxy is killed.
End ==
  /\ stage \in {"first", "threads"} /\ stage' = "ended"
  /\ UNCHANGED <<vars, program, sessions, dash, restarts>>

Restart ==
  /\ stage = "ended" /\ restarts < MaxRestarts
  /\ stage' = "start" /\ restarts' = restarts + 1 /\ program' \in {"wrap", "gateway"}
  /\ pc' = [o \in Openers |-> IF o \in Writers THEN "closed" ELSE pc[o]]
  /\ file' = [o \in Openers |-> IF o \in Writers THEN 0 ELSE file[o]]
  /\ raced' = raced \ Writers
  /\ UNCHANGED <<db, places, at, snap, laid, kills, sessions, dash>>

-----------------------------------------------------------------------------
(* The dashboard.                                                          *)

\* Before anything is opened.
Choose ==
  /\ pc[Chooser] # "open" /\ Open(Chooser)
  /\ UNCHANGED <<program, stage, sessions, dash, restarts>>

Chosen_Cached ==  \* mutated form: one connection, whatever is there
  IF pc[Chooser] \in {"open", "memory"} THEN "cached" ELSE "none"

\* The dashboard's StoreHandle, "none" before it has one: one connection for all
\* requests, or, where the probe found a Phase-0 file, one for each.
Chosen ==
  CASE pc[Chooser] = "open" -> "cached"
    [] pc[Chooser] = "memory" -> "per request"
    [] OTHER -> "none"

OpenCached ==
  /\ Chosen = "cached" /\ Open(Cached)
  /\ UNCHANGED <<program, stage, sessions, dash, restarts>>

Serving ==
  \/ Chosen = "per request"
  \/ Chosen = "cached" /\ pc[Cached] \in {"up", "memory"}

\* run_blocking: a request opens a connection or is given the dashboard's.
Ask(q) ==
  /\ Serving /\ pc[q] = "closed"
  /\ since' = [since EXCEPT ![q] = sessions]
  /\ IF Chosen = "cached"
     THEN /\ pc' = [pc EXCEPT ![q] = pc[Cached]]
          /\ file' = [file EXCEPT ![q] = file[Cached]]
          /\ raced' = IF Cached \in raced THEN raced \cup {q} ELSE raced
          /\ UNCHANGED <<db, places, at, snap, laid, kills>>
     ELSE Open(q)
  /\ UNCHANGED <<program, stage, sessions, saw, restarts>>

OpenForRequest(q) ==
  /\ pc[q] # "closed" /\ Open(q)
  /\ UNCHANGED <<program, stage, sessions, dash, restarts>>

\* The connection is closed, and the file with it.
Answer(q) ==
  /\ pc[q] \in {"up", "memory"}
  /\ pc' = [pc EXCEPT ![q] = "answered"]
  /\ saw' = [saw EXCEPT ![q] = {s \in sessions : pc[q] = "up" /\ s.in = file[q]}]
  /\ UNCHANGED <<db, places, at, file, snap, raced, laid, kills, program, stage,
                 sessions, since, restarts>>

Mistakes == {o \in Openers : /\ pc[o] = "tables" /\ pc'[o] \in {"rename", "memory"}
                             /\ Ours(file[o])}

StartStep ==
  \/ Configure \/ ConfigureWrap \/ OpenFirst \/ Spawn \/ End \/ Restart \/ Choose \/ OpenCached
  \/ \E u \in Threads : OpenThread(u) \/ BeginSession(u)
  \/ \E q \in Requests : Ask(q) \/ OpenForRequest(q) \/ Answer(q)

StartNext == StartStep /\ misled' = misled \cup Mistakes

StartSpec == StartInit /\ [][StartNext]_startVars

\* A Phase-0 file at the path of a proxy can be moved away: no rename fails.
Moved == \A o \in Openers : pc[o] = "rename" /\ pc'[o] = "open" => path = 0

-----------------------------------------------------------------------------
(* Properties.                                                             *)

\* The threads of one gateway do not fail one another: whatever another process
\* does, and wherever an earlier gateway was killed, an upstream goes unrecorded
\* only if the open before the threads' did not get through (serve's comment).
ThreadsNeverCompete ==
  program = "gateway" => \A u \in Upstreams : pc[u] = "failed" => pc[First] = "failed"

\* The storage threads of one gateway never swap the database, whoever else probes
\* and creates at the path: the open before them has left nothing to swap.
ThreadsNeverSwap ==
  program = "gateway" => \A u \in Upstreams : pc[u] \notin {"rename", "sidecars"}

\* The Phase-0 file is at its path or in its backup, and is lost to a second rename
\* only if a writer's probe was overtaken by another process that created a file.
Phase0Kept ==
  stage # "start" /\ laid = "phase0" => 1 \in {path, backup} \/ misled \cap Writers # {}

\* The storage threads of one gateway start together and do not harm one another,
\* neither by failing an open nor by swapping a Phase-0 database twice.
ThreadsAreSafe == ThreadsNeverCompete /\ ThreadsNeverSwap /\ Phase0Kept

\* A dashboard that was started first, on a Phase-0 file, is answered with the
\* sessions recorded since: it does not stay with the store it was given then.
\* What it or a writer takes for a Phase-0 file because another process creates it
\* between the two reads of the probe is lost to it.
CatchesUp ==
  \A q \in Requests :
    pc[q] = "answered" => \/ since[q] \subseteq saw[q]
                          \/ misled \cap (Writers \cup {Cached}) # {}
=============================================================================
