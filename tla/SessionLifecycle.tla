--------------------------- MODULE SessionLifecycle ---------------------------
(***************************************************************************)
(* What becomes of recorded sessions: storage threads begin sessions and   *)
(* append to them while the dashboard's delete button, its prune dialog    *)
(* and `mcpglass prune` remove them, all over one database                 *)
(* (crates/storage/src/lib.rs, crates/cli/src/prune.rs,                    *)
(* crates/dashboard/src/lib.rs).                                           *)
(*                                                                         *)
(* SQLite is modelled by how the store uses it: BEGIN IMMEDIATE takes the  *)
(* one write lock, a transaction is seen when it commits, and a row that   *)
(* references a session is refused when the session has none (the bundled  *)
(* SQLite enforces foreign keys; delete_with_fk_disabled says so).         *)
(***************************************************************************)
EXTENDS Naturals, FiniteSets, FiniteSetsExt

CONSTANTS
  Deleters,  \* dashboard requests and prune commands, one job each
  Commands,  \* those that are `mcpglass prune`
  Jobs,      \* the jobs they may be given
  Defs,      \* tool definitions a server may advertise
  MaxSess,   \* bound: sessions begun
  MaxRows,   \* bound: messages, and security events, per session
  MaxTime    \* bound: started_at_ms

\* A job removes one session, or prunes by cutoff (0: no --older-than) and by
\* size (0: no --max-size, else the target plus one).
ASSUME SessionLifecycleAssumption ==
  /\ "none" \notin Deleters /\ Commands \subseteq Deleters
  /\ Jobs \subseteq [kind : {"delete"}, id : Nat] \cup
                 [kind : {"prune"}, cutoff : Nat, size : Nat, dry : BOOLEAN]
  /\ MaxSess \in Nat /\ MaxRows \in Nat /\ MaxTime \in Nat \ {0}

VARIABLES
  db,      \* the committed rows: sessions, messages and events per session
  pins,    \* the definitions in tool_fingerprints
  begun,   \* ids given out (AUTOINCREMENT: never given out again)
  live,    \* sessions whose storage thread runs
  made,    \* rows accepted so far, over all sessions
  refused, \* rows a storage thread offered and the store refused
  lock,    \* who holds the write lock
  tx,      \* the rows as the holder's transaction sees them
  pc, job, \* where each deleter is and what it does
  doomed,  \* the session ids its transaction removes
  stats,   \* what it has removed (or, dry, would remove) and not yet told
  told,    \* what it has told its user
  lost     \* what it had removed and not told when it failed

writerVars  == <<pins, begun, live, made, refused>>
countVars   == <<stats, told, lost>>
deleterVars == <<lock, tx, pc, job, doomed, countVars>>
vars == <<db, writerVars, deleterVars>>

Ids  == 1..MaxSess
None == [sessions |-> 0, messages |-> 0, events |-> 0]
Plus(a, b) == [f \in DOMAIN a |-> a[f] + b[f]]

Count(d, ids) ==
  [sessions |-> Cardinality(ids \cap DOMAIN d.started),
   messages |-> MapThenSumSet(LAMBDA s : d.messages[s], ids),
   events   |-> MapThenSumSet(LAMBDA s : d.events[s], ids)]

Before(d, cutoff) == {s \in DOMAIN d.started : d.started[s] < cutoff}
Older(d, s, t) ==
  d.started[s] < d.started[t] \/ (d.started[s] = d.started[t] /\ s <= t)
Oldest(d) ==
  CHOOSE s \in DOMAIN d.started : \A t \in DOMAIN d.started : Older(d, s, t)

\* db_used_bytes: the pages that hold rows, and those that hold the rest.
Used(d) == 1 + Cardinality(DOMAIN d.started) + Count(d, Ids).messages
             + Count(d, Ids).events

NoRows == [started |-> <<>>, messages |-> [s \in Ids |-> 0],
           events |-> [s \in Ids |-> 0]]

Init ==
  /\ db = NoRows
  /\ pins = {} /\ begun = 0 /\ live = {} /\ made = None /\ refused = None
  /\ lock = "none" /\ tx = NoRows
  /\ pc = [d \in Deleters |-> "idle"] /\ job \in [Deleters -> Jobs]
  /\ \A d \in Commands : job[d].kind = "prune"
  /\ doomed = [d \in Deleters |-> {}] /\ stats = [d \in Deleters |-> None]
  /\ told = stats /\ lost = stats

-----------------------------------------------------------------------------
(* The storage threads.  A statement of theirs waits for the write lock.   *)

Begin ==
  /\ lock = "none" /\ begun < MaxSess
  /\ begun' = begun + 1
  /\ live' = live \cup {begun'}
  /\ \E t \in 1..MaxTime :
       db' = [db EXCEPT !.started =
                [s \in DOMAIN @ \cup {begun'} |->
                   IF s = begun' THEN t ELSE db.started[s]]]
  /\ made' = Plus(made, [None EXCEPT !.sessions = 1])
  /\ UNCHANGED <<pins, refused, deleterVars>>

Has(s) == s \in DOMAIN db.started

\* A refused row is logged and dropped; the thread goes on.
Insert(s) ==
  /\ lock = "none" /\ s \in live
  /\ db.messages[s] < MaxRows /\ refused.messages < MaxRows
  /\ IF Has(s)
     THEN /\ db' = [db EXCEPT !.messages[s] = @ + 1]
          /\ made' = Plus(made, [None EXCEPT !.messages = 1])
          /\ UNCHANGED refused
     ELSE /\ refused' = Plus(refused, [None EXCEPT !.messages = 1])
          /\ UNCHANGED <<db, made>>
  /\ UNCHANGED <<pins, begun, live, deleterVars>>

InsertSecurityEvent(s) ==
  /\ lock = "none" /\ s \in live
  /\ db.events[s] < MaxRows /\ refused.events < MaxRows
  /\ IF Has(s)
     THEN /\ db' = [db EXCEPT !.events[s] = @ + 1]
          /\ made' = Plus(made, [None EXCEPT !.events = 1])
          /\ UNCHANGED refused
     ELSE /\ refused' = Plus(refused, [None EXCEPT !.events = 1])
          /\ UNCHANGED <<db, made>>
  /\ UNCHANGED <<pins, begun, live, deleterVars>>

\* record_fingerprint of a new definition; a known one is only touched, which
\* references no session.
Pin(s, d) ==
  /\ lock = "none" /\ s \in live /\ d \notin pins
  /\ Has(s) /\ pins' = pins \cup {d}
  /\ UNCHANGED <<db, begun, live, made, refused, deleterVars>>

\* The pumps hang up; end_session updates the row, if there is one.
End(s) ==
  /\ lock = "none" /\ s \in live
  /\ live' = live \ {s}
  /\ UNCHANGED <<db, pins, begun, made, refused, deleterVars>>

-----------------------------------------------------------------------------
(* The deleters.                                                           *)

Dry(d) == job[d].kind = "prune" /\ job[d].dry

Goto(d, l) == pc' = [pc EXCEPT ![d] = l]
AfterOlder_Always(d) == "size"  \* mutated form: --max-size is not optional
\* The next condition, if there is one.
AfterOlder(d) == IF job[d].size # 0 THEN "size" ELSE "report"

OlderDone_Silent(d) == IF job[d].size # 0 THEN "size" ELSE "done"  \* mutated form: no line
\* The command prints a line for each condition, the dashboard answers at the end.
OlderDone(d) == IF d \in Commands THEN "report_older" ELSE AfterOlder(d)

\* What follows a committed removal: prune_to_max_size looks again.
AfterCommit(d) ==
  IF pc[d] = "commit_older" THEN OlderDone(d)
  ELSE IF job[d].kind = "prune" THEN "size" ELSE "report"

Start(d) ==
  /\ pc[d] = "idle"
  /\ IF job[d].kind = "delete"
     THEN Goto(d, "exists") /\ doomed' = [doomed EXCEPT ![d] = {job[d].id}]
     ELSE /\ Goto(d, IF job[d].cutoff # 0 THEN "older" ELSE AfterOlder(d))
          /\ UNCHANGED doomed
  /\ UNCHANGED <<db, writerVars, lock, tx, job, countVars>>

\* preview_sessions_before.
PreviewOlder(d) ==
  /\ pc[d] = "older" /\ job[d].dry
  /\ stats' = [stats EXCEPT ![d] =
                 Plus(@, Count(db, Before(db, job[d].cutoff)))]
  /\ Goto(d, OlderDone(d))
  /\ UNCHANGED <<db, writerVars, lock, tx, job, doomed, told, lost>>

\* session_size_estimates, as a walk adds them up: what the oldest sessions hold in
\* their messages, for each set of oldest ones.
SizeEstimates(d) ==
  [ids \in {I \in SUBSET DOMAIN d.started :
               \A s \in I, t \in (DOMAIN d.started) \ I : Older(d, s, t)}
     |-> Count(d, ids).messages]

\* preview_max_size: oldest first, until what is left would fit.
PreviewSize(d) ==
  /\ pc[d] = "size" /\ job[d].dry
  /\ LET fitting == {ids \in DOMAIN SizeEstimates(db) :
                       Used(db) - SizeEstimates(db)[ids] <= job[d].size - 1}
         walked  == IF fitting = {} THEN DOMAIN db.started
                    ELSE CHOOSE ids \in fitting : \A o \in fitting : ids \subseteq o
     IN  stats' = [stats EXCEPT ![d] = Plus(@, Count(db, walked))]
  /\ Goto(d, "report")
  /\ UNCHANGED <<db, writerVars, lock, tx, job, doomed, told, lost>>

\* A turn of prune_to_max_size: db_used_bytes, then oldest_session.
Measure(d) ==
  /\ pc[d] = "size" /\ ~job[d].dry
  /\ Goto(d, IF Used(db) <= job[d].size - 1 THEN "report" ELSE "oldest")
  /\ UNCHANGED <<db, writerVars, lock, tx, job, doomed, countVars>>

PickOldest(d) ==
  /\ pc[d] = "oldest"
  /\ IF DOMAIN db.started = {}
     THEN Goto(d, "report") /\ UNCHANGED doomed
     ELSE Goto(d, "exists") /\ doomed' = [doomed EXCEPT ![d] = {Oldest(db)}]
  /\ UNCHANGED <<db, writerVars, lock, tx, job, countVars>>

\* delete_session answers None for an id without a row: 404, and prune stops there.
Exists(d) ==
  /\ pc[d] = "exists"
  /\ Goto(d, IF doomed[d] \subseteq DOMAIN db.started THEN "begin" ELSE "report")
  /\ UNCHANGED <<db, writerVars, lock, tx, job, doomed, countVars>>

BeginImmediate(d) ==
  /\ lock = "none"
  /\ \/ pc[d] = "begin" /\ Goto(d, "rows") /\ UNCHANGED doomed
     \/ /\ pc[d] = "older" /\ ~job[d].dry
        /\ Goto(d, "rows_older")
        /\ doomed' = [doomed EXCEPT ![d] = Before(db, job[d].cutoff)]
  /\ lock' = d /\ tx' = db
  /\ UNCHANGED <<db, writerVars, job, countVars>>

WithoutRows_Messages(r, ids) ==  \* mutated form: one child table forgotten
  [r EXCEPT !.messages = [s \in Ids |-> IF s \in ids THEN 0 ELSE @[s]]]

WithoutRows(r, ids) ==
  [r EXCEPT !.messages = [s \in Ids |-> IF s \in ids THEN 0 ELSE @[s]],
            !.events = [s \in Ids |-> IF s \in ids THEN 0 ELSE @[s]]]
WithoutSessions(r, ids) ==
  [r EXCEPT !.started = [s \in DOMAIN @ \ ids |-> r.started[s]]]

\* The deletes from messages and from the event tables.
DeleteRows(d) ==
  /\ pc[d] \in {"rows", "rows_older"}
  /\ tx' = WithoutRows(tx, doomed[d])
  /\ Goto(d, IF pc[d] = "rows" THEN "session" ELSE "session_older")
  /\ UNCHANGED <<db, writerVars, lock, job, doomed, countVars>>

\* With foreign keys on, this delete would fail wherever a pin remembers the
\* session; they are off on this connection alone.
DeleteSession(d) ==
  /\ pc[d] \in {"session", "session_older"}
  /\ tx' = WithoutSessions(tx, doomed[d])
  /\ Goto(d, IF pc[d] = "session" THEN "commit" ELSE "commit_older")
  /\ UNCHANGED <<db, writerVars, lock, job, doomed, countVars>>

Removed_Requested(d) == [Count(db, doomed[d]) EXCEPT !.sessions =
                           Cardinality(doomed[d])]  \* mutated form: ids, not rows

\* The row counts the DELETE statements returned.
Removed(d) == Count(db, doomed[d])

CommitDelete(d) ==
  /\ pc[d] \in {"commit", "commit_older"}
  /\ db' = tx /\ lock' = "none" /\ tx' = NoRows
  /\ stats' = [stats EXCEPT ![d] = Plus(@, Removed(d))]
  /\ doomed' = [doomed EXCEPT ![d] = {}]
  /\ Goto(d, AfterCommit(d))
  /\ UNCHANGED <<writerVars, job, told, lost>>

\* A line of the command's, its closing one, or the response.  Counts are told together
\* here; the line on --max-size words no events (prune.rs:111-117).
Report(d) ==
  /\ pc[d] \in {"report_older", "report"}
  /\ told' = [told EXCEPT ![d] = Plus(@, stats[d])]
  /\ stats' = [stats EXCEPT ![d] = None]
  /\ Goto(d, IF pc[d] = "report_older" THEN AfterOlder(d) ELSE "done")
  /\ UNCHANGED <<db, writerVars, lock, tx, job, doomed, lost>>

\* A statement fails, the vacuum before the response too, or the process ends: an
\* open transaction rolls back, and the counts of those that were committed are
\* dropped (the ? of prune_to_max_size and of the handler, the error arms of prune.rs).
Fail(d) ==
  /\ pc[d] \notin {"idle", "done", "failed"}
  /\ IF lock = d THEN lock' = "none" /\ tx' = NoRows ELSE UNCHANGED <<lock, tx>>
  /\ lost' = IF Dry(d) THEN lost ELSE [lost EXCEPT ![d] = Plus(@, stats[d])]
  /\ stats' = [stats EXCEPT ![d] = None]
  /\ doomed' = [doomed EXCEPT ![d] = {}]
  /\ Goto(d, "failed")
  /\ UNCHANGED <<db, writerVars, job, told>>

-----------------------------------------------------------------------------
Write ==
  \/ Begin
  \/ \E s \in Ids : Insert(s) \/ InsertSecurityEvent(s) \/ End(s)
                    \/ \E d \in Defs : Pin(s, d)

Delete(d) ==
  \/ Start(d) \/ PreviewOlder(d) \/ PreviewSize(d) \/ Measure(d) \/ PickOldest(d)
  \/ Exists(d) \/ BeginImmediate(d) \/ DeleteRows(d) \/ DeleteSession(d)
  \/ CommitDelete(d) \/ Report(d) \/ Fail(d)

Next == Write \/ \E d \in Deleters : Delete(d)

Spec == Init /\ [][Next]_vars

-----------------------------------------------------------------------------
(* Properties.                                                             *)

\* No message or event outlives its session, though live threads go on
\* appending to a session while it is removed.
NoOrphans ==
  \A s \in Ids : s \notin DOMAIN db.started =>
    db.messages[s] = 0 /\ db.events[s] = 0

Counted == [d \in Deleters |-> Plus(stats[d], Plus(told[d], lost[d]))]

\* Every row that was recorded is in the database, was reported removed, once, is
\* counted by a job that runs, or was counted by one that failed: two deleters that
\* race for a session never both count it (PruneStats).
EveryRowAccountedFor ==
  made = Plus(Count(db, Ids),
              [f \in DOMAIN None |->
                 MapThenSumSet(LAMBDA d : Counted[d][f],
                               {d \in Deleters : ~Dry(d)})])

\* A job that comes to its end has reported all that it removed.
EndMeansTold ==
  \A d \in Deleters : pc[d] = "done" => stats[d] = None /\ lost[d] = None

\* A dry run asks for one of the two: with both, each preview counts for itself.
OneCondition ==
  \A j \in Jobs : j.kind = "prune" /\ j.dry => j.cutoff = 0 \/ j.size = 0

\* A dry run's totals: no more sessions than there have been.
DryRunCountsOnce ==
  \A d \in Deleters : Dry(d) => told[d].sessions <= begun

\* What delete and prune report is what they removed, or would have removed, and all of
\* it unless they fail.
TotalsAreTrue == EveryRowAccountedFor /\ EndMeansTold /\ DryRunCountsOnce

\* A prune that fails has reported what it removed before.
FailuresTellToo == \A d \in Deleters : lost[d] = None

\* Security events are recorded whatever is done to the recording.
EventsAlwaysRecorded == refused.events = 0
=============================================================================
