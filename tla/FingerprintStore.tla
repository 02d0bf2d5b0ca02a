--------------------------- MODULE FingerprintStore ---------------------------
(***************************************************************************)
(* Tool integrity pinning: how the tool_fingerprints table of one database *)
(* evolves under record_fingerprint (crates/storage/src/lib.rs), called by *)
(* record_fingerprints (crates/cli/src/tap.rs) on the storage thread of    *)
(* each session. Several sessions, in as many processes, share the table.  *)
(*                                                                         *)
(* A tools/list response is stamped when a pump reads it and recorded when *)
(* the storage thread gets to it, tool by tool, each in a transaction of   *)
(* its own; an alert is a second, separate insert.                         *)
(***************************************************************************)
EXTENDS Naturals, Sequences, FiniteSets

CONSTANTS
  Servers,      \* structured identities (server_identity_hash)
  LegacyKey,    \* the scope key each identity had before schema v7
  Tools,        \* tool names
  Defs,         \* tool definitions
  Hash(_, _),   \* Hash(v, d): definition d under algorithm version v
  LegacyRows,   \* the rows an older release left in the table
  Sessions,     \* concurrent sessions
  ServerOf,     \* the server each session wraps
  Lists,        \* tools/list responses: sequences of <<tool, definition>>
  MaxLists,     \* bound: responses observed, over all sessions
  MaxMishaps    \* bound: crashes and failed statements

Versions == 1 .. 3
Keys == Servers \cup {LegacyKey[s] : s \in Servers}

ASSUME FingerprintAssumption ==
  /\ \A s \in Servers : LegacyKey[s] \notin Servers
  /\ ServerOf \in [Sessions -> Servers]
  /\ \A l \in Lists : l \in Seq(Tools \X Defs)
  /\ MaxLists \in Nat /\ MaxMishaps \in Nat

\* Each version covers what the one before covers and more, and no two versions
\* hash the same text.
ASSUME HashAssumption ==
  \A d, e \in Defs, v, w \in Versions :
    /\ v <= w /\ Hash(w, d) = Hash(w, e) => Hash(v, d) = Hash(v, e)
    /\ Hash(v, d) = Hash(w, e) => v = w

Row == [id : Nat, key : Keys, tool : Tools, fp : {Hash(v, d) : v \in Versions, d \in Defs},
        ver : Versions, seen : Nat]

\* A row is compared on the hash of its own version.
Matches(r, d) == r.fp = Hash(r.ver, d)

\* An older release keyed its rows on the legacy key and kept them by the same rules.
ASSUME LegacyRowsAssumption ==
  /\ IsFiniteSet(LegacyRows)
  /\ \A r \in LegacyRows :
       /\ r \in Row /\ r.key \notin Servers /\ r.seen = 0
       /\ r.id <= Cardinality(LegacyRows) /\ \E d \in Defs : Matches(r, d)
  /\ \A r, q \in LegacyRows :
       /\ r.id = q.id => r = q
       /\ r.key = q.key /\ r.tool = q.tool /\ r # q =>
            \A d \in Defs : ~(Matches(r, d) /\ Matches(q, d))

\* What some of the properties depend on: one proxy of a server runs at a time, a
\* response names a tool once, version 3 of the hash covers all that makes a
\* definition, and no two servers had one key before schema v7.
OneProxyEach == \A m, n \in Sessions : ServerOf[m] = ServerOf[n] => m = n
NamedOnce    == \A l \in Lists : \A i, j \in DOMAIN l : l[i][1] = l[j][1] => i = j
HashCovers   == \A d, e \in Defs : Hash(3, d) = Hash(3, e) => d = e
OwnLegacyKey == \A s, u \in Servers : LegacyKey[s] = LegacyKey[u] => s = u

VARIABLES
  rows,     \* the table: records [id, key, tool, fp, ver, seen]
  nextId,   \* AUTOINCREMENT
  clock,    \* wall clock, in responses observed
  stamp,    \* per session, when its current response was read
  todo,     \* per session, the tools of that response not yet recorded
  owed,     \* per session, the change found and not yet written as an event
  log,      \* every observation recorded, in order, with its outcome
  alerts,   \* the fingerprint_change events in security_events
  mishaps

vars == <<rows, nextId, clock, stamp, todo, owed, log, alerts, mishaps>>

Nothing == [out |-> "none"]

Init ==
  /\ rows = LegacyRows
  /\ nextId = Cardinality(LegacyRows) + 1
  /\ clock = 1
  /\ stamp = [n \in Sessions |-> 0]
  /\ todo = [n \in Sessions |-> <<>>]
  /\ owed = [n \in Sessions |-> Nothing]
  /\ log = <<>> /\ alerts = <<>>
  /\ mishaps = 0

-----------------------------------------------------------------------------
(* record_fingerprint_txn.                                                 *)

History(R, k, t) == {r \in R : r.key = k /\ r.tool = t}

\* fingerprint_history's order: latest seen first, then latest inserted.
Latest(H) ==
  CHOOSE r \in H : \A q \in H : q.seen < r.seen \/ (q.seen = r.seen /\ q.id <= r.id)

\* Mutated form: the baseline of older releases is not looked for.
Rekeyed_Never(R, s, t) == R

\* An identity without history for this tool takes over its whole pre-v7 history.
Rekeyed(R, s, t) ==
  IF History(R, s, t) = {} /\ s # LegacyKey[s] /\ History(R, LegacyKey[s], t) # {}
    THEN {IF r.key = LegacyKey[s] THEN [r EXCEPT !.key = s] ELSE r : r \in R}
    ELSE R

Matching(H, d) == {r \in H : Matches(r, d)}

\* Mutated forms: membership instead of recency; only the latest row is compared.
Outcome_Membership(H, d) ==
  IF H = {} THEN "New" ELSE IF Matching(H, d) = {} THEN "Changed" ELSE "Unchanged"
Candidates_LatestOnly(H, d) == Matching(IF H = {} THEN {} ELSE {Latest(H)}, d)

Candidates(H, d) == Matching(H, d)

Outcome(H, d) ==
  CASE H = {} -> "New"
    [] H # {} /\ Candidates(H, d) = {} -> "Changed"
    [] Candidates(H, d) # {} /\ Matches(Latest(H), d) -> "Unchanged"
    [] Candidates(H, d) # {} /\ ~Matches(Latest(H), d) -> "Reverted"

\* touch_fingerprint: refreshed, and re-pinned to the current version.
Touched(r, d, ts) ==
  IF r.ver < 3 THEN [r EXCEPT !.seen = ts, !.fp = Hash(3, d), !.ver = 3]
               ELSE [r EXCEPT !.seen = ts]

NewRow(id, s, t, d, ts) ==
  [id |-> id, key |-> s, tool |-> t, fp |-> Hash(3, d), ver |-> 3, seen |-> ts]

\* The table after the transaction has classified d as seen at ts.
Recorded(R, id, s, t, d, ts) ==
  LET M == Candidates(History(R, s, t), d) IN
    IF M = {}
      THEN R \cup {NewRow(id, s, t, d, ts)}
      ELSE (R \ {Latest(M)}) \cup {Touched(Latest(M), d, ts)}

\* UNIQUE (server_key, tool_name, fingerprint).
UniqueIndex(R) ==
  \A r, q \in R : r.key = q.key /\ r.tool = q.tool /\ r.fp = q.fp => r.id = q.id

-----------------------------------------------------------------------------
(* record_fingerprints, tool by tool, between the pump that reads a response *)
(* and the events it gives rise to.                                          *)

\* Mutated form: an oscillation raises no event.
Alarming_ChangedOnly(out) == out = "Changed"

Alarming(out) == out \in {"Changed", "Reverted"}

\* A pump reads a tools/list response and stamps it.
Observe(n) ==
  /\ todo[n] = <<>> /\ owed[n] = Nothing
  /\ clock <= MaxLists
  /\ \E l \in Lists : todo' = [todo EXCEPT ![n] = l]
  /\ stamp' = [stamp EXCEPT ![n] = clock]
  /\ clock' = clock + 1
  /\ UNCHANGED <<rows, nextId, owed, log, alerts, mishaps>>

\* One tool of the response: a transaction, rolled back if it breaks the index.
Record(n) ==
  /\ todo[n] # <<>> /\ owed[n] = Nothing
  /\ LET s == ServerOf[n]
         t == Head(todo[n])[1]
         d == Head(todo[n])[2]
         R == Rekeyed(rows, s, t)
         after == Recorded(R, nextId, s, t, d, stamp[n])
         commits == UniqueIndex(R) /\ UniqueIndex(after)
         inserts == Candidates(History(R, s, t), d) = {}
         entry == [s |-> s, t |-> t, d |-> d, ts |-> stamp[n],
                   out |-> IF commits THEN Outcome(History(R, s, t), d) ELSE "Error"]
     IN /\ rows' = IF commits THEN after ELSE rows
        /\ nextId' = IF commits /\ inserts THEN nextId + 1 ELSE nextId
        /\ log' = Append(log, entry)
        /\ owed' = [owed EXCEPT ![n] = IF Alarming(entry.out) THEN entry ELSE Nothing]
  /\ todo' = [todo EXCEPT ![n] = Tail(@)]
  /\ UNCHANGED <<clock, stamp, alerts, mishaps>>

\* insert_security_event.
Alert(n) ==
  /\ owed[n] # Nothing
  /\ alerts' = Append(alerts, owed[n])
  /\ owed' = [owed EXCEPT ![n] = Nothing]
  /\ UNCHANGED <<rows, nextId, clock, stamp, todo, log, mishaps>>

\* BEGIN IMMEDIATE gives up after busy_timeout, or another statement fails: the
\* tool is logged and skipped; an event that cannot be inserted is skipped too.
Fail(n) ==
  /\ mishaps < MaxMishaps
  /\ mishaps' = mishaps + 1
  /\ \/ /\ todo[n] # <<>> /\ owed[n] = Nothing
        /\ todo' = [todo EXCEPT ![n] = Tail(@)]
        /\ UNCHANGED owed
     \/ /\ owed[n] # Nothing
        /\ owed' = [owed EXCEPT ![n] = Nothing]
        /\ UNCHANGED todo
  /\ UNCHANGED <<rows, nextId, clock, stamp, log, alerts>>

\* The process dies; the session slot is a later run of the same server.
Crash(n) ==
  /\ mishaps < MaxMishaps
  /\ mishaps' = mishaps + 1
  /\ todo' = [todo EXCEPT ![n] = <<>>]
  /\ owed' = [owed EXCEPT ![n] = Nothing]
  /\ UNCHANGED <<rows, nextId, clock, stamp, log, alerts>>

Next == \E n \in Sessions : Observe(n) \/ Record(n) \/ Alert(n) \/ Fail(n) \/ Crash(n)

Spec == Init /\ [][Next]_vars
-----------------------------------------------------------------------------

\* Every row is of the table's shape and pins a definition, and every id is taken
\* once: a row that is refreshed replaces itself.
TypeOK ==
  /\ nextId \in Nat /\ clock \in Nat
  /\ \A r \in rows : r \in Row /\ r.id < nextId /\ r.seen < clock /\ \E d \in Defs : Matches(r, d)
  /\ \A r, q \in rows : r.id = q.id => r = q
  /\ stamp \in [Sessions -> 0 .. clock - 1]
  /\ todo \in [Sessions -> Seq(Tools \X Defs)]

\* Re-keying a baseline, re-pinning a row and inserting one never meet a row that
\* the UNIQUE index holds against them, so no transaction is ever rolled back
\* and fingerprinting never goes silent.
NeverRejected == \A k \in DOMAIN log : log[k].out # "Error"

\* A definition is never claimed by two rows of one tool, whatever mixture of
\* hash versions they are recorded under: its verdict cannot depend on the order
\* in which rows are compared.
OneMatch ==
  \A r, q \in rows :
    r.key = q.key /\ r.tool = q.tool /\ r.id # q.id =>
      \A d \in Defs : ~(Matches(r, d) /\ Matches(q, d))

\* What was recorded of the same tool of the same server before entry k, and the
\* most recently observed of it.
Before(k) == {j \in 1 .. (k - 1) : log[j].s = log[k].s /\ log[j].t = log[k].t}
Newest(J) == CHOOSE j \in J : \A i \in J : log[i].ts <= log[j].ts

\* Recency, not membership: an observation is Unchanged exactly if it repeats the
\* most recent one, so a tool that flips between two definitions is caught each
\* way and one that does not flip raises nothing.
VerdictsAreTrue ==
  \A k \in DOMAIN log :
    Before(k) # {} =>
      (log[k].out = "Unchanged" <=> log[k].d = log[Newest(Before(k))].d)

\* Upgrading does not reset a baseline: a tool for which the pre-v7 table has a
\* row is never New, and the definition pinned there is not an alert.
BaselineKept ==
  \A k \in DOMAIN log :
    LET H == History(LegacyRows, LegacyKey[log[k].s], log[k].t) IN
      H # {} /\ Before(k) = {} =>
        /\ log[k].out # "New"
        /\ log[k].out = "Unchanged" <=> Matches(Latest(H), log[k].d)

Changes == {k \in DOMAIN log : log[k].out \in {"Changed", "Reverted"}}
Pending == {n \in Sessions : owed[n] # Nothing}

\* Every change becomes one alert, except those a crash or a failed insert came
\* in between.
AlertsAccountedFor ==
  /\ Cardinality(Changes) >= Len(alerts) + Cardinality(Pending)
  /\ Cardinality(Changes) <= Len(alerts) + Cardinality(Pending) + mishaps
  /\ \A j \in DOMAIN alerts : \E k \in Changes : alerts[j] = log[k]

\* The alerts of a session are the changes there have been and no others: a change is
\* seen exactly when the tool differs from its last observation, and is raised once.
AlertsAreTrue == VerdictsAreTrue /\ AlertsAccountedFor

\* docs/security-model.md: a rewritten definition "raises a fingerprint_change
\* event". Once a session is idle, the changes it recorded have their events.
ChangesAreAlerted ==
  \A k \in Changes :
    (\A n \in Sessions : owed[n] # log[k]) => \E j \in DOMAIN alerts : alerts[j] = log[k]
=============================================================================
