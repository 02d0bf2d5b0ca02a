----------------------------- MODULE AttachDetach -----------------------------
(***************************************************************************)
(* `mcpglass attach` and `mcpglass detach` (crates/cli/src/clients.rs),    *)
(* gateway.toml (crates/cli/src/gateway_config.rs) and the gateway that    *)
(* reads it at start-up: several commands over the same files, each killed *)
(* at any step or failing at any write.                                    *)
(*                                                                         *)
(* A place is one `mcpServers` entry: a file, a scope in it (its top level *)
(* or a project) and a name.  A write is a temporary file and a rename, so *)
(* it happens or it does not.                                              *)
(***************************************************************************)
EXTENDS ClientEntry, FiniteSets

CONSTANTS
  Cmds,        \* commands that may run at a time
  Files,       \* client configuration files
  Places,      \* where entries are: [file, scope, name]
  UserEntries, \* what a user may write into a place
  CanDamage    \* TRUE: gateway.toml may become unreadable

All  == "all"
Jobs == [op : {"attach", "detach"}, dry : BOOLEAN, port : Ports,
         target : Files \cup {All}]
NoJob == [op |-> "attach", dry |-> FALSE, port |-> None, target |-> All]

\* An entry of the user's names a server, not this program or its gateway, and has no
\* `args` rather than an empty one, which detach would leave out.
ASSUME AttachDetachAssumption ==
  /\ \A p \in Places : p.file \in Files /\ p.name \in Names \ {"--"}
  /\ Nothing \in UserEntries /\ All \notin Files
  /\ \A e \in UserEntries : e \in Entries /\ ~IsOurs(e) /\ e.args # <<>>
  /\ CanDamage \in BOOLEAN

VARIABLES
  disk,    \* the entry at each place of the client files
  health,  \* of each file: there and readable, missing, not JSON
  mine,    \* what the user last wrote at each place
  backed,  \* places whose `mine` is in some backup
  table,   \* what gateway.toml records
  damaged, \* gateway.toml cannot be read
  gw,      \* the routes the running gateway loaded
  pc, job, \* of each command: its phase and what it was asked
  todo,    \* files it has not yet read
  left,    \* entries of the file in hand it has not yet transformed
  plan,    \* the entries it means to write
  changed, \* files it means to write
  mem,     \* its copy of the table
  grown,   \* it added a route to it
  failed   \* it has met what makes its exit code 1

fileVars == <<disk, health, mine, backed>>
tableVars == <<table, damaged>>
planVars == <<todo, left, plan, changed, mem, grown>>
cmdVars  == <<pc, job, planVars, failed>>
vars     == <<fileVars, tableVars, gw, cmdVars>>

In(f)  == {p \in Places : p.file = f}
Loaded == IF damaged THEN NoRoutes ELSE table \* load_or_default

Init ==
  /\ disk \in [Places -> UserEntries] /\ mine = disk
  /\ health \in [Files -> {"ok", "missing", "garbled"}]
  /\ \A p \in Places : health[p.file] # "ok" => disk[p] = Nothing
  /\ backed = {} /\ table = NoRoutes /\ damaged = FALSE /\ gw = NoRoutes
  /\ pc = [c \in Cmds |-> "idle"] /\ job = [c \in Cmds |-> NoJob]
  /\ todo = [c \in Cmds |-> {}] /\ left = [c \in Cmds |-> {}]
  /\ plan = [c \in Cmds |-> [p \in Places |-> Nothing]]
  /\ changed = [c \in Cmds |-> {}] /\ mem = [c \in Cmds |-> NoRoutes]
  /\ grown = [c \in Cmds |-> FALSE] /\ failed = [c \in Cmds |-> FALSE]

-----------------------------------------------------------------------------
(* A command: `run` in clients.rs.                                         *)

Start(c, j) ==
  /\ pc[c] = "idle"
  /\ pc' = [pc EXCEPT ![c] = "transform"] /\ job' = [job EXCEPT ![c] = j]
  /\ todo' = [todo EXCEPT ![c] = IF j.target = All THEN Files ELSE {j.target}]
  /\ mem' = [mem EXCEPT ![c] = Loaded]
  /\ UNCHANGED <<fileVars, tableVars, gw, left, plan, changed, grown, failed>>

\* Phase 1: a file that is missing or not JSON has nothing to write.  Not
\* being JSON counts against a command that names the file.
ReadFile(c, f) ==
  /\ pc[c] = "transform" /\ left[c] = {} /\ f \in todo[c]
  /\ todo' = [todo EXCEPT ![c] = @ \ {f}]
  /\ left' = [left EXCEPT ![c] = {p \in In(f) : disk[p] # Nothing}]
  /\ plan' = [plan EXCEPT ![c] = [p \in Places |->
                IF p \in In(f) /\ health[f] = "ok" THEN disk[p] ELSE @[p]]]
  /\ failed' = [failed EXCEPT ![c] = @ \/ (health[f] = "garbled" /\ job[c].target # All)]
  /\ UNCHANGED <<fileVars, tableVars, gw, pc, job, changed, mem, grown>>

Entry(c, p) ==
  /\ pc[c] = "transform" /\ p \in left[c]
  /\ left' = [left EXCEPT ![c] = @ \ {p}]
  /\ UNCHANGED <<fileVars, tableVars, gw, pc, job, todo, failed>>

PlanFor(c, p, e) ==
  /\ plan' = [plan EXCEPT ![c][p] = e]
  /\ changed' = [changed EXCEPT ![c] = @ \cup {p.file}]

AttachStdioEntry(c, p) ==
  /\ Entry(c, p) /\ job[c].op = "attach" /\ ToWrap(plan[c][p])
  /\ PlanFor(c, p, Wrapped(p.name, plan[c][p]))
  /\ UNCHANGED <<mem, grown>>

AttachUrlEntry(c, p) ==
  LET e == plan[c][p]
      r == AllocateRoute(mem[c], Sanitize[p.name], e.url)
  IN  /\ Entry(c, p) /\ job[c].op = "attach" /\ ToRoute(e)
      /\ HasRoute(mem[c], Sanitize[p.name], e.url)
      /\ mem' = [mem EXCEPT ![c][r] = e.url]
      /\ grown' = [grown EXCEPT ![c] = @ \/ mem[c][r] # e.url]
      /\ PlanFor(c, p, Routed(e, job[c].port, r))

DetachEntry(c, p) ==
  LET e == plan[c][p]
  IN  /\ Entry(c, p) /\ job[c].op = "detach" /\ Detached(e, mem[c]) # e
      /\ PlanFor(c, p, Detached(e, mem[c]))
      /\ UNCHANGED <<mem, grown>>

SkipEntry(c, p) ==
  LET e == plan[c][p]
  IN  /\ Entry(c, p)
      /\ IF job[c].op = "attach" THEN ~ToWrap(e) /\ ~ToRoute(e)
                                 ELSE Detached(e, mem[c]) = e
      /\ UNCHANGED <<plan, changed, mem, grown>>

\* Phase 2: the table is written before any client file.
Transformed(c) == pc[c] = "transform" /\ todo[c] = {} /\ left[c] = {}

NothingToSave(c) ==
  /\ Transformed(c) /\ (job[c].dry \/ ~grown[c])
  /\ pc' = [pc EXCEPT ![c] = "commit"]
  /\ UNCHANGED <<fileVars, tableVars, gw, job, planVars, failed>>

\* Mutant: the table is left for later, the client files are written first.
Save_Late(c) ==
  /\ Transformed(c) /\ ~job[c].dry /\ grown[c]
  /\ pc' = [pc EXCEPT ![c] = "commit"]
  /\ UNCHANGED <<fileVars, tableVars, gw, job, planVars, failed>>
Save(c) ==
  /\ Transformed(c) /\ ~job[c].dry /\ grown[c]
  /\ table' = mem[c] /\ damaged' = FALSE
  /\ pc' = [pc EXCEPT ![c] = "commit"]
  /\ UNCHANGED <<fileVars, gw, job, planVars, failed>>

\* What a command leaves behind in memory is gone.
Ended(c) ==
  /\ pc' = [pc EXCEPT ![c] = "idle"] /\ job' = [job EXCEPT ![c] = NoJob]
  /\ todo' = [todo EXCEPT ![c] = {}] /\ left' = [left EXCEPT ![c] = {}]
  /\ plan' = [plan EXCEPT ![c] = [p \in Places |-> Nothing]]
  /\ changed' = [changed EXCEPT ![c] = {}] /\ mem' = [mem EXCEPT ![c] = NoRoutes]
  /\ grown' = [grown EXCEPT ![c] = FALSE] /\ failed' = [failed EXCEPT ![c] = FALSE]
  /\ UNCHANGED gw

SaveFails(c) ==
  /\ Transformed(c) /\ ~job[c].dry /\ grown[c]
  /\ Ended(c) /\ UNCHANGED <<fileVars, tableVars>>

\* Phase 3: each changed file is copied aside and replaced by what was planned.
\* Mutant: no backup is made.
BackUp_Not(f) == UNCHANGED backed
BackUp(f) == backed' = backed \cup {p \in In(f) : disk[p] = mine[p]}

CommitFile(c, f) ==
  /\ pc[c] = "commit" /\ ~job[c].dry /\ f \in changed[c]
  /\ changed' = [changed EXCEPT ![c] = @ \ {f}]
  /\ BackUp(f)
  /\ disk' = [p \in Places |-> IF p \in In(f) THEN plan[c][p] ELSE disk[p]]
  /\ UNCHANGED <<health, mine, tableVars, gw, pc, job, todo, left, plan, mem, grown, failed>>

\* Mutant: a write error is printed and forgotten.
CommitFails_Quiet(c, f) ==
  /\ pc[c] = "commit" /\ ~job[c].dry /\ f \in changed[c]
  /\ changed' = [changed EXCEPT ![c] = @ \ {f}]
  /\ BackUp(f) \/ UNCHANGED backed
  /\ UNCHANGED <<disk, health, mine, tableVars, gw, pc, job, todo, left, plan, mem, grown, failed>>
CommitFails(c, f) ==
  /\ pc[c] = "commit" /\ ~job[c].dry /\ f \in changed[c]
  /\ changed' = [changed EXCEPT ![c] = @ \ {f}]
  /\ failed' = [failed EXCEPT ![c] = TRUE]
  /\ BackUp(f) \/ UNCHANGED backed
  /\ UNCHANGED <<disk, health, mine, tableVars, gw, pc, job, todo, left, plan, mem, grown>>

Done(c) == pc[c] = "commit" /\ (job[c].dry \/ changed[c] = {})
Exit(c) == Done(c) /\ Ended(c) /\ UNCHANGED <<fileVars, tableVars>>
Kill(c) == pc[c] # "idle" /\ Ended(c) /\ UNCHANGED <<fileVars, tableVars>>

-----------------------------------------------------------------------------
(* Around the commands.                                                    *)

\* The user, or the client itself, writes an entry while no command runs.
UserWrites(p, e) ==
  /\ \A c \in Cmds : pc[c] = "idle"
  /\ health[p.file] = "ok"
  /\ disk' = [disk EXCEPT ![p] = e] /\ mine' = [mine EXCEPT ![p] = e]
  /\ backed' = backed \ {p}
  /\ UNCHANGED <<health, tableVars, gw, cmdVars>>

Damage ==
  /\ CanDamage /\ damaged' = TRUE
  /\ UNCHANGED <<fileVars, table, gw, cmdVars>>

\* `gateway` without --upstream: the table is read once, when it starts.
GatewayStarts == gw' = Loaded /\ UNCHANGED <<fileVars, tableVars, cmdVars>>

Next ==
  \/ \E c \in Cmds :
       \/ \E j \in Jobs : Start(c, j)
       \/ \E f \in Files : ReadFile(c, f) \/ CommitFile(c, f) \/ CommitFails(c, f)
       \/ \E p \in Places : \/ AttachStdioEntry(c, p) \/ AttachUrlEntry(c, p)
                            \/ DetachEntry(c, p) \/ SkipEntry(c, p)
       \/ NothingToSave(c) \/ Save(c) \/ SaveFails(c) \/ Exit(c) \/ Kill(c)
  \/ \E p \in Places, e \in UserEntries : UserWrites(p, e)
  \/ Damage \/ GatewayStarts

Spec == Init /\ [][Next]_vars

-----------------------------------------------------------------------------
(* Properties.                                                             *)

\* At every moment, also between the writes of a command, after a failed write
\* or a kill: what gateway.toml and a client file say together lets detach give
\* back exactly the entry the user wrote (clients.rs: "and precisely restore
\* them"; the table is saved before any client file is touched).
Restorable == \A p \in Places : Detached(disk[p], table) = mine[p]

\* A client pointed at the gateway reaches the server its user chose or none: a
\* gateway that read the table some commands ago answers 404 for a route it does
\* not know, and never forwards to another server's upstream.
ForwardsHome ==
  \A p \in Places : IsRemote(disk[p]) /\ IsOurs(disk[p]) =>
    gw[disk[p].url.route] \in {None, mine[p].url}

\* However often attach is retried, detached and attached again, an upstream has
\* one route per name, so gateway.toml grows with the servers and not the runs.
OneRoutePerUpstream ==
  \A r, s \in Routes : r[1] = s[1] /\ table[r] = table[s] /\ table[r] # None => r = s

\* An attach that ends with exit code 0 leaves nothing to attach in the files it
\* was given and could read: a write that failed shows in the exit code.
ExitMeansDone ==
  \A c \in Cmds : Done(c) /\ job[c].op = "attach" /\ ~job[c].dry /\ ~failed[c] =>
    \A p \in Places : p.file = job[c].target \/ job[c].target = All =>
      ~ToWrap(disk[p]) /\ ~ToRoute(disk[p])

\* Whatever overlaps, and whatever becomes of gateway.toml: an entry detach
\* would not restore is in a backup (clients.rs: "The backup is the safety net").
Recoverable ==
  \A p \in Places : Detached(disk[p], table) = mine[p] \/ p \in backed

\* A route, once recorded, keeps its URL: a gateway started at any time and a
\* client file attached at any time mean the same server by it.
RoutesKept ==
  [][\A r \in Routes : table[r] # None => table'[r] = table[r]]_vars
=============================================================================
