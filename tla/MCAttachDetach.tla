---------------------------- MODULE MCAttachDetach ----------------------------
(* AttachDetach on small sets, in two worlds.  In "alone" one command runs at *)
(* a time over two client files, and gateway.toml stays as it was written; in *)
(* "rough" two commands that write may overlap over one file, with an entry in *)
(* one of two scopes, and gateway.toml may become unreadable.                 *)
EXTENDS AttachDetach, TLC

VARIABLE world

Place(f, scope, name) == [file |-> f, scope |-> scope, name |-> name]
Remote(u) == [Nothing EXCEPT !.url = u]
Stdio(args) == [Nothing EXCEPT !.command = "npx", !.args = args]

\* Two names that sanitize to the same route.
MCNames == {"a b", "a-b"}
MCSanitize == [n \in MCNames |-> "a-b"]
Cursor  == Place("cursor", "top", "a b")
Project == Place("claude", "project", "a b")
MCPlaces == {Cursor, Project, Place("claude", "top", "a-b")}
MCRemotes == {Nothing} \cup {Remote(u) : u \in Upstreams}
\* No arguments at all, some of them like a separator, `args` that is no array,
\* and an entry with a command and a url.
MCShapes == {Nothing, Stdio(None), Stdio(NotAnArray), Stdio(<<"--", "x">>)}
            \cup {[Stdio(None) EXCEPT !.url = u] : u \in Upstreams}
MCEntries == MCShapes \cup MCRemotes

MCSymmetry == Permutations(Cmds) \cup Permutations(Upstreams)

\* Bounds of the worlds.
Alone ==
  /\ \A c, d \in Cmds : c # d => pc[c] = "idle" \/ pc[d] = "idle"
  /\ ~damaged /\ mine[Project] = Nothing /\ mine[Cursor] \in MCRemotes
Rough ==
  /\ gw = NoRoutes
  /\ \A c \in Cmds : /\ ~job[c].dry /\ job[c].port \in {None, 1}
                     /\ pc[c] = "idle" \/ job[c].target # All
  /\ health["cursor"] = "missing"
  /\ \A p \in Places : mine[p] \in MCRemotes
  /\ \A p, q \in Places : p # q => mine[p] = Nothing \/ mine[q] = Nothing

MCInit == Init /\ \/ world = "alone" /\ Alone
                  \/ world = "rough" /\ Rough

MCNext ==
  /\ UNCHANGED world
  /\ \/ world = "alone" /\ Next /\ Alone'
     \/ world = "rough" /\ Next /\ Rough'

MCSpec == MCInit /\ [][MCNext]_<<world, vars>>

\* One command at a time keeps its word: detach restores the entry attach found, an
\* attached entry leads through its route to the server it named, and a command that
\* reports success has done all of its work on every client.
KeepsItsWord == world = "alone" => Restorable /\ ForwardsHome /\ ExitMeansDone

\* A client that is attached can rely on its route: attaching, detaching and retrying
\* neither duplicate a route nor change one that is there.
RoutesStable ==
  /\ [][OneRoutePerUpstream']_vars
  /\ [][world = "alone" /\ table' # table =>
          \A r \in Routes : table[r] # None => table'[r] = table[r]]_vars
=============================================================================
