----------------------------- MODULE ClientEntry -----------------------------
(***************************************************************************)
(* The pure transforms of crates/cli/src/clients.rs: what attach makes of  *)
(* one server entry of a client's configuration file, what detach makes of *)
(* it, and which route of gateway.toml (crates/cli/src/gateway_config.rs)  *)
(* a remote server gets.                                                   *)
(*                                                                         *)
(* An entry is a record of its three keys that matter; every other key is  *)
(* left alone by both commands.  Words are strings; a URL is an upstream   *)
(* or one of the gateway's own, and a route is a sanitized server name     *)
(* with a number: 1 is the bare name, n > 1 is `<name>~n`, which no name   *)
(* sanitizes to, since `~` becomes `-`.                                    *)
(***************************************************************************)
EXTENDS Naturals, Sequences

CONSTANTS
  Upstreams, \* URLs of remote servers
  Names,     \* server names
  Sanitize,  \* a name's path-safe form
  Ports,     \* ports the gateway may be given
  MaxRoutes, \* bound: routes with the same sanitized name
  None,      \* a key that is absent, a route that is not recorded
  NotAnArray \* `args` of a shape attach does not understand

Bases       == {Sanitize[n] : n \in Names}
Routes      == Bases \X (1..MaxRoutes)
GatewayUrls == [port : Ports, route : Routes]
Urls        == Upstreams \cup GatewayUrls

Self == "mcpglass"
OurWords == {Self, "wrap", "--name", "--"}

\* Words are strings; what stands for a missing key or route is neither a word, nor a
\* list of them, nor a URL.
ASSUME ClientEntryAssumption ==
  /\ MaxRoutes \in Nat
  /\ Names \cup OurWords \subseteq STRING /\ Sanitize \in [Names -> STRING]
  /\ Upstreams \cap GatewayUrls = {}
  /\ None \notin Urls \cup STRING \cup Seq(STRING)
  /\ NotAnArray \notin Seq(STRING)

\* gateway.toml: the URL a route stands for.
Tables   == [Routes -> Urls \cup {None}]
NoRoutes == [r \in Routes |-> None]

Entries == [command : {None} \cup STRING, args : {None, NotAnArray} \cup Seq(STRING),
            url : {None} \cup Urls]
Nothing == [command |-> None, args |-> None, url |-> None]

\* A `command` decides before a `url` does.
IsStdio(e)  == e.command # None
IsRemote(e) == e.command = None /\ e.url # None
\* Mutant: only a URL with the gateway's present port is known for ours.
IsOurs_PortMatters(e) ==
  \/ IsStdio(e) /\ e.command = Self
  \/ IsRemote(e) /\ e.url \in [port : {CHOOSE p \in Ports : TRUE}, route : Routes]
IsOurs(e)   == \/ IsStdio(e) /\ e.command = Self
               \/ IsRemote(e) /\ e.url \in GatewayUrls

ToWrap(e)  == IsStdio(e) /\ ~IsOurs(e) /\ e.args # NotAnArray
ToRoute(e) == IsRemote(e) /\ ~IsOurs(e)

ArgsOf(e) == IF e.args = None THEN <<>> ELSE e.args
Wrapped(name, e) ==
  [e EXCEPT !.command = Self,
            !.args = <<"wrap", "--name", name, "--", e.command>> \o ArgsOf(e)]

\* The arguments of a wrap: up to the first "--" ours, then the user's.
Separators(args) == {i \in DOMAIN args : args[i] = "--"}
FirstOf(S)       == CHOOSE i \in S : \A j \in S : i <= j
IsWrap(args) ==
  /\ args \notin {None, NotAnArray}
  /\ Len(args) > 0 /\ args[1] = "wrap"
  /\ Separators(args) # {}
  /\ FirstOf(Separators(args)) < Len(args)
Unwrapped(e) ==
  LET sep == FirstOf(Separators(e.args))
  IN  [e EXCEPT !.command = e.args[sep + 1],
                !.args = IF sep + 1 = Len(e.args) THEN None
                         ELSE SubSeq(e.args, sep + 2, Len(e.args))]

FreeOrSame(t, r, url) == t[r] \in {None, url}
HasRoute(t, base, url) == \E n \in 1..MaxRoutes : FreeOrSame(t, <<base, n>>, url)
\* Mutant: every server of a name gets the bare name.
AllocateRoute_Bare(t, base, url) == <<base, 1>>
\* Mutant: the first free route; one that holds the URL already is not looked for.
AllocateRoute_Fresh(t, base, url) ==
  LET free == {n \in 1..MaxRoutes : t[<<base, n>>] = None}
  IN  <<base, IF free = {} THEN 1 ELSE FirstOf(free)>>
\* The first of `<base>`, `<base>~2`, ... that is free or already this URL's.
AllocateRoute(t, base, url) ==
  <<base, CHOOSE n \in 1..MaxRoutes :
            /\ FreeOrSame(t, <<base, n>>, url)
            /\ \A m \in 1..(n - 1) : ~FreeOrSame(t, <<base, m>>, url)>>
Routed(e, port, r) == [e EXCEPT !.url = [port |-> port, route |-> r]]

\* What detach makes of an entry when t is what it loaded.
Detached(e, t) ==
  IF IsStdio(e) THEN IF IsOurs(e) /\ IsWrap(e.args) THEN Unwrapped(e) ELSE e
  ELSE IF IsRemote(e) /\ IsOurs(e) /\ t[e.url.route] # None
  THEN [e EXCEPT !.url = t[e.url.route]]
  ELSE e
=============================================================================
