------------------------------ MODULE MCGateway ------------------------------
(* Gateway with small requests and configurations; and, in another world, two *)
(* runs of a proxy from one seed (SeededRuns), for the decisions the gateway  *)
(* takes from Injector.                                                       *)
EXTENDS Gateway, SeededRuns, TLC

VARIABLE world

ASSUME HandshakesApply == OneClient
ASSUME SeedsApply == OneDirectionDraws

Body(m, t, s, size, asks) ==
  [method |-> m, tool |-> t, secrets |-> s, size |-> size, asks |-> asks]

List      == Body("tools/list", Unnamed, 0, "fits", TRUE)
Handshake == Body("initialize", Unnamed, 0, "fits", TRUE)
SafeCall  == Body("call", "safe", 0, "fits", TRUE)
DeniedCall == Body("call", "rm", 1, "fits", TRUE)       \* raises two events
BareCall  == Body("call", Unnamed, 0, "fits", FALSE)    \* no name and no id
LeakyCall == Body("call", "safe", 1, "fits", TRUE)
Oversized == Body("call", "safe", 0, "over", TRUE)
Colossal  == Body("call", "safe", 0, "huge", TRUE)

AnyMethod == Methods
Rule(dir, ms, certain, max, fault) ==
  [dir |-> dir, methods |-> ms, certain |-> certain, max |-> max, fault |-> fault]
Lists(mode) == [mode |-> mode, allow |-> {"safe", "rm"}, deny |-> <<{"rm"}>>, scan |-> TRUE]

\* Observing: handshakes, tool lists and what monitor mode lets pass.
Quiet == [policy |-> Lists("monitor"), rules |-> <<>>, record |-> TRUE,
          posts |-> {List, Handshake}, opens |-> TRUE]
\* Refusing, unrecorded, with faults for the calls that pass.
Gated == [policy |-> Lists("enforce"), record |-> FALSE,
          rules |-> <<Rule("c2s", {"call"}, FALSE, {1}, "delay"),
                      Rule("c2s", {"call"}, TRUE, {1}, "truncate")>>,
          posts |-> {SafeCall, BareCall, LeakyCall, DeniedCall, Oversized, Colossal},
          opens |-> FALSE]
\* Flagging, with faults in both directions.
Faulty == [policy |-> Lists("monitor"), record |-> TRUE,
           rules |-> <<Rule("c2s", {"call"}, TRUE, {1}, "error"),
                       Rule("c2s", AnyMethod, FALSE, {}, "drop"),
                       Rule("s2c", AnyMethod, FALSE, {1}, "delay"),
                       Rule("s2c", AnyMethod, TRUE, {1}, "drop")>>,
           posts |-> {LeakyCall, Oversized}, opens |-> FALSE]

\* Flagging without faults.
Plain == [policy |-> Lists("monitor"), rules |-> <<>>, record |-> TRUE,
          posts |-> {List, LeakyCall}, opens |-> FALSE]

Swaps == Permutations(Handlers)

OnlyPlain == {Plain}
AllSetups == {Quiet, Gated, Faulty}
-----------------------------------------------------------------------------

\* Probabilities in halves, one of them out of range.
SeedRules(dirs, probs) ==
  [dir : dirs, methods : {{"call"}, {"call", "none"}}, prob : probs, max : {{}, {1}},
   fault : {"drop"}]

MCTraffic == [Dirs -> {<<"call", "none">>, <<"call", "call">>}]

\* The rules of one direction are certain.
OneDraws ==
  {<<a, b>> : a \in SeedRules({"c2s"}, {0, 1, 2, 3}), b \in SeedRules({"s2c"}, {2})} \cup
  {<<a, b, c>> : a \in {r \in SeedRules({"s2c"}, {2}) : r.max = {1}}, b \in SeedRules({"c2s"}, {1, 2}),
                 c \in {r \in SeedRules({"c2s"}, {0, 1}) : r.max = {}}}

\* Rules of both draw.
BothDraw == {<<a, b>> : a \in SeedRules({"c2s"}, {1}), b \in SeedRules({"s2c"}, {1})}

-----------------------------------------------------------------------------
(* The worlds: in each of them the other's variables keep one value.        *)

NoSeed ==
  /\ rules = <<>> /\ draws = <<>> /\ traffic = NoFaults
  /\ fired = <<>> /\ drawn = 0 /\ faults = NoFaults /\ before = <<>>

MCInit ==
  \/ world = "gateway" /\ Init /\ NoSeed
  \/ world = "seeded" /\ SeedInit /\ setup = Quiet /\ Init

MCNext ==
  \/ world = "gateway" /\ Next /\ UNCHANGED <<world, seedVars>>
  \/ world = "seeded" /\ SeedNext /\ UNCHANGED <<world, vars>>

MCSpec == MCInit /\ [][MCNext]_<<world, vars, seedVars>>
=============================================================================
