------------------------------ MODULE SeededRuns ------------------------------
(***************************************************************************)
(* Two runs of a proxy over one inject file with a seed                    *)
(* (crates/policy/src/inject.rs, inject_decide in crates/cli/src/main.rs): *)
(* the same frames travel in each direction, and the two pumps may ask the *)
(* shared Injector in another order.                                       *)
(*                                                                         *)
(* The random stream is a sequence of draws, the same from the same seed;  *)
(* a draw and a probability are in units of 1/Levels.  A rule is as in     *)
(* Injector, with prob in place of certain.                                *)
(***************************************************************************)
EXTENDS Injector, Integers, FiniteSets, FiniteSetsExt

CONSTANTS
  Files,     \* the rules an inject file may hold
  Traffic,   \* the methods of the frames of each direction, in order
  Levels     \* the probability that is certain

Dirs == {"c2s", "s2c"}

ASSUME SeededRunsAssumption ==
  /\ Levels \in Nat \ {0}
  /\ Files \subseteq Seq([dir : Dirs, methods : SUBSET STRING, prob : Int,
                          max : SUBSET Nat, fault : Fault])
  /\ Traffic \subseteq [Dirs -> Seq(STRING)]

VARIABLES
  rules, draws, traffic,
  fired,    \* Injector::counts of the run
  drawn,    \* how much of the stream it has used
  faults,   \* the rule that fired for each frame of a direction, or NoHit
  before    \* the faults of the run before, <<>> in the first

fixed == <<rules, draws, traffic>>
seedVars == <<fixed, fired, drawn, faults, before>>

Certain(rule) == rule.prob = Levels

\* from_toml_str: any other probability stops the proxy before it starts.
Valid(file) == \A i \in DOMAIN file : file[i].prob \in 0..Levels

\* A rule draws at most once for a frame of its direction.
MostDraws(file, t) == MapThenSumSet(LAMBDA i : Len(t[file[i].dir]), DOMAIN file)

NoFaults == [d \in Dirs |-> <<>>]

SeedInit ==
  /\ rules \in {f \in Files : Valid(f)}
  /\ traffic \in Traffic
  /\ draws \in [1..MostDraws(rules, traffic) -> 0..(Levels - 1)]
  /\ fired = [i \in DOMAIN rules |-> 0]
  /\ drawn = 0 /\ faults = NoFaults /\ before = <<>>

\* Mutated form: every eligible rule draws, the certain ones too.
Drawing_All(eligible) == eligible
\* The eligible rules that draw, should it come to them.
Drawing(eligible) == {i \in eligible : ~Certain(rules[i])}

\* The draw of rule i, when those before it have missed.
Draw(eligible, i) == draws[drawn + Cardinality({j \in Drawing(eligible) : j <= i})]

Fires(eligible, i) == Certain(rules[i]) \/ Draw(eligible, i) < rules[i].prob

\* Mutated form: the last rule that hits.
Chosen_Last(eligible) ==
  LET hits == {i \in eligible : Fires(eligible, i)}
  IN  IF hits = {} THEN NoHit ELSE Max(hits)
Chosen(eligible) ==
  LET hits == {i \in eligible : Fires(eligible, i)}
  IN  IF hits = {} THEN NoHit ELSE Min(hits)

\* decide: the rules behind the one that fires draw nothing.
Decide(dir) ==
  /\ Len(faults[dir]) < Len(traffic[dir])
  /\ LET method   == traffic[dir][Len(faults[dir]) + 1]
         eligible == Eligible(rules, fired, dir, method)
         hit      == Chosen(eligible)
     IN  /\ fired' = Counted(fired, hit)
         /\ drawn' = drawn + Cardinality({i \in Drawing(eligible) : hit = NoHit \/ i <= hit})
         /\ faults' = [faults EXCEPT ![dir] = Append(@, hit)]
  /\ UNCHANGED <<fixed, before>>

\* Injector::new, from the same file.
Again ==
  /\ before = <<>> /\ \A d \in Dirs : Len(faults[d]) = Len(traffic[d])
  /\ before' = faults
  /\ fired' = [i \in DOMAIN rules |-> 0] /\ drawn' = 0 /\ faults' = NoFaults
  /\ UNCHANGED fixed

SeedNext == Again \/ \E d \in Dirs : Decide(d)

SeedSpec == SeedInit /\ [][SeedNext]_seedVars

-----------------------------------------------------------------------------
(* Properties.                                                             *)

\* The rules that draw are of one direction: otherwise the order in which the two
\* pumps come to the lock decides which frame gets which draw.
OneDirectionDraws ==
  \A file \in Files : \E d \in Dirs :
    \A i \in DOMAIN file : Certain(file[i]) \/ file[i].dir = d

\* A seed "fixes the RNG for reproducible runs": the same frames meet the same
\* faults, in whatever order the pumps come to the lock.
SameFaults ==
  before # <<>> => \A d \in Dirs : \A i \in DOMAIN faults[d] : faults[d][i] = before[d][i]

\* What the models of the proxies assume of a decision, whatever is drawn: the
\* first eligible rule that hits, and one more trigger of it.
Abstracted == [i \in DOMAIN rules |->
  [dir |-> rules[i].dir, methods |-> rules[i].methods, max |-> rules[i].max,
   fault |-> rules[i].fault, certain |-> Certain(rules[i])]]

DecisionsAreAllowed == [][\A d \in Dirs : Len(faults'[d]) = Len(faults[d]) + 1 =>
  LET n == Len(faults'[d])
  IN  /\ faults'[d][n] \in Decisions(Abstracted, fired, d, traffic[d][n])
      /\ fired' = Counted(fired, faults'[d][n])]_seedVars

\* A seed makes a run reproducible, and what it reproduces is one of the runs that
\* Injector allows: the decisions the models of the proxy and the gateway choose from.
SeedsReproduce == [][SameFaults']_seedVars /\ DecisionsAreAllowed
=============================================================================
