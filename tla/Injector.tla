------------------------------- MODULE Injector -------------------------------
(***************************************************************************)
(* The fault injector (crates/policy/src/inject.rs): rules in file order,  *)
(* a trigger count per rule, a draw for the rules that are not certain.    *)
(* The random stream is abstracted to the choice it makes.                 *)
(*                                                                         *)
(* A rule is [dir, methods, certain, max, fault]: methods is the set of    *)
(* methods its filter accepts, all of them and "none" if it has no filter; *)
(* max is {} or {max_triggers}.                                            *)
(***************************************************************************)
EXTENDS Naturals, Sequences

Fault == {"delay", "error", "drop", "truncate"}

NoHit == 0  \* no rule of this index

\* Mutated form: one trigger too many.
Exhausted_OneMore(rules, counts, i) == \E n \in rules[i].max : counts[i] > n

Exhausted(rules, counts, i) == \E n \in rules[i].max : counts[i] >= n

Eligible(rules, counts, dir, method) ==
  {i \in DOMAIN rules : /\ rules[i].dir = dir /\ method \in rules[i].methods
                        /\ ~Exhausted(rules, counts, i)}

\* decide: the first eligible rule whose draw hits; a certain rule draws nothing.
Decisions(rules, counts, dir, method) ==
  LET rolled == Eligible(rules, counts, dir, method)
      Missed(I) == \A j \in I : ~rules[j].certain
  IN {i \in rolled : Missed({j \in rolled : j < i})}
       \cup (IF Missed(rolled) THEN {NoHit} ELSE {})

\* The counters once rule i has fired, or none has.
Counted(counts, i) == [j \in DOMAIN counts |-> IF j = i THEN counts[j] + 1 ELSE counts[j]]
=============================================================================
