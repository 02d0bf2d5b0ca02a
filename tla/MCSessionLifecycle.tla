-------------------------- MODULE MCSessionLifecycle --------------------------
(* TLC instances of SessionLifecycle.                                       *)
EXTENDS SessionLifecycle

Button(s) == [kind |-> "delete", id |-> s]
Prune(cutoff, size, dry) ==
  [kind |-> "prune", cutoff |-> cutoff, size |-> size, dry |-> dry]

\* Deletes of one session that two deleters may both hold, a cutoff that falls
\* between two sessions, a target met before the database is empty, one that is not, and
\* both conditions; and dry runs with one condition.
Delete1 == Button(1)
OlderOnly == Prune(2, 0, FALSE)
Size    == Prune(0, 4, FALSE)
Both    == Prune(2, 2, FALSE)
DryOlder == Prune(2, 0, TRUE)
DrySize  == Prune(0, 4, TRUE)
MCJobs == {Delete1, OlderOnly, Size, Both, DryOlder, DrySize}
\* A dry run with both conditions.
MCBothJobs == {Prune(2, 2, TRUE)}
MCButtons == {Button(1)}

\* Bound: which two jobs run at once.  Two that remove the same sessions, both ways
\* round where the faces differ, and each dry run beside one that removes.
Pairs == {<<Delete1, Size>>, <<Delete1, Both>>, <<OlderOnly, Both>>, <<Size, Size>>,
          <<Both, Size>>, <<DryOlder, Size>>, <<DrySize, Size>>, <<Delete1, DryOlder>>,
          <<OlderOnly, DrySize>>}
MCInit == Init /\ <<job["dashboard"], job["cli"]>> \in Pairs
MCSpec == MCInit /\ [][Next]_vars

\* What the theorem on the totals assumes.
ASSUME TotalsApply == IsFiniteSet(Deleters) /\ OneCondition
=============================================================================
