------------------------ MODULE SessionLifecycleProofs ------------------------
(***************************************************************************)
(* Deletes and prunes leave no orphans, for any number of them beside any  *)
(* number of sessions that are still being recorded, and what they report  *)
(* removed is what they removed.  The argument is what the transaction of  *)
(* the lock's holder will have made of the database at each of its         *)
(* statements, which nobody else changes while it lasts; and, for the      *)
(* reports, that a commit moves its rows from what is held to what was     *)
(* told, as sums over finite sets.                                         *)
(***************************************************************************)
EXTENDS SessionLifecycle, FiniteSetTheorems, WellFoundedInduction, TLAPS

Holding == {"rows", "rows_older", "session", "session_older", "commit", "commit_older"}

\* The tables: sessions begun, and counts of rows for each of them.
Rows(r) ==
  /\ r = [started |-> r.started, messages |-> r.messages, events |-> r.events]
  /\ r.messages \in [Ids -> Nat] /\ r.events \in [Ids -> Nat]

TypeInv ==
  /\ Rows(db)
  /\ pc \in [Deleters -> {"idle", "older", "report_older", "size", "oldest", "exists", "begin",
                        "report", "done", "failed"} \cup Holding]
  /\ doomed = [d \in Deleters |-> doomed[d]]
  /\ lock \in Deleters \cup {"none"}

\* The holder of the lock, and no other, is inside a transaction.
LockInv == \A d \in Deleters : pc[d] \in Holding <=> lock = d

\* How far it has come.
TxInv == \A d \in Deleters :
  /\ pc[d] \in {"rows", "rows_older"} => tx = db
  /\ pc[d] \in {"session", "session_older"} => tx = WithoutRows(db, doomed[d])
  /\ pc[d] \in {"commit", "commit_older"} =>
       tx = WithoutSessions(WithoutRows(db, doomed[d]), doomed[d])

Inv == TypeInv /\ LockInv /\ TxInv /\ NoOrphans

\* A transaction leaves the tables in order.
LEMMA RemovalKeepsOrder ==
  ASSUME Rows(db), NoOrphans, NEW ids,
         db' = WithoutSessions(WithoutRows(db, ids), ids)
  PROVE  Rows(db)' /\ NoOrphans'
  BY DEF Rows, NoOrphans, WithoutRows, WithoutSessions

\* The storage threads write only while nobody holds the lock.
LEMMA WriteStep ==
  ASSUME Inv, Write PROVE Inv'
<1>1. lock = "none" /\ UNCHANGED deleterVars
  BY DEF Write, Begin, Insert, InsertSecurityEvent, Pin, End
<1>2. \A d \in Deleters : pc[d] \notin Holding
  BY <1>1, SessionLifecycleAssumption DEF Inv, LockInv
<1>3. LockInv' /\ TxInv'
  BY <1>1, <1>2 DEF Inv, LockInv, TxInv, deleterVars, Holding
<1>4. Rows(db)' /\ NoOrphans'
  <2>1. CASE Begin
    <3>1. PICK t \in 1..MaxTime :
            db' = [db EXCEPT !.started = [s \in DOMAIN @ \cup {begun'} |->
                     IF s = begun' THEN t ELSE db.started[s]]]
      BY <2>1 DEF Begin
    <3>2. QED
      BY <3>1 DEF Inv, TypeInv, Rows, NoOrphans
  <2>2. ASSUME NEW s \in Ids, Insert(s) PROVE Rows(db)' /\ NoOrphans'
    BY <2>2 DEF Inv, TypeInv, Rows, NoOrphans, Insert, Has
  <2>3. ASSUME NEW s \in Ids, InsertSecurityEvent(s) PROVE Rows(db)' /\ NoOrphans'
    BY <2>3 DEF Inv, TypeInv, Rows, NoOrphans, InsertSecurityEvent, Has
  <2>4. ASSUME UNCHANGED db PROVE Rows(db)' /\ NoOrphans'
    BY <2>4 DEF Inv, TypeInv, Rows, NoOrphans
  <2>5. QED
    BY <2>1, <2>2, <2>3, <2>4 DEF Write, Pin, End
<1>5. QED
  BY <1>1, <1>3, <1>4 DEF Inv, TypeInv, deleterVars

\* Where a deleter goes from where it is not inside a transaction.
LEMMA OutsideStep ==
  ASSUME Inv, NEW d \in Deleters,
         \/ Start(d) \/ PreviewOlder(d) \/ PreviewSize(d) \/ Measure(d) \/ PickOldest(d)
         \/ Exists(d) \/ Report(d)
  PROVE  Inv'
<1>1. UNCHANGED <<db, lock, tx>> /\ pc[d] \notin Holding
  BY DEF Start, PreviewOlder, PreviewSize, Measure, PickOldest, Exists, Report, Holding
<1>2. PICK l \in {"older", "report_older", "size", "oldest", "exists", "begin", "report",
               "done"} : pc' = [pc EXCEPT ![d] = l]
  BY DEF Start, PreviewOlder, PreviewSize, Measure, PickOldest, Exists, Report, Goto,
         AfterOlder, OlderDone
<1>3. \/ doomed' = doomed
      \/ \E ids : doomed' = [doomed EXCEPT ![d] = ids]
  BY DEF Start, PreviewOlder, PreviewSize, Measure, PickOldest, Exists, Report
<1>4. TypeInv'
  BY <1>1, <1>2, <1>3 DEF Inv, TypeInv, Rows
<1>5. LockInv'
  BY <1>1, <1>2 DEF Inv, TypeInv, LockInv, Holding
<1>6. TxInv'
  <2>1. pc'[d] \notin Holding
    BY <1>2 DEF Inv, TypeInv, Holding
  <2>2. \A e \in Deleters : e # d => pc'[e] = pc[e] /\ doomed'[e] = doomed[e]
    BY <1>2, <1>3 DEF Inv, TypeInv
  <2>3. QED
    BY <1>1, <2>1, <2>2 DEF Inv, TxInv, Holding
<1>7. QED
  BY <1>1, <1>4, <1>5, <1>6 DEF Inv, NoOrphans

\* Inside, it is alone.
LEMMA TransactionStep ==
  ASSUME Inv, NEW d \in Deleters,
         BeginImmediate(d) \/ DeleteRows(d) \/ DeleteSession(d) \/ CommitDelete(d)
  PROVE  Inv'
<1>1. \A e \in Deleters : e # d => pc[e] \notin Holding /\ pc'[e] = pc[e]
  <2>1. lock \in {"none", d}
    BY DEF BeginImmediate, DeleteRows, DeleteSession, CommitDelete, Inv, LockInv, Holding
  <2>2. \E l : pc' = [pc EXCEPT ![d] = l]
    BY DEF BeginImmediate, DeleteRows, DeleteSession, CommitDelete, Goto
  <2>3. QED
    BY <2>1, <2>2, SessionLifecycleAssumption DEF Inv, TypeInv, LockInv
<1>2. \A e \in Deleters : e # d => doomed'[e] = doomed[e]
  BY DEF BeginImmediate, DeleteRows, DeleteSession, CommitDelete, Inv, TypeInv
<1>3. CASE BeginImmediate(d)
  BY <1>1, <1>3, SessionLifecycleAssumption
  DEF BeginImmediate, Goto, Inv, TypeInv, LockInv, TxInv, NoOrphans, Holding, Rows
<1>4. CASE DeleteRows(d)
  BY <1>1, <1>4 DEF DeleteRows, Goto, Inv, TypeInv, LockInv, TxInv, NoOrphans, Holding, Rows
<1>5. CASE DeleteSession(d)
  BY <1>1, <1>5 DEF DeleteSession, Goto, Inv, TypeInv, LockInv, TxInv, NoOrphans, Holding, Rows
<1>6. CASE CommitDelete(d)
  <2>1. Rows(db)' /\ NoOrphans'
    BY <1>6, RemovalKeepsOrder DEF CommitDelete, Inv, TypeInv, TxInv
  <2>2. pc'[d] \in {"size", "report_older", "report"}
    BY <1>6 DEF CommitDelete, Goto, AfterCommit, OlderDone, AfterOlder, Inv, TypeInv
  <2>3. QED
    BY <1>1, <1>6, <2>1, <2>2, SessionLifecycleAssumption
    DEF CommitDelete, Goto, Inv, TypeInv, LockInv, TxInv, Holding
<1>7. QED
  BY <1>3, <1>4, <1>5, <1>6

\* Who fails leaves the lock and the tables as it found them.
LEMMA FailStep == ASSUME Inv, NEW d \in Deleters, Fail(d) PROVE Inv'
<1>1. /\ pc' = [pc EXCEPT ![d] = "failed"] /\ doomed' = [doomed EXCEPT ![d] = {}]
      /\ db' = db
      /\ \/ lock = d /\ lock' = "none"
         \/ lock # d /\ lock' = lock /\ tx' = tx
  BY DEF Fail, Goto
<1>2. pc'[d] = "failed" /\ \A e \in Deleters : e # d => pc'[e] = pc[e] /\ doomed'[e] = doomed[e]
  BY <1>1 DEF Inv, TypeInv
<1>3. TypeInv'
  BY <1>1 DEF Inv, TypeInv, Rows
<1>4. LockInv'
  BY <1>1, <1>2, SessionLifecycleAssumption DEF Inv, LockInv, Holding
<1>5. TxInv'
  <2>1. ASSUME NEW e \in Deleters, e # d, pc[e] \in Holding PROVE tx' = tx
    BY <1>1, <2>1 DEF Inv, LockInv
  <2>2. QED
    BY <1>1, <1>2, <2>1 DEF Inv, TxInv, Holding
<1>6. QED
  BY <1>1, <1>3, <1>4, <1>5 DEF Inv, NoOrphans

LEMMA InvStart == Init => Inv
  BY SessionLifecycleAssumption
  DEF Init, Inv, TypeInv, LockInv, TxInv, NoOrphans, Holding, Rows, NoRows

\* Whatever is deleted or pruned, by however many at once, and whatever fails: no row
\* of a message or an event is left without its session (delete_session,
\* prune_sessions_before; every recorded row is of a session).
THEOREM NeverOrphans == Spec => []NoOrphans
<1>1. Inv /\ [Next]_vars => Inv'
  <2> SUFFICES ASSUME Inv, [Next]_vars PROVE Inv'
    OBVIOUS
  <2>1. CASE UNCHANGED vars
    BY <2>1 DEF vars, deleterVars, Inv, TypeInv, Rows, LockInv, TxInv, NoOrphans
  <2>2. QED
    BY <2>1, WriteStep, OutsideStep, TransactionStep, FailStep DEF Next, Delete
<1>2. Inv => NoOrphans
  BY DEF Inv
<1>3. QED
  BY <1>1, <1>2, InvStart, PTL DEF Spec

-----------------------------------------------------------------------------
(* Sums over finite sets: what MapThenSumSet adds up, by induction over    *)
(* the subsets of a set.                                                   *)

LEMMA LeastNatural ==
  ASSUME NEW C \in SUBSET Nat, C # {}
  PROVE  \E c \in C : \A n \in C : ~ (n < c)
<1>1. PICK c \in C : \A n \in C : ~ (<<n, c>> \in OpToRel(<, Nat))
  BY NatLessThanWellFounded, WFMin
<1>2. ASSUME NEW n \in C PROVE ~ (n < c)
  BY <1>1 DEF OpToRel
<1>3. QED
  BY <1>2

LEMMA SubsetInduction ==
  ASSUME NEW T, IsFiniteSet(T), NEW G,
         \A S \in SUBSET T : (\A U \in SUBSET S : U # S => U \in G) => S \in G
  PROVE  \A S \in SUBSET T : S \in G
<1> DEFINE K == {S \in SUBSET T : S \notin G}
           C == {Cardinality(S) : S \in K}
<1> SUFFICES ASSUME K # {} PROVE FALSE
  OBVIOUS
<1>1. \A S \in SUBSET T : IsFiniteSet(S) /\ Cardinality(S) \in Nat
  BY FS_Subset, FS_CardinalityType
<1>2. C \in SUBSET Nat /\ C # {}
  BY <1>1
<1>3. PICK c \in C : \A n \in C : ~ (n < c)
  <2> HIDE DEF C
  <2>1. QED
    BY <1>2, LeastNatural
<1>4. PICK S \in K : c = Cardinality(S)
  BY <1>3
<1>5. ASSUME NEW U \in SUBSET S, U # S PROVE U \in G
  <2> SUFFICES ASSUME U \notin G PROVE FALSE
    OBVIOUS
  <2>1. U \in K /\ Cardinality(U) \in C
    OBVIOUS
  <2>2. Cardinality(U) < Cardinality(S)
    <3>1. IsFiniteSet(S) /\ Cardinality(U) <= Cardinality(S)
          /\ (Cardinality(U) = Cardinality(S) => U = S)
      BY <1>1, FS_Subset
    <3>2. Cardinality(U) \in Nat /\ Cardinality(S) \in Nat
      BY <1>1
    <3>3. QED
      BY <1>5, <3>1, <3>2
  <2>3. ~ (Cardinality(U) < Cardinality(S))
    BY <1>3, <1>4, <2>1
  <2>4. QED
    BY <2>2, <2>3
<1>6. QED
  BY <1>4, <1>5

Total(g, S) == MapThenSumSet(LAMBDA s : g[s], S)
One(s) == CHOOSE x \in s : TRUE
Fits(m, g, T) ==
  m = [s \in SUBSET T |-> IF s = {} THEN 0 ELSE g[One(s)] + m[s \ {One(s)}]]

LEMMA TotalIs ==
  ASSUME NEW g, NEW S
  PROVE  Total(g, S) = (CHOOSE m : Fits(m, g, S))[S]
BY Zenon DEF Total, MapThenSumSet, MapThenFoldSet, Fits, One

LEMMA FitsAt ==
  ASSUME NEW m, NEW g, NEW T, Fits(m, g, T)
  PROVE  \A s \in SUBSET T : m[s] = IF s = {} THEN 0 ELSE g[One(s)] + m[s \ {One(s)}]
<1> DEFINE h == [s \in SUBSET T |-> IF s = {} THEN 0 ELSE g[One(s)] + m[s \ {One(s)}]]
<1>1. m = h
  BY DEF Fits
<1>2. \A s \in SUBSET T : h[s] = IF s = {} THEN 0 ELSE g[One(s)] + m[s \ {One(s)}]
  OBVIOUS
<1> HIDE DEF h
<1>3. ASSUME NEW s \in SUBSET T PROVE m[s] = h[s]
  BY <1>1
<1>4. QED
  BY <1>2, <1>3

Sums(g, S) == Total(g, S) = IF S = {} THEN 0 ELSE g[One(S)] + Total(g, S \ {One(S)})

LEMMA OneIn == ASSUME NEW S, S # {} PROVE One(S) \in S
BY DEF One

\* The sum by its definition, on the subsets of T: there is a function of the recursion,
\* and its values are the sums.
LEMMA FitsOn ==
  ASSUME NEW g, NEW S, IsFiniteSet(S), \A U \in SUBSET S : U # S => Sums(g, U)
  PROVE  /\ \E m : Fits(m, g, S)
         /\ \A m : Fits(m, g, S) => \A u \in SUBSET S : u # S => m[u] = Total(g, u)
<1>1. \E m : Fits(m, g, S)
  <2> DEFINE h == [s \in SUBSET S |-> IF s = {} THEN 0 ELSE g[One(s)] + Total(g, s \ {One(s)})]
  <2>1. ASSUME NEW s \in SUBSET S, s # {}
        PROVE  h[s \ {One(s)}] = Total(g, s \ {One(s)})
    <3>1. One(s) \in s /\ s \ {One(s)} \in SUBSET S /\ s \ {One(s)} # S
      BY <2>1, OneIn
    <3>2. Sums(g, s \ {One(s)})
      BY <3>1
    <3>3. QED
      BY <3>1, <3>2 DEF Sums
  <2>2. h = [s \in SUBSET S |-> IF s = {} THEN 0 ELSE g[One(s)] + h[s \ {One(s)}]]
    BY <2>1
  <2>3. QED
    BY <2>2 DEF Fits
<1>2. ASSUME NEW m, Fits(m, g, S) PROVE \A u \in SUBSET S : u # S => m[u] = Total(g, u)
  <2> DEFINE G == {u \in SUBSET S : u # S => m[u] = Total(g, u)}
  <2>1. ASSUME NEW u \in SUBSET S, \A v \in SUBSET u : v # u => v \in G PROVE u \in G
    <3> SUFFICES ASSUME u # S PROVE m[u] = Total(g, u)
      OBVIOUS
    <3>1. m[u] = IF u = {} THEN 0 ELSE g[One(u)] + m[u \ {One(u)}]
      BY <1>2, FitsAt
    <3>2. Sums(g, u)
      OBVIOUS
    <3>3. u # {} => m[u \ {One(u)}] = Total(g, u \ {One(u)})
      <4> SUFFICES ASSUME u # {} PROVE m[u \ {One(u)}] = Total(g, u \ {One(u)})
        OBVIOUS
      <4>1. One(u) \in u
        BY OneIn
      <4>2. u \ {One(u)} \in SUBSET u /\ u \ {One(u)} # u /\ u \ {One(u)} # S
        BY <4>1
      <4>3. QED
        BY <2>1, <4>2
    <3>4. QED
      BY <3>1, <3>2, <3>3 DEF Sums
  <2>2. \A u \in SUBSET S : u \in G
    <3> HIDE DEF G
    <3>1. QED
      BY <2>1, SubsetInduction
  <2>3. QED
    BY <2>2
<1>3. QED
  BY <1>1, <1>2

LEMMA TotalSums ==
  ASSUME NEW g, NEW S, IsFiniteSet(S)
  PROVE  Sums(g, S)
<1> DEFINE G == {U \in SUBSET S : Sums(g, U)}
<1>1. ASSUME NEW U \in SUBSET S, \A V \in SUBSET U : V # U => V \in G PROVE U \in G
  <2> DEFINE m == CHOOSE f : Fits(f, g, U)
  <2>1. IsFiniteSet(U)
    BY FS_Subset
  <2>2. /\ \E f : Fits(f, g, U)
        /\ \A f : Fits(f, g, U) => \A u \in SUBSET U : u # U => f[u] = Total(g, u)
    <3>1. \A V \in SUBSET U : V # U => Sums(g, V)
      BY <1>1
    <3>2. QED
      BY <2>1, <3>1, FitsOn
  <2>3. Total(g, U) = m[U]
    BY TotalIs
  <2> HIDE DEF m
  <2>4. Fits(m, g, U)
    BY <2>2 DEF m
  <2>5. m[U] = IF U = {} THEN 0 ELSE g[One(U)] + m[U \ {One(U)}]
    BY <2>4, FitsAt
  <2>6. U # {} => m[U \ {One(U)}] = Total(g, U \ {One(U)})
    <3> SUFFICES ASSUME U # {} PROVE m[U \ {One(U)}] = Total(g, U \ {One(U)})
      OBVIOUS
    <3>1. U \ {One(U)} \in SUBSET U /\ U \ {One(U)} # U
      BY OneIn
    <3>2. QED
      BY <2>2, <2>4, <3>1
  <2>7. Sums(g, U)
    BY <2>3, <2>5, <2>6 DEF Sums
  <2>8. QED
    BY <2>7
<1>2. S \in G
  <2>1. \A U \in SUBSET S : U \in G
    <3> HIDE DEF G
    <3>1. QED
      BY <1>1, SubsetInduction
  <2>2. QED
    BY <2>1
<1>3. QED
  BY <1>2

\* A function of the recursion has the sum at the whole set.
LEMMA FitsTotal ==
  ASSUME NEW g, NEW S, IsFiniteSet(S)
  PROVE  /\ \E m : Fits(m, g, S)
         /\ \A m : Fits(m, g, S) => m[S] = Total(g, S)
<1>1. \A U \in SUBSET S : Sums(g, U)
  BY FS_Subset, TotalSums
<1>2. /\ \E m : Fits(m, g, S)
      /\ \A m : Fits(m, g, S) => \A u \in SUBSET S : u # S => m[u] = Total(g, u)
  BY <1>1, FitsOn
<1>3. ASSUME NEW m, Fits(m, g, S) PROVE m[S] = Total(g, S)
  <2>1. m[S] = IF S = {} THEN 0 ELSE g[One(S)] + m[S \ {One(S)}]
    BY <1>3, FitsAt
  <2>2. S # {} => m[S \ {One(S)}] = Total(g, S \ {One(S)})
    <3> SUFFICES ASSUME S # {} PROVE m[S \ {One(S)}] = Total(g, S \ {One(S)})
      OBVIOUS
    <3>1. S \ {One(S)} \in SUBSET S /\ S \ {One(S)} # S
      BY OneIn
    <3>2. QED
      BY <1>2, <1>3, <3>1
  <2>3. Sums(g, S)
    BY <1>1
  <2>4. QED
    BY <2>1, <2>2, <2>3 DEF Sums
<1>4. QED
  BY <1>2, <1>3

LEMMA TotalOfNone == ASSUME NEW g PROVE Total(g, {}) = 0
BY TotalSums, FS_EmptySet DEF Sums

LEMMA TotalNat ==
  ASSUME NEW T, IsFiniteSet(T), NEW g, \A s \in T : g[s] \in Nat
  PROVE  \A S \in SUBSET T : Total(g, S) \in Nat
<1> DEFINE G == {S \in SUBSET T : Total(g, S) \in Nat}
<1>1. ASSUME NEW S \in SUBSET T, \A U \in SUBSET S : U # S => U \in G PROVE S \in G
  <2>1. Sums(g, S)
    BY FS_Subset, TotalSums
  <2>2. CASE S = {}
    BY <2>1, <2>2 DEF Sums
  <2>3. CASE S # {}
    <3>1. One(S) \in S /\ S \ {One(S)} \in SUBSET S /\ S \ {One(S)} # S
      BY <2>3, OneIn
    <3>2. Total(g, S \ {One(S)}) \in Nat /\ g[One(S)] \in Nat
      BY <1>1, <3>1
    <3>3. Total(g, S) = g[One(S)] + Total(g, S \ {One(S)})
      BY <2>1, <2>3 DEF Sums
    <3>4. QED
      BY <3>2, <3>3
  <2>4. QED
    BY <2>2, <2>3
<1>2. \A S \in SUBSET T : S \in G
  <2> HIDE DEF G
  <2>1. QED
    BY <1>1, SubsetInduction
<1>3. QED
  BY <1>2

\* Any member may be taken first.
LEMMA TotalTakes ==
  ASSUME NEW T, IsFiniteSet(T), NEW g, \A s \in T : g[s] \in Nat
  PROVE  \A S \in SUBSET T : \A a \in S : Total(g, S) = g[a] + Total(g, S \ {a})
<1> DEFINE G == {S \in SUBSET T : \A a \in S : Total(g, S) = g[a] + Total(g, S \ {a})}
<1>1. ASSUME NEW S \in SUBSET T, \A U \in SUBSET S : U # S => U \in G PROVE S \in G
  <2> SUFFICES ASSUME NEW a \in S PROVE Total(g, S) = g[a] + Total(g, S \ {a})
    OBVIOUS
  <2> DEFINE x == One(S)
             R == (S \ {a}) \ {x}
  <2>1. x \in S /\ Total(g, S) = g[x] + Total(g, S \ {x})
    BY OneIn, FS_Subset, TotalSums DEF Sums
  <2>2. CASE a = x
    BY <2>1, <2>2
  <2>3. CASE a # x
    <3>1. S \ {x} \in SUBSET S /\ S \ {x} # S /\ a \in S \ {x} /\ (S \ {x}) \ {a} = R
      BY <2>1, <2>3
    <3>2. S \ {a} \in SUBSET S /\ S \ {a} # S /\ x \in S \ {a}
      BY <2>1, <2>3
    <3>3. Total(g, S \ {x}) = g[a] + Total(g, R)
      BY <1>1, <3>1
    <3>4. Total(g, S \ {a}) = g[x] + Total(g, R)
      BY <1>1, <3>2
    <3>5. g[a] \in Nat /\ g[x] \in Nat /\ Total(g, R) \in Nat
      <4>1. a \in T /\ x \in T /\ R \in SUBSET T
        BY <2>1
      <4>2. QED
        BY <4>1, TotalNat
    <3> HIDE DEF x, R
    <3>6. QED
      BY <2>1, <3>3, <3>4, <3>5
  <2>4. QED
    BY <2>2, <2>3
<1>2. \A S \in SUBSET T : S \in G
  <2> HIDE DEF G
  <2>1. QED
    BY <1>1, SubsetInduction
<1>3. QED
  BY <1>2

LEMMA TotalSame ==
  ASSUME NEW T, IsFiniteSet(T), NEW g, NEW h, \A s \in T : g[s] \in Nat /\ h[s] = g[s]
  PROVE  Total(h, T) = Total(g, T)
<1> DEFINE G == {S \in SUBSET T : Total(h, S) = Total(g, S)}
<1>1. ASSUME NEW S \in SUBSET T, \A U \in SUBSET S : U # S => U \in G PROVE S \in G
  <2>1. Sums(g, S) /\ Sums(h, S)
    BY FS_Subset, TotalSums
  <2>2. CASE S = {}
    BY <2>1, <2>2 DEF Sums
  <2>3. CASE S # {}
    <3>1. One(S) \in S /\ S \ {One(S)} \in SUBSET S /\ S \ {One(S)} # S
      BY <2>3, OneIn
    <3>2. Total(h, S \ {One(S)}) = Total(g, S \ {One(S)}) /\ h[One(S)] = g[One(S)]
      BY <1>1, <3>1
    <3>3. QED
      BY <2>1, <2>3, <3>2 DEF Sums
  <2>4. QED
    BY <2>2, <2>3
<1>2. T \in G
  <2>1. \A S \in SUBSET T : S \in G
    <3> HIDE DEF G
    <3>1. QED
      BY <1>1, SubsetInduction
  <2>2. QED
    BY <2>1
<1>3. QED
  BY <1>2

\* One term grows by k.
LEMMA TotalGrows ==
  ASSUME NEW T, IsFiniteSet(T), NEW g, NEW h, NEW a \in T, NEW k \in Nat,
         \A s \in T : g[s] \in Nat, h[a] = g[a] + k, \A s \in T : s # a => h[s] = g[s]
  PROVE  Total(h, T) = Total(g, T) + k
<1>1. \A s \in T : h[s] \in Nat
  <2>1. h[a] \in Nat
    OBVIOUS
  <2>2. QED
    BY <2>1
<1>2. Total(g, T) = g[a] + Total(g, T \ {a}) /\ Total(h, T) = h[a] + Total(h, T \ {a})
  BY <1>1, TotalTakes
<1>3. Total(h, T \ {a}) = Total(g, T \ {a})
  <2>1. IsFiniteSet(T \ {a}) /\ \A s \in T \ {a} : g[s] \in Nat /\ h[s] = g[s]
    BY FS_Subset
  <2>2. QED
    BY <2>1, TotalSame
<1>4. Total(g, T \ {a}) \in Nat /\ g[a] \in Nat
  BY TotalNat
<1>5. QED
  BY <1>2, <1>3, <1>4

LEMMA TotalGrowsByOne ==
  ASSUME NEW T, IsFiniteSet(T), NEW g, NEW h, NEW a \in T,
         \A s \in T : g[s] \in Nat, h[a] = g[a] + 1, \A s \in T : s # a => h[s] = g[s]
  PROVE  Total(h, T) = Total(g, T) + 1
<1> DEFINE k == 1
<1>1. k \in Nat /\ h[a] = g[a] + k
  OBVIOUS
<1> HIDE DEF k
<1>2. Total(h, T) = Total(g, T) + k
  BY <1>1, TotalGrows
<1>3. QED
  BY <1>2 DEF k

\* What is left without D, and D.
LEMMA TotalSplits ==
  ASSUME NEW T, IsFiniteSet(T), NEW D, NEW g, NEW h,
         \A s \in T : g[s] \in Nat /\ h[s] = IF s \in D THEN 0 ELSE g[s]
  PROVE  Total(g, T) = Total(h, T) + Total(g, T \cap D)
<1> DEFINE G == {S \in SUBSET T : Total(g, S) = Total(h, S) + Total(g, S \cap D)}
<1>1. \A s \in T : h[s] \in Nat
  OBVIOUS
<1>2. ASSUME NEW S \in SUBSET T, \A U \in SUBSET S : U # S => U \in G PROVE S \in G
  <2>1. CASE S = {}
    <3>1. S \cap D = {}
      BY <2>1
    <3>2. QED
      BY <2>1, <3>1, TotalOfNone
  <2>2. CASE S # {}
    <3> DEFINE a == One(S)
               R == S \ {a}
    <3>1. a \in S /\ R \in SUBSET S /\ R # S /\ a \in T /\ R \in SUBSET T
      BY <2>2, OneIn
    <3>2. Total(g, S) = g[a] + Total(g, R) /\ Total(h, S) = h[a] + Total(h, R)
      BY <1>1, <3>1, TotalTakes
    <3>3. Total(g, R) = Total(h, R) + Total(g, R \cap D)
      BY <1>2, <3>1
    <3>4. /\ Total(h, R) \in Nat /\ Total(g, R \cap D) \in Nat /\ g[a] \in Nat /\ h[a] \in Nat
          /\ Total(g, R) \in Nat
      <4>1. R \cap D \in SUBSET T
        BY <3>1
      <4>2. QED
        BY <1>1, <3>1, <4>1, TotalNat
    <3>5. CASE a \in D
      <4>1. a \in S \cap D /\ (S \cap D) \ {a} = R \cap D /\ S \cap D \in SUBSET T
        BY <3>1, <3>5
      <4>2. Total(g, S \cap D) = g[a] + Total(g, R \cap D)
        BY <4>1, TotalTakes
      <4>3. h[a] = 0
        BY <3>1, <3>5
      <4> HIDE DEF a, R
      <4>4. Total(g, S) = Total(h, S) + Total(g, S \cap D)
        BY <3>2, <3>3, <3>4, <4>2, <4>3
      <4>5. QED
        BY <4>4
    <3>6. CASE a \notin D
      <4>1. S \cap D = R \cap D /\ h[a] = g[a]
        BY <3>1, <3>6
      <4> HIDE DEF a, R
      <4>2. Total(g, S) = Total(h, S) + Total(g, S \cap D)
        BY <3>2, <3>3, <3>4, <4>1
      <4>3. QED
        BY <4>2
    <3>7. QED
      BY <3>5, <3>6
  <2>3. QED
    BY <2>1, <2>2
<1>3. T \in G
  <2>1. \A S \in SUBSET T : S \in G
    <3> HIDE DEF G
    <3>1. QED
      BY <1>2, SubsetInduction
  <2>2. QED
    BY <2>1
<1>4. QED
  BY <1>3

\* The sum of a field is that of a function.
Column(st, f, S) == MapThenSumSet(LAMBDA d : st[d][f], S)

LEMMA TotalOfField ==
  ASSUME NEW st, NEW f, NEW S, IsFiniteSet(S), NEW g, \A d \in S : g[d] = st[d][f]
  PROVE  Column(st, f, S) = Total(g, S)
<1> DEFINE Field(m) ==
             m = [s \in SUBSET S |-> IF s = {} THEN 0 ELSE st[One(s)][f] + m[s \ {One(s)}]]
           m0 == CHOOSE m : Field(m)
<1>1. Column(st, f, S) = m0[S]
  BY Zenon DEF Column, MapThenSumSet, MapThenFoldSet, One
<1>2. ASSUME NEW m PROVE Field(m) <=> Fits(m, g, S)
  <2>1. ASSUME NEW s \in SUBSET S, s # {} PROVE g[One(s)] = st[One(s)][f]
    BY <2>1, OneIn
  <2>2. [s \in SUBSET S |-> IF s = {} THEN 0 ELSE st[One(s)][f] + m[s \ {One(s)}]]
        = [s \in SUBSET S |-> IF s = {} THEN 0 ELSE g[One(s)] + m[s \ {One(s)}]]
    BY <2>1
  <2>3. QED
    BY <2>2 DEF Fits
<1> HIDE DEF Field
<1>3. Field(m0)
  BY <1>2, FitsTotal
<1> HIDE DEF m0
<1>4. QED
  BY <1>1, <1>2, <1>3, FitsTotal

-----------------------------------------------------------------------------
(* What is counted: each transaction's removals, once.                     *)

Fields == {"sessions", "messages", "events"}
Workers == {d \in Deleters : ~Dry(d)}

\* What the database holds, and what was counted as removed: to be told, told, or
\* dropped in a failure.
Held(f) == Count(db, Ids)[f]
Removals(d, f) == stats[d][f] + (told[d][f] + lost[d][f])
Gone(f) == Total([d \in Deleters |-> Removals(d, f)], Workers)

Typed(counts) == counts = [d \in Deleters |-> [f \in Fields |-> counts[d][f]]]

\* What is so of a deleter: what it is about to do, it does to begun sessions, and not in
\* a dry run; a dry run counts each session once; and who has ended has nothing to tell.
JobOk(e) ==
  /\ job[e] \in Jobs
  /\ stats[e].sessions \in Nat /\ told[e].sessions \in Nat
  /\ ~Dry(e) => \A f \in Fields :
       stats[e][f] \in Nat /\ told[e][f] \in Nat /\ lost[e][f] \in Nat
  /\ pc[e] \in {"oldest", "exists", "begin"} \cup Holding => ~Dry(e)
  /\ pc[e] \in {"begin"} \cup Holding => doomed[e] \subseteq Ids
  /\ pc[e] \in {"older", "report_older", "size", "oldest", "rows_older", "session_older",
               "commit_older"} => job[e].kind = "prune"
  /\ pc[e] = "done" => stats[e] = None
  /\ lost[e] # None => pc[e] = "failed"
  /\ Dry(e) => /\ stats[e].sessions + told[e].sessions <= begun
               /\ pc[e] \in {"idle", "older", "size"} => stats[e] = None /\ told[e] = None
               /\ pc[e] \in {"older", "report_older"} => job[e].cutoff # 0

JobInv ==
  /\ begun \in Nat /\ begun <= MaxSess /\ DOMAIN db.started \subseteq 1 .. begun
  /\ Typed(stats) /\ Typed(told) /\ Typed(lost)
  /\ \A d \in Deleters : JobOk(d)

BookInv == made = [f \in Fields |-> Held(f) + Gone(f)]

LEMMA CountIs ==
  ASSUME NEW r, NEW ids
  PROVE  /\ Count(r, ids) = [f \in Fields |-> Count(r, ids)[f]]
         /\ DOMAIN Count(r, ids) = Fields
         /\ Count(r, ids)["sessions"] = Cardinality(ids \cap DOMAIN r.started)
         /\ Count(r, ids)["messages"] = Total(r.messages, ids)
         /\ Count(r, ids)["events"] = Total(r.events, ids)
<1> DEFINE a == Cardinality(ids \cap DOMAIN r.started)
           b == MapThenSumSet(LAMBDA s : r.messages[s], ids)
           c == MapThenSumSet(LAMBDA s : r.events[s], ids)
<1>1. b = Total(r.messages, ids) /\ c = Total(r.events, ids)
  BY Zenon DEF Total
<1>2. Count(r, ids) = [sessions |-> a, messages |-> b, events |-> c]
  BY Zenon DEF Count
<1> HIDE DEF a, b, c
<1>3. /\ Count(r, ids) = [f \in Fields |-> Count(r, ids)[f]]
      /\ DOMAIN Count(r, ids) = Fields
      /\ Count(r, ids)["sessions"] = a /\ Count(r, ids)["messages"] = b
      /\ Count(r, ids)["events"] = c
  BY <1>2 DEF Fields
<1>4. QED
  BY <1>1, <1>3 DEF a

LEMMA IdsFinite == IsFiniteSet(Ids)
<1>1. 1 \in Int /\ MaxSess \in Int
  BY SessionLifecycleAssumption
<1>2. QED
  BY <1>1, FS_Interval DEF Ids

LEMMA CountNat ==
  ASSUME NEW r, Rows(r), NEW ids \in SUBSET Ids
  PROVE  \A f \in Fields : Count(r, ids)[f] \in Nat
<1>1. IsFiniteSet(Ids) /\ IsFiniteSet(ids \cap DOMAIN r.started)
  BY IdsFinite, FS_Subset
<1>2. Cardinality(ids \cap DOMAIN r.started) \in Nat
  BY <1>1, FS_CardinalityType
<1>3. Total(r.messages, ids) \in Nat /\ Total(r.events, ids) \in Nat
  BY <1>1, TotalNat DEF Rows
<1>4. QED
  BY <1>2, <1>3, CountIs DEF Fields

LEMMA RemovalsNat ==
  ASSUME JobInv, NEW f \in Fields
  PROVE  \A d \in Workers : Removals(d, f) \in Nat
BY DEF Workers, JobInv, JobOk, Removals

LEMMA GoneNat ==
  ASSUME JobInv, IsFiniteSet(Deleters), NEW f \in Fields
  PROVE  Gone(f) \in Nat
<1> DEFINE g == [d \in Deleters |-> Removals(d, f)]
<1>1. IsFiniteSet(Workers)
  BY FS_Subset DEF Workers
<1>2. \A d \in Workers : g[d] \in Nat
  BY RemovalsNat DEF Workers
<1>3. Gone(f) = Total(g, Workers)
  BY DEF Gone
<1> HIDE DEF g
<1>4. QED
  BY <1>1, <1>2, <1>3, TotalNat

\* A transaction removes what it counts.
LEMMA RemovalCounts ==
  ASSUME Inv, NEW ids \in SUBSET Ids,
         db' = WithoutSessions(WithoutRows(db, ids), ids)
  PROVE  \A f \in Fields : Held(f) = Held(f)' + Count(db, ids)[f]
<1>1. /\ db.messages \in [Ids -> Nat] /\ db.events \in [Ids -> Nat]
      /\ db'.messages = [s \in Ids |-> IF s \in ids THEN 0 ELSE db.messages[s]]
      /\ db'.events = [s \in Ids |-> IF s \in ids THEN 0 ELSE db.events[s]]
      /\ DOMAIN db'.started = DOMAIN db.started \ ids
  BY DEF Inv, TypeInv, Rows, WithoutRows, WithoutSessions
<1>2. IsFiniteSet(Ids) /\ Ids \cap ids = ids
  BY IdsFinite
<1>3. Total(db.messages, Ids) = Total(db'.messages, Ids) + Total(db.messages, ids)
  <2> DEFINE g == db.messages
             h == db'.messages
  <2>1. \A s \in Ids : g[s] \in Nat /\ h[s] = IF s \in ids THEN 0 ELSE g[s]
    BY <1>1
  <2> HIDE DEF g, h
  <2>2. Total(g, Ids) = Total(h, Ids) + Total(g, Ids \cap ids)
    BY <1>2, <2>1, TotalSplits
  <2>3. QED
    BY <1>2, <2>2 DEF g, h
<1>4. Total(db.events, Ids) = Total(db'.events, Ids) + Total(db.events, ids)
  <2> DEFINE g == db.events
             h == db'.events
  <2>1. \A s \in Ids : g[s] \in Nat /\ h[s] = IF s \in ids THEN 0 ELSE g[s]
    BY <1>1
  <2> HIDE DEF g, h
  <2>2. Total(g, Ids) = Total(h, Ids) + Total(g, Ids \cap ids)
    BY <1>2, <2>1, TotalSplits
  <2>3. QED
    BY <1>2, <2>2 DEF g, h
<1>5. Cardinality(Ids \cap DOMAIN db.started)
      = Cardinality(Ids \cap DOMAIN db'.started) + Cardinality(ids \cap DOMAIN db.started)
  <2> DEFINE A == Ids \cap DOMAIN db'.started
             B == ids \cap DOMAIN db.started
  <2>1. IsFiniteSet(A) /\ IsFiniteSet(B) /\ A \cap B = {} /\ A \cup B = Ids \cap DOMAIN db.started
    BY <1>1, <1>2, FS_Subset
  <2> HIDE DEF A, B
  <2>2. Cardinality(A \cup B) = Cardinality(A) + Cardinality(B)
    <3>1. Cardinality(A \cap B) = 0 /\ Cardinality(A) \in Nat /\ Cardinality(B) \in Nat
      BY <2>1, FS_EmptySet, FS_CardinalityType
    <3>2. Cardinality(A \cup B) = Cardinality(A) + Cardinality(B) - Cardinality(A \cap B)
      BY <2>1, FS_Union
    <3>3. QED
      BY <3>1, <3>2
  <2>3. QED
    BY <2>1, <2>2 DEF A, B
<1>6. QED
  BY <1>3, <1>4, <1>5, CountIs DEF Fields, Held

LEMMA DryKept == job' = job => Workers' = Workers /\ \A d \in Deleters : Dry(d)' = Dry(d)
BY DEF Workers, Dry

LEMMA GoneSame ==
  ASSUME JobInv, IsFiniteSet(Deleters), job' = job,
         \A e \in Workers : \A f \in Fields : Removals(e, f)' = Removals(e, f)
  PROVE  \A f \in Fields : Gone(f)' = Gone(f)
<1> SUFFICES ASSUME NEW f \in Fields PROVE Gone(f)' = Gone(f)
  OBVIOUS
<1> DEFINE g == [d \in Deleters |-> Removals(d, f)]
           h == [d \in Deleters |-> Removals(d, f)']
<1>1. IsFiniteSet(Workers) /\ Workers \subseteq Deleters /\ Workers' = Workers
  BY FS_Subset, DryKept DEF Workers
<1>2. \A d \in Workers : g[d] \in Nat /\ h[d] = g[d]
  BY <1>1, RemovalsNat
<1>3. Gone(f) = Total(g, Workers) /\ Gone(f)' = Total(h, Workers)
  BY <1>1 DEF Gone
<1> HIDE DEF g, h
<1>4. QED
  BY <1>1, <1>2, <1>3, TotalSame

\* What a storage thread writes adds one to one field.
LEMMA WriteCounts ==
  ASSUME Inv, JobInv, BookInv, IsFiniteSet(Deleters), Write
  PROVE  /\ job' = job /\ UNCHANGED countVars /\ pc' = pc /\ doomed' = doomed
         /\ begun' \in {begun, begun + 1} /\ begun' <= MaxSess
         /\ DOMAIN db'.started \subseteq 1 .. begun'
         /\ \E k \in [Fields -> Nat] : /\ \A f \in Fields : Held(f)' = Held(f) + k[f]
                                       /\ made' = [f \in Fields |-> made[f] + k[f]]
<1>1. job' = job /\ UNCHANGED countVars /\ pc' = pc /\ doomed' = doomed
  BY DEF Write, Begin, Insert, InsertSecurityEvent, Pin, End, deleterVars
<1>2. /\ db.messages \in [Ids -> Nat] /\ db.events \in [Ids -> Nat] /\ IsFiniteSet(Ids)
      /\ begun \in Nat /\ begun <= MaxSess /\ MaxSess \in Nat
      /\ DOMAIN db.started \subseteq 1 .. begun
      /\ DOMAIN made = Fields /\ \A f \in Fields : Held(f) \in Nat
  BY CountNat, IdsFinite, SessionLifecycleAssumption DEF Inv, TypeInv, Rows, JobInv, BookInv, Held
<1>3. /\ Held("sessions") = Cardinality(Ids \cap DOMAIN db.started)
      /\ Held("messages") = Total(db.messages, Ids) /\ Held("events") = Total(db.events, Ids)
      /\ Held("sessions")' = Cardinality(Ids \cap DOMAIN db'.started)
      /\ Held("messages")' = Total(db'.messages, Ids) /\ Held("events")' = Total(db'.events, Ids)
  BY CountIs DEF Held
<1>4. DOMAIN None = Fields /\ \A f \in Fields : None[f] = 0
  BY DEF None, Fields
<1>5. CASE Begin
  <2> DEFINE n == begun + 1
             A == Ids \cap DOMAIN db.started
             k == [f \in Fields |-> IF f = "sessions" THEN 1 ELSE 0]
  <2>1. /\ begun' = n /\ n \in Ids /\ n \notin DOMAIN db.started
        /\ DOMAIN db'.started = DOMAIN db.started \cup {n}
        /\ db'.messages = db.messages /\ db'.events = db.events
        /\ made' = Plus(made, [None EXCEPT !.sessions = 1])
    BY <1>2, <1>5 DEF Begin, Ids, Inv, TypeInv, Rows
  <2>2. Cardinality(Ids \cap DOMAIN db'.started) = Cardinality(A) + 1
    <3>1. Ids \cap DOMAIN db'.started = A \cup {n} /\ n \notin A /\ IsFiniteSet(A)
      BY <1>2, <2>1, FS_Subset
    <3>2. QED
      BY <3>1, FS_AddElement
  <2>3. \A f \in Fields : Held(f)' = Held(f) + k[f]
    BY <1>2, <1>3, <2>1, <2>2 DEF Fields
  <2>4. made' = [f \in Fields |-> made[f] + k[f]]
    BY <1>2, <1>4, <2>1 DEF Plus, Fields
  <2>5. k \in [Fields -> Nat]
    OBVIOUS
  <2>6. n <= MaxSess /\ DOMAIN db'.started \subseteq 1 .. n
    BY <1>2, <2>1 DEF Ids
  <2> HIDE DEF k
  <2>7. QED
    BY <1>1, <2>1, <2>3, <2>4, <2>5, <2>6
<1>6. CASE UNCHANGED <<db, made, begun>>
  <2> DEFINE k == [f \in Fields |-> 0]
  <2>1. \A f \in Fields : Held(f)' = Held(f) + k[f]
    BY <1>2, <1>6 DEF Held
  <2>2. made' = [f \in Fields |-> made[f] + k[f]]
    <3>1. made' = [f \in Fields |-> made[f]] /\ \A f \in Fields : made[f] \in Nat
      BY <1>2, <1>6, GoneNat DEF BookInv
    <3>2. QED
      BY <3>1
  <2>3. k \in [Fields -> Nat]
    OBVIOUS
  <2> HIDE DEF k
  <2>4. QED
    BY <1>1, <1>2, <1>6, <2>1, <2>2, <2>3
<1>7. ASSUME NEW s \in Ids, Insert(s), Has(s)
      PROVE  /\ UNCHANGED <<begun>> /\ db'.started = db.started
             /\ \E k \in [Fields -> Nat] : /\ \A f \in Fields : Held(f)' = Held(f) + k[f]
                                           /\ made' = [f \in Fields |-> made[f] + k[f]]
  <2> DEFINE k == [f \in Fields |-> IF f = "messages" THEN 1 ELSE 0]
  <2>1. /\ begun' = begun /\ db'.started = db.started /\ db'.events = db.events
        /\ db'.messages = [db.messages EXCEPT ![s] = @ + 1]
        /\ made' = Plus(made, [None EXCEPT !.messages = 1])
    BY <1>7 DEF Insert, Inv, TypeInv, Rows
  <2>2. Total(db'.messages, Ids) = Total(db.messages, Ids) + 1
    <3> DEFINE g == db.messages
               h == db'.messages
    <3>1. /\ \A t \in Ids : g[t] \in Nat
          /\ h[s] = g[s] + 1 /\ \A t \in Ids : t # s => h[t] = g[t]
      BY <1>2, <2>1
    <3> HIDE DEF g, h
    <3>2. Total(h, Ids) = Total(g, Ids) + 1
      BY <1>2, <3>1, TotalGrowsByOne
    <3>3. QED
      BY <3>2 DEF g, h
  <2>3. \A f \in Fields : Held(f)' = Held(f) + k[f]
    BY <1>2, <1>3, <2>1, <2>2 DEF Fields
  <2>4. made' = [f \in Fields |-> made[f] + k[f]]
    BY <1>2, <1>4, <2>1 DEF Plus, Fields
  <2>5. k \in [Fields -> Nat]
    OBVIOUS
  <2> HIDE DEF k
  <2>6. QED
    BY <2>1, <2>3, <2>4, <2>5
<1>8. ASSUME NEW s \in Ids, InsertSecurityEvent(s), Has(s)
      PROVE  /\ UNCHANGED <<begun>> /\ db'.started = db.started
             /\ \E k \in [Fields -> Nat] : /\ \A f \in Fields : Held(f)' = Held(f) + k[f]
                                           /\ made' = [f \in Fields |-> made[f] + k[f]]
  <2> DEFINE k == [f \in Fields |-> IF f = "events" THEN 1 ELSE 0]
  <2>1. /\ begun' = begun /\ db'.started = db.started /\ db'.messages = db.messages
        /\ db'.events = [db.events EXCEPT ![s] = @ + 1]
        /\ made' = Plus(made, [None EXCEPT !.events = 1])
    BY <1>8 DEF InsertSecurityEvent, Inv, TypeInv, Rows
  <2>2. Total(db'.events, Ids) = Total(db.events, Ids) + 1
    <3> DEFINE g == db.events
               h == db'.events
    <3>1. /\ \A t \in Ids : g[t] \in Nat
          /\ h[s] = g[s] + 1 /\ \A t \in Ids : t # s => h[t] = g[t]
      BY <1>2, <2>1
    <3> HIDE DEF g, h
    <3>2. Total(h, Ids) = Total(g, Ids) + 1
      BY <1>2, <3>1, TotalGrowsByOne
    <3>3. QED
      BY <3>2 DEF g, h
  <2>3. \A f \in Fields : Held(f)' = Held(f) + k[f]
    BY <1>2, <1>3, <2>1, <2>2 DEF Fields
  <2>4. made' = [f \in Fields |-> made[f] + k[f]]
    BY <1>2, <1>4, <2>1 DEF Plus, Fields
  <2>5. k \in [Fields -> Nat]
    OBVIOUS
  <2> HIDE DEF k
  <2>6. QED
    BY <2>1, <2>3, <2>4, <2>5
<1>9. QED
  <2>1. \/ Begin
        \/ UNCHANGED <<db, made, begun>>
        \/ \E s \in Ids : (Insert(s) \/ InsertSecurityEvent(s)) /\ Has(s)
    BY DEF Write, Insert, InsertSecurityEvent, Pin, End
  <2>2. CASE \E s \in Ids : (Insert(s) \/ InsertSecurityEvent(s)) /\ Has(s)
    BY <1>1, <1>2, <1>7, <1>8, <2>2
  <2>3. QED
    BY <1>5, <1>6, <2>1, <2>2

\* Between transactions and inside one, the books stand still; a dry run's are its own.
LEMMA QuietStep ==
  ASSUME Inv, JobInv, BookInv, IsFiniteSet(Deleters), NEW d \in Deleters,
         \/ Start(d) \/ PreviewOlder(d) \/ PreviewSize(d) \/ Measure(d) \/ PickOldest(d)
         \/ Exists(d) \/ BeginImmediate(d) \/ DeleteRows(d) \/ DeleteSession(d)
         \/ Report(d) \/ Fail(d)
  PROVE  BookInv' /\ UNCHANGED <<db, begun, job>>
<1>1. UNCHANGED <<db, begun, job, made>>
  BY DEF Start, PreviewOlder, PreviewSize, Measure, PickOldest, Exists, BeginImmediate,
         DeleteRows, DeleteSession, Report, Fail, writerVars
<1>2. \A e \in Workers : \A f \in Fields : Removals(e, f)' = Removals(e, f)
  <2>1. CASE Start(d) \/ Measure(d) \/ PickOldest(d) \/ Exists(d) \/ BeginImmediate(d)
             \/ DeleteRows(d) \/ DeleteSession(d)
    BY <2>1 DEF Start, Measure, PickOldest, Exists, BeginImmediate, DeleteRows,
                DeleteSession, countVars, Removals
  <2>2. CASE PreviewOlder(d) \/ PreviewSize(d)
    <3>1. Dry(d) /\ UNCHANGED <<told, lost>> /\ \E x : stats' = [stats EXCEPT ![d] = x]
      BY <2>2 DEF PreviewOlder, PreviewSize, JobInv, JobOk, Dry
    <3>2. \A e \in Workers : stats'[e] = stats[e]
      BY <3>1 DEF Workers, JobInv, Typed
    <3>3. QED
      BY <3>1, <3>2 DEF Removals
  <2>3. CASE Report(d)
    <3>1. /\ lost' = lost /\ stats' = [stats EXCEPT ![d] = None]
          /\ told' = [told EXCEPT ![d] = Plus(@, stats[d])]
      BY <2>3 DEF Report
    <3>2. \A e \in Workers : e # d => stats'[e] = stats[e] /\ told'[e] = told[e]
      BY <3>1 DEF Workers, JobInv, Typed
    <3>3. ASSUME NEW f \in Fields, d \in Workers PROVE Removals(d, f)' = Removals(d, f)
      <4>1. stats'[d][f] = 0 /\ told'[d][f] = told[d][f] + stats[d][f] /\ lost'[d][f] = lost[d][f]
        BY <3>1 DEF JobInv, Typed, None, Fields, Plus
      <4>2. stats[d][f] \in Nat /\ told[d][f] \in Nat /\ lost[d][f] \in Nat
        BY <3>3 DEF Workers, JobInv, JobOk
      <4>3. QED
        BY <4>1, <4>2 DEF Removals
    <3>4. QED
      BY <3>1, <3>2, <3>3 DEF Removals
  <2>4. CASE Fail(d)
    <3>1. /\ told' = told /\ stats' = [stats EXCEPT ![d] = None]
          /\ lost' = IF Dry(d) THEN lost ELSE [lost EXCEPT ![d] = Plus(@, stats[d])]
      BY <2>4 DEF Fail
    <3>2. \A e \in Workers : e # d => stats'[e] = stats[e] /\ lost'[e] = lost[e]
      BY <3>1 DEF Workers, JobInv, Typed
    <3>3. ASSUME NEW f \in Fields, d \in Workers PROVE Removals(d, f)' = Removals(d, f)
      <4>1. stats'[d][f] = 0 /\ lost'[d][f] = lost[d][f] + stats[d][f] /\ told'[d][f] = told[d][f]
        BY <3>1, <3>3 DEF JobInv, Typed, None, Fields, Plus, Workers
      <4>2. stats[d][f] \in Nat /\ told[d][f] \in Nat /\ lost[d][f] \in Nat
        BY <3>3 DEF Workers, JobInv, JobOk
      <4>3. QED
        BY <4>1, <4>2 DEF Removals
    <3>4. QED
      BY <3>1, <3>2, <3>3 DEF Removals
  <2>5. QED
    BY <2>1, <2>2, <2>3, <2>4
<1>3. \A f \in Fields : Held(f)' = Held(f)
  BY <1>1 DEF Held
<1>4. \A f \in Fields : Gone(f)' = Gone(f)
  BY <1>1, <1>2, GoneSame
<1>5. BookInv'
  BY <1>1, <1>3, <1>4 DEF BookInv
<1>6. QED
  BY <1>1, <1>5

\* A commit moves what it removes from what is held to what is counted.
LEMMA CommitStep ==
  ASSUME Inv, JobInv, BookInv, IsFiniteSet(Deleters), NEW d \in Deleters, CommitDelete(d)
  PROVE  BookInv'
<1>1. /\ ~Dry(d) /\ doomed[d] \in SUBSET Ids /\ job' = job /\ made' = made
      /\ db' = WithoutSessions(WithoutRows(db, doomed[d]), doomed[d])
      /\ stats' = [stats EXCEPT ![d] = Plus(@, Removed(d))] /\ UNCHANGED <<told, lost>>
  BY DEF CommitDelete, JobInv, JobOk, Holding, Inv, TxInv, writerVars
<1>2. \A f \in Fields : Held(f) = Held(f)' + Count(db, doomed[d])[f]
  BY <1>1, RemovalCounts
<1>3. ASSUME NEW f \in Fields PROVE Gone(f)' = Gone(f) + Count(db, doomed[d])[f]
  <2> DEFINE g == [e \in Deleters |-> Removals(e, f)]
             h == [e \in Deleters |-> Removals(e, f)']
             k == Count(db, doomed[d])[f]
  <2>1. /\ IsFiniteSet(Workers) /\ Workers \subseteq Deleters /\ Workers' = Workers
        /\ d \in Workers
    BY <1>1, FS_Subset, DryKept DEF Workers
  <2>2. k \in Nat
    BY <1>1, CountNat DEF Inv, TypeInv
  <2>3. \A e \in Workers : g[e] \in Nat
    BY <2>1, RemovalsNat
  <2>4. h[d] = g[d] + k
    <3>1. stats'[d][f] = stats[d][f] + k
      BY <1>1 DEF Plus, JobInv, Typed, Removed
    <3>2. stats[d][f] \in Nat /\ told[d][f] \in Nat /\ lost[d][f] \in Nat
      BY <2>1 DEF Workers, JobInv, JobOk
    <3> HIDE DEF k
    <3>3. QED
      BY <1>1, <2>2, <3>1, <3>2 DEF Removals
  <2>5. \A e \in Workers : e # d => h[e] = g[e]
    <3>1. \A e \in Workers : e # d => stats'[e] = stats[e]
      BY <1>1, <2>1 DEF JobInv, Typed
    <3>2. QED
      BY <1>1, <2>1, <3>1 DEF Removals
  <2>6. Gone(f) = Total(g, Workers) /\ Gone(f)' = Total(h, Workers)
    BY <2>1 DEF Gone, Removals
  <2> HIDE DEF g, h, k
  <2>7. Gone(f)' = Gone(f) + k
    BY <2>1, <2>2, <2>3, <2>4, <2>5, <2>6, TotalGrows
  <2>8. QED
    BY <2>7 DEF k
<1>4. ASSUME NEW f \in Fields PROVE made[f] = Held(f)' + Gone(f)'
  <2>1. made[f] = Held(f) + Gone(f)
    BY DEF BookInv
  <2>2. Count(db, doomed[d])[f] \in Nat /\ Held(f) \in Nat /\ Gone(f) \in Nat
    BY <1>1, CountNat, GoneNat DEF Held, Inv, TypeInv
  <2>3. Held(f)' \in Nat
    <3>1. Rows(db')
      BY TransactionStep DEF Inv, TypeInv
    <3>2. QED
      BY <3>1, CountNat DEF Held
  <2>4. QED
    BY <1>2, <1>3, <2>1, <2>2, <2>3
<1>5. made' = [f \in Fields |-> made[f]]
  BY <1>1 DEF BookInv
<1>6. QED
  BY <1>4, <1>5 DEF BookInv

LEMMA JobStart == ASSUME Init PROVE JobInv
<1>1. /\ begun = 0 /\ MaxSess \in Nat /\ DOMAIN db.started = {}
      /\ stats = [d \in Deleters |-> None] /\ None = [f \in Fields |-> 0]
      /\ told = stats /\ lost = stats
      /\ job \in [Deleters -> Jobs] /\ pc = [d \in Deleters |-> "idle"]
  BY SessionLifecycleAssumption DEF Init, NoRows, None, Fields
<1>2. Typed(stats)
  BY <1>1 DEF Typed
<1>3. \A d \in Deleters : stats[d] = None /\ \A f \in Fields : stats[d][f] = 0
  BY <1>1
<1>4. \A d \in Deleters : JobOk(d)
  BY <1>1, <1>3 DEF JobOk, Fields, Holding
<1>5. QED
  BY <1>1, <1>2, <1>4 DEF JobInv, Typed

\* The others stand still, whatever is begun.
LEMMA OthersOk ==
  ASSUME JobInv, NEW e \in Deleters, job'[e] = job[e], stats'[e] = stats[e],
         told'[e] = told[e], lost'[e] = lost[e],
         pc'[e] = pc[e], doomed'[e] = doomed[e], begun' \in {begun, begun + 1}
  PROVE  JobOk(e)'
BY DEF JobInv, JobOk, Dry

\* A dry run shows no more sessions than there are.
LEMMA SessionsBegun ==
  ASSUME JobInv, NEW ids
  PROVE  /\ Count(db, ids).sessions \in Nat /\ Count(db, ids).sessions <= begun
         /\ DOMAIN Count(db, ids) = Fields
<1> DEFINE A == ids \cap DOMAIN db.started
<1>1. IsFiniteSet(1 .. begun) /\ Cardinality(1 .. begun) = begun /\ A \subseteq 1 .. begun
  <2>1. begun \in Nat /\ 1 \in Int /\ begun \in Int
    BY DEF JobInv
  <2>2. IsFiniteSet(1 .. begun) /\ Cardinality(1 .. begun) = begun
    BY <2>1, FS_Interval
  <2>3. QED
    BY <2>2 DEF JobInv
<1> HIDE DEF A
<1>2. Cardinality(A) <= begun /\ Cardinality(A) \in Nat
  BY <1>1, FS_Subset, FS_CardinalityType
<1>3. QED
  BY <1>2, CountIs DEF A

\* How a step of d's leaves the counts typed.
Changed(d) ==
  /\ stats' = stats \/ \E n : stats' = [stats EXCEPT ![d] = [f \in Fields |-> n[f]]]
  /\ told' = told \/ \E n : told' = [told EXCEPT ![d] = [f \in Fields |-> n[f]]]
  /\ lost' = lost \/ \E n : lost' = [lost EXCEPT ![d] = [f \in Fields |-> n[f]]]

LEMMA NoneIs == None = [f \in Fields |-> 0]
BY DEF None, Fields

LEMMA PreviewOk ==
  ASSUME JobInv, OneCondition, Inv, NEW d \in Deleters, PreviewOlder(d) \/ PreviewSize(d)
  PROVE  JobOk(d)' /\ Changed(d)
<1>1. PICK ids : stats' = [stats EXCEPT ![d] = Plus(@, Count(db, ids))]
  BY DEF PreviewOlder, PreviewSize
<1>2. /\ pc[d] \in {"older", "size"} /\ job[d].dry /\ job[d].kind = "prune" /\ Dry(d)
      /\ stats[d] = None /\ told[d] = None /\ lost[d] = None
      /\ UNCHANGED <<job, doomed, begun, told, lost>>
  BY DEF PreviewOlder, PreviewSize, JobInv, JobOk, writerVars, Dry
<1>3. \/ pc' = [pc EXCEPT ![d] = "report"]
      \/ pc' = [pc EXCEPT ![d] = "report_older"] /\ job[d].cutoff # 0
  <2>1. CASE PreviewOlder(d)
    <3>1. job[d].cutoff # 0 /\ job[d] \in Jobs
      BY <1>2, <2>1 DEF PreviewOlder, JobInv, JobOk
    <3>2. job[d].size = 0
      BY <1>2, <3>1 DEF OneCondition
    <3>3. QED
      BY <2>1, <3>1, <3>2 DEF PreviewOlder, Goto, AfterOlder, OlderDone
  <2>2. CASE PreviewSize(d)
    BY <2>2 DEF PreviewSize, Goto
  <2>3. QED
    BY <2>1, <2>2
<1>4. DOMAIN stats = Deleters
  BY DEF JobInv, Typed
<1>5. /\ stats'[d] = [f \in Fields |-> 0 + Count(db, ids)[f]]
      /\ stats' = [stats EXCEPT ![d] = [f \in Fields |-> 0 + Count(db, ids)[f]]]
  BY <1>1, <1>2, <1>4, NoneIs DEF Plus
<1>6. stats'[d].sessions \in Nat /\ stats'[d].sessions <= begun
  <2>1. stats'[d].sessions = 0 + Count(db, ids).sessions
    BY <1>5 DEF Fields
  <2>2. Count(db, ids).sessions \in Nat /\ Count(db, ids).sessions <= begun
    BY SessionsBegun
  <2>3. QED
    BY <2>1, <2>2
<1>7. pc'[d] = "report" \/ (pc'[d] = "report_older" /\ job[d].cutoff # 0)
  BY <1>3 DEF Inv, TypeInv
<1>8. told[d].sessions = 0
  BY <1>2, NoneIs DEF Fields
<1>9. JobOk(d)'
  <2>1. stats'[d].sessions + told'[d].sessions <= begun'
    BY <1>2, <1>6, <1>8
  <2>2. QED
    BY <1>2, <1>6, <1>7, <1>8, <2>1 DEF JobOk, JobInv, Dry, Holding
<1>10. Changed(d)
  <2> DEFINE n == [f \in Fields |-> 0 + Count(db, ids)[f]]
  <2>1. [f \in Fields |-> n[f]] = n /\ stats' = [stats EXCEPT ![d] = n]
    BY <1>5
  <2> HIDE DEF n
  <2>2. QED
    BY <1>2, <2>1 DEF Changed
<1>11. QED
  BY <1>9, <1>10

\* A deleter's steps that count nothing.
LEMMA MoveOk ==
  ASSUME JobInv, Inv, NEW d \in Deleters,
         \/ Start(d) \/ Measure(d) \/ PickOldest(d) \/ Exists(d) \/ BeginImmediate(d)
         \/ DeleteRows(d) \/ DeleteSession(d)
  PROVE  JobOk(d)' /\ Changed(d)
<1>1. UNCHANGED <<db, begun, job, countVars>> /\ Dry(d)' = Dry(d)
  BY DEF Start, Measure, PickOldest, Exists, BeginImmediate, DeleteRows, DeleteSession,
         writerVars, Dry
<1>2. /\ job[d] \in Jobs
      /\ job[d].kind \in {"delete", "prune"}
      /\ DOMAIN db.started \subseteq Ids
  <2>1. job[d] \in Jobs
    BY DEF JobInv, JobOk
  <2>2. job[d].kind \in {"delete", "prune"}
    BY <2>1, SessionLifecycleAssumption
  <2>3. /\ begun \in Nat /\ MaxSess \in Nat /\ begun <= MaxSess
        /\ DOMAIN db.started \subseteq 1 .. begun
    BY SessionLifecycleAssumption DEF JobInv
  <2>4. QED
    BY <2>1, <2>2, <2>3 DEF Ids
<1>3. DOMAIN pc = Deleters /\ DOMAIN doomed = Deleters
  BY DEF Inv, TypeInv
<1>4. /\ pc'[d] \in {"oldest", "exists", "begin"} \cup Holding => ~Dry(d)
      /\ pc'[d] \in {"begin"} \cup Holding => doomed'[d] \subseteq Ids
      /\ pc'[d] \in {"older", "report_older", "size", "oldest", "rows_older", "session_older",
                    "commit_older"} => job[d].kind = "prune"
      /\ pc'[d] # "done" /\ pc[d] # "failed"
      /\ Dry(d) => /\ pc[d] = "idle"
                   /\ pc'[d] \in {"older", "report_older"} => job[d].cutoff # 0
  <2> USE DEF JobInv, JobOk
  <2>1. CASE Start(d)
    BY <1>2, <1>3, <2>1 DEF Start, Goto, AfterOlder, Holding, Dry
  <2>2. CASE Measure(d) \/ PickOldest(d)
    BY <1>2, <1>3, <2>2 DEF Measure, PickOldest, Goto, Holding, Dry
  <2>3. CASE Exists(d)
    BY <1>2, <1>3, <2>3 DEF Exists, Goto, Holding, Dry
  <2>4. CASE BeginImmediate(d)
    BY <1>2, <1>3, <2>4 DEF BeginImmediate, Before, Goto, Holding, Dry
  <2>5. CASE DeleteRows(d) \/ DeleteSession(d)
    BY <1>2, <1>3, <2>5 DEF DeleteRows, DeleteSession, Goto, Holding, Dry
  <2>6. QED
    BY <2>1, <2>2, <2>3, <2>4, <2>5
<1>5. UNCHANGED <<stats, told, lost>>
  BY <1>1 DEF countVars
<1>6. QED
  BY <1>1, <1>4, <1>5 DEF JobOk, JobInv, Changed

LEMMA CommitOk ==
  ASSUME JobInv, Inv, NEW d \in Deleters, CommitDelete(d)
  PROVE  /\ JobOk(d)' /\ Changed(d)
         /\ DOMAIN db'.started \subseteq DOMAIN db.started
<1> DEFINE n == [f \in Fields |-> stats[d][f] + Removed(d)[f]]
<1>1. /\ ~Dry(d) /\ doomed[d] \in SUBSET Ids /\ UNCHANGED <<begun, job, told, lost>>
      /\ Dry(d)' = Dry(d) /\ pc[d] \in Holding
      /\ db' = WithoutSessions(WithoutRows(db, doomed[d]), doomed[d])
      /\ job[d] \in Jobs
  BY DEF CommitDelete, JobInv, JobOk, Holding, Inv, TxInv, writerVars, Dry
<1>2. stats' = [stats EXCEPT ![d] = n]
  BY DEF CommitDelete, Plus, JobInv, Typed
<1>3. \A f \in Fields : Removed(d)[f] \in Nat
  BY <1>1, CountNat DEF Removed, Inv, TypeInv
<1>4. \A f \in Fields : n[f] \in Nat
  BY <1>1, <1>3 DEF JobInv, JobOk
<1>5. /\ pc'[d] \in {"report_older", "size", "report"}
      /\ pc'[d] \in {"report_older", "size"} => job[d].kind = "prune"
  <2>1. job[d].kind \in {"delete", "prune"}
    BY <1>1, SessionLifecycleAssumption
  <2>2. QED
    BY <2>1 DEF CommitDelete, Goto, AfterCommit, OlderDone, AfterOlder, JobInv, JobOk, Inv,
                TypeInv
<1>6. stats'[d] = n
  BY <1>2 DEF JobInv, Typed
<1>7. n = [f \in Fields |-> n[f]]
  OBVIOUS
<1> HIDE DEF n
<1>8. JobOk(d)'
  BY <1>1, <1>4, <1>5, <1>6 DEF JobOk, JobInv, Holding, Fields
<1>9. DOMAIN db'.started \subseteq DOMAIN db.started
  BY <1>1 DEF WithoutSessions, WithoutRows, Inv, TypeInv, Rows
<1>10. Changed(d)
  BY <1>1, <1>2, <1>7 DEF Changed
<1>11. QED
  BY <1>8, <1>9, <1>10

\* What is told is counted no more; with both conditions, neither is a dry run's.
LEMMA ReportOk ==
  ASSUME JobInv, OneCondition, Inv, NEW d \in Deleters, Report(d)
  PROVE  JobOk(d)' /\ Changed(d)
<1> DEFINE n == [f \in Fields |-> told[d][f] + stats[d][f]]
<1>1. /\ UNCHANGED <<begun, job, lost, doomed>> /\ Dry(d)' = Dry(d) /\ job[d] \in Jobs
      /\ pc[d] \in {"report_older", "report"}
      /\ stats' = [stats EXCEPT ![d] = [f \in Fields |-> 0]]
  BY NoneIs DEF Report, writerVars, Dry, JobInv, JobOk
<1>2. told' = [told EXCEPT ![d] = n]
  BY DEF Report, Plus, JobInv, Typed
<1>3. stats'[d] = None /\ told'[d] = n /\ lost[d] = None
  BY <1>1, <1>2, NoneIs DEF JobInv, JobOk, Typed
<1>4. n = [f \in Fields |-> n[f]] /\ n.sessions = told[d].sessions + stats[d].sessions
  BY DEF Fields
<1>5. /\ ~Dry(d) => \A f \in Fields : n[f] \in Nat
      /\ stats[d].sessions \in Nat /\ told[d].sessions \in Nat
      /\ Dry(d) => stats[d].sessions + told[d].sessions <= begun
  BY DEF JobInv, JobOk
<1> HIDE DEF n
<1>6. /\ pc'[d] \in {"size", "report", "done"}
      /\ pc'[d] = "size" => ~Dry(d) /\ job[d].kind = "prune"
  <2>1. pc'[d] = IF pc[d] = "report_older" THEN AfterOlder(d) ELSE "done"
    BY DEF Report, Goto, Inv, TypeInv
  <2>2. CASE pc[d] = "report_older"
    <3>1. job[d].kind = "prune" /\ (Dry(d) => job[d].cutoff # 0)
      BY <2>2 DEF JobInv, JobOk
    <3>2. Dry(d) => job[d].size = 0
      BY <1>1, <3>1 DEF OneCondition, Dry
    <3>3. QED
      BY <2>1, <2>2, <3>1, <3>2 DEF AfterOlder
  <2>3. QED
    BY <1>1, <2>1, <2>2
<1>7. stats'[d].sessions = 0 /\ \A f \in Fields : stats'[d][f] = 0
  BY <1>3, NoneIs DEF Fields
<1>8. told'[d].sessions \in Nat /\ (Dry(d) => stats'[d].sessions + told'[d].sessions <= begun)
  <2>1. begun \in Nat
    BY DEF JobInv
  <2>2. QED
    BY <1>3, <1>4, <1>5, <1>7, <2>1
<1>9. ~Dry(d) => \A f \in Fields : told'[d][f] \in Nat /\ lost'[d][f] \in Nat
  BY <1>1, <1>3, <1>5 DEF JobInv, JobOk
<1>10. JobOk(d)'
  BY <1>1, <1>3, <1>6, <1>7, <1>8, <1>9 DEF JobOk, Holding
<1>11. Changed(d)
  <2>1. \E m : stats' = [stats EXCEPT ![d] = [f \in Fields |-> m[f]]]
    <3> DEFINE m == [f \in Fields |-> 0]
    <3>1. m = [f \in Fields |-> m[f]] /\ stats' = [stats EXCEPT ![d] = m]
      BY <1>1
    <3> HIDE DEF m
    <3>2. QED
      BY <3>1
  <2>2. QED
    BY <1>1, <1>2, <1>4, <2>1 DEF Changed
<1>12. QED
  BY <1>10, <1>11

\* What was counted and not told is dropped.
LEMMA FailOk ==
  ASSUME JobInv, Inv, NEW d \in Deleters, Fail(d)
  PROVE  JobOk(d)' /\ Changed(d)
<1> DEFINE n == [f \in Fields |-> lost[d][f] + stats[d][f]]
<1>1. /\ UNCHANGED <<begun, job, told>> /\ Dry(d)' = Dry(d) /\ job[d] \in Jobs
      /\ stats' = [stats EXCEPT ![d] = [f \in Fields |-> 0]]
  BY NoneIs DEF Fail, writerVars, Dry, JobInv, JobOk
<1>2. IF Dry(d) THEN lost' = lost ELSE lost' = [lost EXCEPT ![d] = n]
  BY DEF Fail, Plus, JobInv, Typed
<1>3. stats'[d] = None /\ (~Dry(d) => lost'[d] = n) /\ pc'[d] = "failed"
  BY <1>1, <1>2, NoneIs DEF JobInv, Typed, Fail, Goto, Inv, TypeInv
<1>4. n = [f \in Fields |-> n[f]] /\ (~Dry(d) => \A f \in Fields : n[f] \in Nat)
  BY DEF JobInv, JobOk
<1> HIDE DEF n
<1>5. stats'[d].sessions = 0 /\ \A f \in Fields : stats'[d][f] = 0
  BY <1>3, NoneIs DEF Fields
<1>6. /\ told[d].sessions \in Nat /\ (Dry(d) => 0 + told[d].sessions <= begun)
      /\ ~Dry(d) => \A f \in Fields : told[d][f] \in Nat
  BY DEF JobInv, JobOk
<1>7. JobOk(d)'
  BY <1>1, <1>3, <1>4, <1>5, <1>6 DEF JobOk, Holding
<1>8. Changed(d)
  <2>1. \E m : stats' = [stats EXCEPT ![d] = [f \in Fields |-> m[f]]]
    <3> DEFINE m == [f \in Fields |-> 0]
    <3>1. m = [f \in Fields |-> m[f]] /\ stats' = [stats EXCEPT ![d] = m]
      BY <1>1
    <3> HIDE DEF m
    <3>2. QED
      BY <3>1
  <2>2. QED
    BY <1>1, <1>2, <1>4, <2>1 DEF Changed
<1>9. QED
  BY <1>7, <1>8

LEMMA TypedKept ==
  ASSUME NEW counts, NEW after, NEW d \in Deleters, Typed(counts),
         after = counts \/ \E n : after = [counts EXCEPT ![d] = [f \in Fields |-> n[f]]]
  PROVE  Typed(after) /\ \A e \in Deleters : e # d => after[e] = counts[e]
BY DEF Typed

LEMMA JobStep ==
  ASSUME Inv, JobInv, BookInv, IsFiniteSet(Deleters), OneCondition, Next
  PROVE  JobInv'
<1>1. CASE Write
  <2>1. /\ job' = job /\ UNCHANGED <<stats, told, lost>> /\ pc' = pc /\ doomed' = doomed
        /\ begun' \in {begun, begun + 1} /\ begun' <= MaxSess
        /\ DOMAIN db'.started \subseteq 1 .. begun'
    BY <1>1, WriteCounts DEF countVars
  <2>2. \A e \in Deleters : JobOk(e)'
    BY <2>1, OthersOk
  <2>3. begun' \in Nat
    BY <2>1 DEF JobInv
  <2>4. Typed(stats)' /\ Typed(told)' /\ Typed(lost)'
    BY <2>1 DEF JobInv, Typed
  <2>5. QED
    BY <2>1, <2>2, <2>3, <2>4 DEF JobInv
<1>2. ASSUME NEW d \in Deleters, Delete(d) PROVE JobInv'
  <2>1. JobOk(d)' /\ Changed(d)
    BY <1>2, PreviewOk, MoveOk, CommitOk, ReportOk, FailOk DEF Delete
  <2>2. DOMAIN db'.started \subseteq DOMAIN db.started
    BY <1>2, CommitOk
    DEF Delete, Start, PreviewOlder, PreviewSize, Measure, PickOldest, Exists,
        BeginImmediate, DeleteRows, DeleteSession, Report, Fail
  <2>3. UNCHANGED <<begun, job>>
    BY <1>2 DEF Delete, Start, PreviewOlder, PreviewSize, Measure, PickOldest, Exists,
        BeginImmediate, DeleteRows, DeleteSession, CommitDelete, Report, Fail, writerVars
  <2>4. /\ Typed(stats') /\ \A e \in Deleters : e # d => stats'[e] = stats[e]
        /\ Typed(told') /\ \A e \in Deleters : e # d => told'[e] = told[e]
        /\ Typed(lost') /\ \A e \in Deleters : e # d => lost'[e] = lost[e]
    BY <2>1, TypedKept DEF Changed, JobInv
  <2>5. /\ doomed' = doomed \/ \E x : doomed' = [doomed EXCEPT ![d] = x]
        /\ pc' = pc \/ \E x : pc' = [pc EXCEPT ![d] = x]
    BY <1>2 DEF Delete, Start, PreviewOlder, PreviewSize, Measure, PickOldest, Exists,
        BeginImmediate, DeleteRows, DeleteSession, CommitDelete, Report, Fail, Goto
  <2>6. ASSUME NEW e \in Deleters, e # d PROVE JobOk(e)'
    <3>1. pc'[e] = pc[e] /\ doomed'[e] = doomed[e]
      BY <2>5, <2>6 DEF Inv, TypeInv
    <3>2. QED
      BY <2>3, <2>4, <2>6, <3>1, OthersOk
  <2>7. begun' \in Nat /\ begun' <= MaxSess /\ DOMAIN db'.started \subseteq 1 .. begun'
    BY <2>2, <2>3 DEF JobInv
  <2>8. Typed(stats)' /\ Typed(told)' /\ Typed(lost)'
    BY <2>4 DEF Typed
  <2>9. QED
    BY <2>1, <2>6, <2>7, <2>8 DEF JobInv
<1>3. QED
  BY <1>1, <1>2 DEF Next

LEMMA BookStart == ASSUME Init, IsFiniteSet(Deleters) PROVE BookInv
<1>1. /\ db.started = <<>> /\ DOMAIN db.started = {}
      /\ db.messages = [s \in Ids |-> 0] /\ db.events = [s \in Ids |-> 0]
      /\ stats = [d \in Deleters |-> None] /\ None = [f \in Fields |-> 0] /\ made = None
      /\ told = stats /\ lost = stats
  BY DEF Init, NoRows, None, Fields
<1>2. ASSUME NEW T, IsFiniteSet(T), NEW g, \A t \in T : g[t] = 0 PROVE Total(g, T) = 0
  <2>1. Total(g, T) = Total(g, T) + Total(g, T)
    <3>1. \A t \in T : g[t] \in Nat /\ g[t] = IF t \in T THEN 0 ELSE g[t]
      BY <1>2
    <3>2. Total(g, T) = Total(g, T) + Total(g, T \cap T)
      BY <1>2, <3>1, TotalSplits
    <3>3. T \cap T = T
      OBVIOUS
    <3>4. QED
      BY <3>2, <3>3
  <2>2. Total(g, T) \in Nat
    <3>1. \A t \in T : g[t] \in Nat
      BY <1>2
    <3>2. QED
      BY <1>2, <3>1, TotalNat
  <2> DEFINE t == Total(g, T)
  <2> HIDE DEF t
  <2>3. t \in Nat /\ t = t + t => t = 0
    OBVIOUS
  <2>4. QED
    BY <2>1, <2>2, <2>3 DEF t
<1>3. \A f \in Fields : Held(f) = 0
  <2>1. Cardinality(Ids \cap DOMAIN db.started) = 0
    BY <1>1, FS_EmptySet
  <2>2. Total(db.messages, Ids) = 0 /\ Total(db.events, Ids) = 0
    BY <1>1, <1>2, IdsFinite
  <2>3. QED
    BY <2>1, <2>2, CountIs DEF Held, Fields
<1>4. ASSUME NEW f \in Fields PROVE Gone(f) = 0
  <2> DEFINE g == [d \in Deleters |-> Removals(d, f)]
  <2>1. IsFiniteSet(Workers)
    BY FS_Subset DEF Workers
  <2>2. \A d \in Workers : g[d] = 0
    BY <1>1 DEF Workers, Removals
  <2>3. Gone(f) = Total(g, Workers)
    BY DEF Gone
  <2> HIDE DEF g
  <2>4. QED
    BY <1>2, <2>1, <2>2, <2>3
<1>5. QED
  BY <1>1, <1>3, <1>4 DEF BookInv

LEMMA BookStep ==
  ASSUME Inv, JobInv, BookInv, IsFiniteSet(Deleters), Next
  PROVE  BookInv'
<1>1. CASE Write
  <2>1. PICK k \in [Fields -> Nat] : /\ \A f \in Fields : Held(f)' = Held(f) + k[f]
                                     /\ made' = [f \in Fields |-> made[f] + k[f]]
    BY <1>1, WriteCounts
  <2>2. job' = job /\ UNCHANGED <<stats, told, lost>>
    BY <1>1, WriteCounts DEF countVars
  <2>3. \A f \in Fields : Gone(f)' = Gone(f)
    BY <2>2, GoneSame DEF Removals
  <2>4. ASSUME NEW f \in Fields PROVE made[f] + k[f] = Held(f)' + Gone(f)'
    <3>1. made[f] = Held(f) + Gone(f) /\ Gone(f) \in Nat /\ Held(f) \in Nat /\ k[f] \in Nat
      BY <2>1, GoneNat, CountNat DEF BookInv, Held, Inv, TypeInv
    <3>2. QED
      BY <2>1, <2>3, <3>1
  <2>5. QED
    BY <2>1, <2>4 DEF BookInv
<1>2. QED
  BY <1>1, QuietStep, CommitStep DEF Next, Delete

LEMMA BooksBalance ==
  ASSUME JobInv, BookInv, IsFiniteSet(Deleters)
  PROVE  TotalsAreTrue
<1>1. ASSUME NEW f \in Fields PROVE Column(Counted, f, Workers) = Gone(f)
  <2> DEFINE g == [d \in Deleters |-> Removals(d, f)]
  <2>1. IsFiniteSet(Workers)
    BY FS_Subset DEF Workers
  <2>2. \A d \in Workers : g[d] = Counted[d][f]
    <3> SUFFICES ASSUME NEW d \in Workers PROVE g[d] = Counted[d][f]
      OBVIOUS
    <3>1. d \in Deleters /\ DOMAIN stats[d] = Fields /\ DOMAIN told[d] = Fields
      BY DEF Workers, JobInv, Typed
    <3>2. Plus(told[d], lost[d]) = [x \in Fields |-> told[d][x] + lost[d][x]]
      BY <3>1 DEF Plus
    <3>3. Plus(stats[d], Plus(told[d], lost[d])) = [x \in Fields |-> Removals(d, x)]
      BY <3>1, <3>2 DEF Plus, Removals
    <3>4. QED
      BY <3>1, <3>3 DEF Counted
  <2> HIDE DEF g
  <2>3. Column(Counted, f, Workers) = Total(g, Workers)
    BY <2>1, <2>2, TotalOfField
  <2>4. QED
    BY <2>3 DEF g, Gone
<1> DEFINE S(f) == Column(Counted, f, Workers)
<1>2. DOMAIN None = Fields
  BY DEF None, Fields
<1>3. EveryRowAccountedFor <=> made = Plus(Count(db, Ids), [f \in Fields |-> S(f)])
  BY <1>2, Zenon DEF EveryRowAccountedFor, Workers, Column
<1>4. \A f \in Fields : S(f) = Gone(f)
  BY <1>1
<1> HIDE DEF S
<1>5. Plus(Count(db, Ids), [f \in Fields |-> S(f)]) = [f \in Fields |-> Held(f) + Gone(f)]
  BY <1>4, CountIs DEF Plus, Held
<1>6. DryRunCountsOnce
  <2> SUFFICES ASSUME NEW d \in Deleters, Dry(d) PROVE told[d].sessions <= begun
    BY DEF DryRunCountsOnce
  <2>1. /\ stats[d].sessions \in Nat /\ told[d].sessions \in Nat /\ begun \in Nat
        /\ stats[d].sessions + told[d].sessions <= begun
    BY DEF JobInv, JobOk
  <2>2. QED
    BY <2>1
<1>7. EndMeansTold
  BY DEF EndMeansTold, JobInv, JobOk
<1>8. QED
  BY <1>3, <1>5, <1>6, <1>7 DEF BookInv, TotalsAreTrue

\* What the store was given is in it or is counted as removed, once, however many deletes
\* and prunes run beside the recording and fail; one that comes to its end has reported
\* all that it removed; and a dry run with one condition reports no session twice
\* (PruneStats of delete_session and prune_sessions_before, added up and told by prune.rs
\* and the dashboard's handlers).
THEOREM TotalsStayTrue ==
  ASSUME IsFiniteSet(Deleters), OneCondition PROVE Spec => []TotalsAreTrue
<1> DEFINE All == Inv /\ JobInv /\ BookInv
<1>1. Init => All
  BY InvStart, JobStart, BookStart
<1>2. All /\ [Next]_vars => All'
  <2> SUFFICES ASSUME Inv, JobInv, BookInv, [Next]_vars PROVE All'
    OBVIOUS
  <2>1. CASE UNCHANGED vars
    <3>1. Inv'
      BY <2>1 DEF vars, deleterVars, Inv, TypeInv, Rows, LockInv, TxInv, NoOrphans
    <3>2. JobInv'
      BY <2>1 DEF vars, deleterVars, countVars, writerVars, JobInv, JobOk, Typed, Dry
    <3>3. BookInv'
      BY <2>1 DEF vars, deleterVars, countVars, writerVars, BookInv, Held, Gone, Removals,
                  Workers, Dry
    <3>4. QED
      BY <3>1, <3>2, <3>3
  <2>2. CASE Next
    <3>1. Inv'
      BY <2>2, WriteStep, OutsideStep, TransactionStep, FailStep DEF Next, Delete
    <3>2. QED
      BY <2>2, <3>1, JobStep, BookStep
  <2>3. QED
    BY <2>1, <2>2
<1>3. All => TotalsAreTrue
  BY BooksBalance
<1>4. QED
  <2> HIDE DEF All
  <2>1. QED
    BY <1>1, <1>2, <1>3, PTL DEF Spec
=============================================================================
