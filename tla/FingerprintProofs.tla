--------------------------- MODULE FingerprintProofs ---------------------------
(***************************************************************************)
(* What tool pinning promises, for every set of servers, tools,            *)
(* definitions and sessions, for every table an older release can leave    *)
(* and every interleaving.                                                 *)
(*                                                                         *)
(* The table: a definition is claimed by one row at most (OneMatch), and   *)
(* no transaction meets the UNIQUE index (NeverRejected).  Neither is      *)
(* inductive: OneMatch survives a re-key only because a server and its     *)
(* legacy key never hold rows of one tool at a time (Apart), and the index *)
(* is met only if two rows claim a definition.  TableInv is their          *)
(* conjunction with the type of the table.                                 *)
(*                                                                         *)
(* The verdicts: what was last logged of a tool is the row that leads its  *)
(* history (LastInv), because what is yet to be recorded was seen later    *)
(* (OrderInv) and every row was seen when the log says (SeenInv).          *)
(*                                                                         *)
(* The baselines: until a tool is first logged its old rows are all that   *)
(* there is of it, under the legacy key or under the new one (FirstInv).   *)
(*                                                                         *)
(* The alerts: a change is owed by one session until it is written         *)
(* (OwedInv).                                                              *)
(***************************************************************************)
EXTENDS FingerprintStore, FiniteSetTheorems, SequenceTheorems, WellFoundedInduction, TLAPS

USE FingerprintAssumption

\* What TypeOK, OneMatch and the re-key argument say of a table R.
Shaped(R, b, c) ==
  \A r \in R : r \in Row /\ r.id < b /\ r.seen < c /\ \E d \in Defs : Matches(r, d)
IdsOnce(R) == \A r, q \in R : r.id = q.id => r = q
Distinct(R) ==
  \A r, q \in R :
    r.key = q.key /\ r.tool = q.tool /\ r.id # q.id =>
      \A d \in Defs : ~(Matches(r, d) /\ Matches(q, d))
Apart(R) ==
  \A s \in Servers, r, q \in R : r.key = s /\ q.key = LegacyKey[s] => r.tool # q.tool

Sound(R, b, c) == Shaped(R, b, c) /\ IdsOnce(R) /\ Distinct(R) /\ Apart(R)

-----------------------------------------------------------------------------
(* The latest row of a history is one of its rows.                         *)

LEMMA LeastNatural ==
  ASSUME NEW T \in SUBSET Nat, T # {}
  PROVE  \E x \in T : \A y \in T : x <= y
<1>1. PICK x \in T : \A y \in T : ~ (<<y, x>> \in OpToRel(<, Nat))
  BY NatLessThanWellFounded, WFMin
<1>2. ASSUME NEW y \in T
      PROVE  x <= y
  <2>1. ~ (y < x)
    BY <1>1, <1>2 DEF OpToRel
  <2>2. QED
    BY <2>1
<1>3. QED
  BY <1>2

LEMMA GreatestBelow ==
  ASSUME NEW c \in Nat, NEW T \in SUBSET Nat, T # {}, \A x \in T : x < c
  PROVE  \E x \in T : \A y \in T : y <= x
<1> DEFINE D == {c - x : x \in T}
<1>1. D \in SUBSET Nat /\ D # {}
  <2>1. \A x \in T : c - x \in Nat
    OBVIOUS
  <2>2. QED
    BY <2>1
<1>2. PICK z \in D : \A y \in D : z <= y
  BY <1>1, LeastNatural
<1>3. PICK x \in T : z = c - x
  BY <1>2
<1>4. ASSUME NEW y \in T
      PROVE  y <= x
  <2>1. c - y \in D
    OBVIOUS
  <2>2. c - x <= c - y
    BY <1>2, <1>3, <2>1
  <2>3. c \in Nat /\ x \in Nat /\ y \in Nat
    OBVIOUS
  <2>4. QED
    BY <2>2, <2>3
<1> QED
  BY <1>4

\* fingerprint_history's order has a first row whenever there is a row.
LEMMA LatestIsOne ==
  ASSUME NEW b \in Nat, NEW c \in Nat, NEW H, H # {},
         \A r \in H : r \in Row /\ r.id < b /\ r.seen < c
  PROVE  /\ Latest(H) \in H
         /\ \A q \in H : \/ q.seen < Latest(H).seen
                         \/ q.seen = Latest(H).seen /\ q.id <= Latest(H).id
<1> DEFINE S == {r.seen : r \in H}
<1>1. S \in SUBSET Nat /\ S # {} /\ \A x \in S : x < c
  BY DEF Row
<1>2. PICK m \in S : \A y \in S : y <= m
  BY <1>1, GreatestBelow
<1> DEFINE G == {r \in H : r.seen = m}
           I == {r.id : r \in G}
<1>3. I \in SUBSET Nat /\ I # {} /\ \A x \in I : x < b
  BY <1>2 DEF Row
<1>4. PICK k \in I : \A y \in I : y <= k
  BY <1>3, GreatestBelow
<1>5. PICK r \in G : r.id = k
  BY <1>4
<1>6. \A q \in H : q.seen < r.seen \/ (q.seen = r.seen /\ q.id <= r.id)
  <2> SUFFICES ASSUME NEW q \in H
               PROVE  q.seen < r.seen \/ (q.seen = r.seen /\ q.id <= r.id)
    OBVIOUS
  <2>1. q.seen \in Nat /\ q.seen <= m /\ r.seen = m /\ m \in Nat
    BY <1>1, <1>2 DEF Row
  <2>2. CASE q.seen = m
    BY <2>1, <2>2, <1>4, <1>5
  <2>3. CASE q.seen # m
    BY <2>1, <2>3
  <2> QED
    BY <2>2, <2>3
<1> QED
  BY <1>5, <1>6 DEF Latest

-----------------------------------------------------------------------------
(* The three ways a transaction changes the table keep it sound.           *)

\* Two rows with one key, tool and hash are of one version and claim one definition.
LEMMA SoundIsUnique ==
  ASSUME NEW b \in Nat, NEW c \in Nat, NEW R, Sound(R, b, c)
  PROVE  UniqueIndex(R)
<1> SUFFICES ASSUME NEW r \in R, NEW q \in R,
                    r.key = q.key, r.tool = q.tool, r.fp = q.fp, r.id # q.id
             PROVE  FALSE
  BY DEF UniqueIndex
<1>1. PICK d \in Defs : r.fp = Hash(r.ver, d)
  BY DEF Sound, Shaped, Matches
<1>2. PICK e \in Defs : q.fp = Hash(q.ver, e)
  BY DEF Sound, Shaped, Matches
<1>3. r.ver \in Versions /\ q.ver \in Versions
  BY DEF Sound, Shaped, Row
<1>4. r.ver = q.ver
  <2>1. \A f, g \in Defs, v, w \in Versions : Hash(v, f) = Hash(w, g) => v = w
    BY HashAssumption
  <2>2. Hash(r.ver, d) = Hash(q.ver, e)
    BY <1>1, <1>2
  <2> HIDE DEF Versions
  <2> QED
    BY <1>3, <2>1, <2>2
<1>5. Matches(r, d) /\ Matches(q, d)
  BY <1>1, <1>2, <1>4 DEF Matches
<1> QED
  BY <1>5 DEF Sound, Distinct

\* Re-keying: what moves is apart, by tool, from what the new key holds already,
\* and nothing is left on the legacy key.
LEMMA RekeyedSound ==
  ASSUME NEW b \in Nat, NEW c \in Nat, NEW R, Sound(R, b, c),
         NEW s \in Servers, NEW t \in Tools
  PROVE  /\ Sound(Rekeyed(R, s, t), b, c)
         /\ History(Rekeyed(R, s, t), s, t) = {} =>
              History(Rekeyed(R, s, t), LegacyKey[s], t) = {}
<1> DEFINE Moved(r) == IF r.key = LegacyKey[s] THEN [r EXCEPT !.key = s] ELSE r
           Q == {Moved(r) : r \in R}
           guard == /\ History(R, s, t) = {} /\ s # LegacyKey[s]
                    /\ History(R, LegacyKey[s], t) # {}
<1>1. CASE ~guard
  <2>1. Rekeyed(R, s, t) = R
    BY <1>1 DEF Rekeyed
  <2>2. s # LegacyKey[s]
    OBVIOUS
  <2> QED
    BY <1>1, <2>1, <2>2
<1>2. CASE guard
  <2>1. Rekeyed(R, s, t) = Q
    BY <1>2 DEF Rekeyed
  <2>2. LegacyKey[s] \notin Servers
    OBVIOUS
  <2>3. ASSUME NEW r \in R
        PROVE  /\ Moved(r) \in Row /\ Moved(r).key # LegacyKey[s]
               /\ Moved(r).key = IF r.key = LegacyKey[s] THEN s ELSE r.key
               /\ Moved(r).id = r.id /\ Moved(r).tool = r.tool /\ Moved(r).seen = r.seen
               /\ Moved(r).fp = r.fp /\ Moved(r).ver = r.ver
    <3>1. r \in Row
      BY DEF Sound, Shaped
    <3>2. CASE r.key = LegacyKey[s]
      BY <2>2, <3>1, <3>2 DEF Row, Keys
    <3>3. CASE r.key # LegacyKey[s]
      BY <2>2, <3>1, <3>3 DEF Row, Keys
    <3> QED
      BY <3>2, <3>3
  <2> HIDE DEF Moved
  <2>4. Shaped(Q, b, c)
    BY <2>3 DEF Shaped, Sound, Matches
  <2>5. IdsOnce(Q)
    BY <2>3 DEF IdsOnce, Sound
  <2>6. Distinct(Q)
    <3> SUFFICES ASSUME NEW r \in R, NEW q \in R, NEW d \in Defs,
                        Moved(r).key = Moved(q).key, r.tool = q.tool, r.id # q.id,
                        Matches(r, d), Matches(q, d)
                 PROVE  FALSE
      BY <2>3 DEF Distinct, Matches
    <3>1. CASE r.key = q.key
      BY <3>1 DEF Sound, Distinct
    <3>2. CASE r.key # q.key
      <4>1. \/ r.key = s /\ q.key = LegacyKey[s]
            \/ q.key = s /\ r.key = LegacyKey[s]
        BY <2>3, <3>2
      <4> QED
        BY <4>1 DEF Sound, Apart
    <3> QED
      BY <3>1, <3>2
  <2>7. Apart(Q)
    <3> SUFFICES ASSUME NEW z \in Servers, NEW r \in R, NEW q \in R,
                        Moved(r).key = z, Moved(q).key = LegacyKey[z], r.tool = q.tool
                 PROVE  FALSE
      BY <2>3 DEF Apart
    <3>1. LegacyKey[z] \notin Servers
      OBVIOUS
    <3>2. q.key = LegacyKey[z]
      BY <2>3, <3>1
    <3>3. z # s
      BY <2>3
    <3>4. r.key = z
      BY <2>3, <3>3
    <3> QED
      BY <3>2, <3>4 DEF Sound, Apart
  <2>8. History(Q, LegacyKey[s], t) = {}
    BY <2>3 DEF History
  <2> QED
    BY <2>1, <2>4, <2>5, <2>6, <2>7, <2>8 DEF Sound
<1> QED
  BY <1>1, <1>2

\* Inserting a definition no row of the tool claims, under an id never used.
LEMMA InsertSound ==
  ASSUME NEW b \in Nat, NEW c \in Nat, NEW R, Sound(R, b, c),
         NEW s \in Servers, NEW t \in Tools, NEW d \in Defs, NEW ts \in 0 .. c - 1,
         \A r \in R : r.key = s /\ r.tool = t => ~Matches(r, d),
         History(R, s, t) = {} => History(R, LegacyKey[s], t) = {}
  PROVE  Sound(R \cup {NewRow(b, s, t, d, ts)}, b + 1, c)
<1> DEFINE n == NewRow(b, s, t, d, ts)
<1>1. /\ n \in Row /\ n.id = b /\ n.key = s /\ n.tool = t /\ n.fp = Hash(3, d)
      /\ n.ver = 3 /\ n.seen = ts
  BY DEF NewRow, Row, Keys, Versions
<1> HIDE DEF n
<1>2. \A r \in R : r \in Row /\ r.id \in Nat /\ r.id < b /\ r.id # b
  BY DEF Sound, Shaped, Row
<1>3. Shaped(R \cup {n}, b + 1, c)
  BY <1>1, <1>2 DEF Sound, Shaped, Matches
<1>4. IdsOnce(R \cup {n})
  BY <1>1, <1>2 DEF Sound, IdsOnce
<1>5. ASSUME NEW r \in R, NEW e \in Defs, r.key = s, r.tool = t, Matches(r, e), Matches(n, e)
      PROVE  FALSE
  <2>1. r.ver \in Versions /\ 3 \in Versions /\ r.ver <= 3
    BY <1>2 DEF Row, Versions
  <2>2. Hash(3, e) = Hash(3, d)
    BY <1>1, <1>5 DEF Matches
  <2>3. Hash(r.ver, e) = Hash(r.ver, d)
    BY <2>1, <2>2, HashAssumption
  <2> QED
    BY <1>5, <2>3 DEF Matches
<1>6. Distinct(R \cup {n})
  BY <1>1, <1>5 DEF Sound, Distinct
<1>7. Apart(R \cup {n})
  <2> SUFFICES ASSUME NEW z \in Servers, NEW r \in R \cup {n}, NEW q \in R \cup {n},
                      r.key = z, q.key = LegacyKey[z], r.tool = q.tool
               PROVE  FALSE
    BY DEF Apart
  <2>1. q \in R
    BY <1>1
  <2>2. CASE r \in R
    BY <2>1, <2>2 DEF Sound, Apart
  <2>3. CASE r = n
    <3>1. q.key = LegacyKey[s] /\ q.tool = t
      BY <1>1, <2>3
    <3>2. PICK h \in R : h.key = s /\ h.tool = t
      BY <2>1, <3>1 DEF History
    <3> QED
      BY <2>1, <3>1, <3>2 DEF Sound, Apart
  <2> QED
    BY <2>2, <2>3
<1> QED
  BY <1>3, <1>4, <1>6, <1>7 DEF Sound, n

\* Refreshing the row that claims d: re-pinned to the current hash it claims no
\* definition that it did not claim before.
LEMMA TouchSound ==
  ASSUME NEW b \in Nat, NEW c \in Nat, NEW R, Sound(R, b, c),
         NEW m \in R, NEW d \in Defs, NEW ts \in 0 .. c - 1, Matches(m, d)
  PROVE  Sound((R \ {m}) \cup {Touched(m, d, ts)}, b, c)
<1> DEFINE n == Touched(m, d, ts)
           Q == (R \ {m}) \cup {n}
<1>0. m \in Row /\ m.ver \in Versions /\ 3 \in Versions /\ m.ver <= 3
  BY DEF Sound, Shaped, Row, Versions
<1>1. /\ n \in Row /\ n.id = m.id /\ n.key = m.key /\ n.tool = m.tool /\ n.seen = ts
      /\ n.ver = 3 /\ n.fp = Hash(3, d)
  <2>1. CASE m.ver < 3
    <3> DEFINE x == [m EXCEPT !.seen = ts]
               y == [x EXCEPT !.fp = Hash(3, d)]
               z == [y EXCEPT !.ver = 3]
    <3>1. n = z
      BY <2>1, Zenon DEF Touched
    <3>2. Hash(3, d) \in {Hash(v, e) : v \in Versions, e \in Defs} /\ ts \in Nat
      BY <1>0
    <3>3. /\ x \in Row /\ x.seen = ts
          /\ x.id = m.id /\ x.key = m.key /\ x.tool = m.tool
      BY <1>0, <3>2 DEF Row
    <3> HIDE DEF x
    <3>4. /\ y \in Row /\ y.seen = ts /\ y.fp = Hash(3, d)
          /\ y.id = m.id /\ y.key = m.key /\ y.tool = m.tool
      BY <3>2, <3>3 DEF Row
    <3> HIDE DEF y
    <3>5. /\ z \in Row /\ z.seen = ts /\ z.fp = Hash(3, d) /\ z.ver = 3
          /\ z.id = m.id /\ z.key = m.key /\ z.tool = m.tool
      BY <1>0, <3>4 DEF Row
    <3> QED
      BY <3>1, <3>5
  <2>2. CASE ~(m.ver < 3)
    <3>1. m.ver = 3 /\ m.fp = Hash(3, d)
      BY <1>0, <2>2 DEF Versions, Matches
    <3> QED
      BY <1>0, <2>2, <3>1 DEF Touched, Row
  <2> QED
    BY <2>1, <2>2
<1> HIDE DEF n
<1>2. ASSUME NEW e \in Defs, Matches(n, e)
      PROVE  Matches(m, e)
  <2>1. Hash(3, e) = Hash(3, d)
    BY <1>1, <1>2 DEF Matches
  <2>2. Hash(m.ver, e) = Hash(m.ver, d)
    BY <1>0, <2>1, HashAssumption
  <2> QED
    BY <2>2 DEF Matches
<1>3. Shaped(Q, b, c)
  BY <1>1 DEF Sound, Shaped, Matches
<1>4. IdsOnce(Q)
  BY <1>1 DEF Sound, IdsOnce
<1>5. Distinct(Q)
  BY <1>1, <1>2 DEF Sound, Distinct
<1>6. Apart(Q)
  BY <1>1 DEF Sound, Apart
<1> QED
  BY <1>3, <1>4, <1>5, <1>6 DEF Sound, n

-----------------------------------------------------------------------------
(* The invariant.                                                          *)

Entry == [s : Servers, t : Tools, d : Defs, ts : Nat,
          out : {"New", "Unchanged", "Changed", "Reverted"}]

TableInv ==
  /\ nextId \in Nat /\ clock \in Nat
  /\ Sound(rows, nextId, clock)
  /\ stamp \in [Sessions -> 0 .. clock - 1]
  /\ todo \in [Sessions -> Seq(Tools \X Defs)]
  /\ log \in Seq(Entry)

LEMMA InitSound == Init => TableInv
<1> SUFFICES ASSUME Init PROVE TableInv
  OBVIOUS
<1>1. Cardinality(LegacyRows) \in Nat
  BY LegacyRowsAssumption, FS_CardinalityType
<1>2. nextId \in Nat /\ clock = 1 /\ rows = LegacyRows /\ nextId = Cardinality(LegacyRows) + 1
  BY <1>1 DEF Init
<1>3. Shaped(rows, nextId, clock)
  BY <1>1, <1>2, LegacyRowsAssumption DEF Shaped, Row
<1>4. IdsOnce(rows) /\ Distinct(rows)
  BY <1>2, LegacyRowsAssumption DEF IdsOnce, Distinct
<1>5. Apart(rows)
  BY <1>2, LegacyRowsAssumption DEF Apart
<1>6. /\ stamp \in [Sessions -> 0 .. clock - 1]
      /\ todo \in [Sessions -> Seq(Tools \X Defs)]
      /\ log \in Seq(Entry)
  BY <1>2 DEF Init
<1> QED
  BY <1>2, <1>3, <1>4, <1>5, <1>6 DEF TableInv, Sound

\* A table that is sound now is sound when the clock has moved on.
LEMMA LaterIsSound ==
  ASSUME NEW b \in Nat, NEW c \in Nat, NEW R, Sound(R, b, c)
  PROVE  Sound(R, b, c + 1)
BY DEF Sound, Shaped, Row

\* One transaction: the table it leaves is sound, so it commits.
LEMMA RecordCommits ==
  ASSUME NEW b \in Nat, NEW c \in Nat, NEW R, Sound(R, b, c),
         NEW s \in Servers, NEW t \in Tools, NEW d \in Defs, NEW ts \in 0 .. c - 1
  PROVE  LET Q == Rekeyed(R, s, t)
             after == Recorded(Q, b, s, t, d, ts)
             inserts == Candidates(History(Q, s, t), d) = {}
         IN /\ UniqueIndex(Q) /\ UniqueIndex(after)
            /\ Sound(after, IF inserts THEN b + 1 ELSE b, c)
            /\ Outcome(History(Q, s, t), d) \in {"New", "Unchanged", "Changed", "Reverted"}
<1> DEFINE Q == Rekeyed(R, s, t)
           H == History(Q, s, t)
           M == Candidates(H, d)
           after == Recorded(Q, b, s, t, d, ts)
<1>1. /\ Sound(Q, b, c)
      /\ H = {} => History(Q, LegacyKey[s], t) = {}
  BY RekeyedSound
<1>2. UniqueIndex(Q)
  BY <1>1, SoundIsUnique
<1>3. M = {r \in Q : r.key = s /\ r.tool = t /\ Matches(r, d)}
  BY DEF Candidates, Matching, History
<1>4. Sound(after, IF M = {} THEN b + 1 ELSE b, c)
  <2>1. CASE M = {}
    <3>1. after = Q \cup {NewRow(b, s, t, d, ts)}
      BY <2>1 DEF Recorded
    <3>2. \A r \in Q : r.key = s /\ r.tool = t => ~Matches(r, d)
      BY <1>3, <2>1
    <3> HIDE DEF Q, M
    <3>3. Sound(Q \cup {NewRow(b, s, t, d, ts)}, b + 1, c)
      BY <1>1, <3>2, InsertSound DEF H
    <3> QED
      BY <2>1, <3>1, <3>3
  <2>2. CASE M # {}
    <3>1. after = (Q \ {Latest(M)}) \cup {Touched(Latest(M), d, ts)}
      BY <2>2 DEF Recorded
    <3> HIDE DEF Q, M
    <3>2. \A r \in M : r \in Row /\ r.id < b /\ r.seen < c
      BY <1>1, <1>3 DEF Sound, Shaped
    <3>3. Latest(M) \in M
      BY <2>2, <3>2, LatestIsOne
    <3>4. Latest(M) \in Q /\ Matches(Latest(M), d)
      BY <1>3, <3>3
    <3>5. Sound((Q \ {Latest(M)}) \cup {Touched(Latest(M), d, ts)}, b, c)
      BY <1>1, <3>4, TouchSound
    <3> QED
      BY <2>2, <3>1, <3>5
  <2> QED
    BY <2>1, <2>2
<1>5. UniqueIndex(after)
  <2> HIDE DEF after
  <2>1. (IF M = {} THEN b + 1 ELSE b) \in Nat
    OBVIOUS
  <2> QED
    BY <1>4, <2>1, SoundIsUnique
<1>6. Outcome(H, d) \in {"New", "Unchanged", "Changed", "Reverted"}
  <2> HIDE DEF H
  <2>1. H = {} => Candidates(H, d) = {}
    BY DEF Candidates, Matching
  <2> QED
    BY <2>1 DEF Outcome
<1> QED
  BY <1>2, <1>4, <1>5, <1>6

LEMMA RecordSound ==
  ASSUME TableInv, NEW n \in Sessions, Record(n)
  PROVE  TableInv'
<1> DEFINE s == ServerOf[n]
           t == Head(todo[n])[1]
           d == Head(todo[n])[2]
           Q == Rekeyed(rows, s, t)
           after == Recorded(Q, nextId, s, t, d, stamp[n])
           inserts == Candidates(History(Q, s, t), d) = {}
           entry(o) == [s |-> s, t |-> t, d |-> d, ts |-> stamp[n], out |-> o]
<1>1. Head(todo[n]) \in Tools \X Defs /\ Tail(todo[n]) \in Seq(Tools \X Defs)
  BY HeadTailProperties DEF Record, TableInv
<1>2. s \in Servers /\ t \in Tools /\ d \in Defs /\ stamp[n] \in 0 .. clock - 1
  BY <1>1 DEF TableInv
<1>3. /\ UniqueIndex(Q) /\ UniqueIndex(after)
      /\ Sound(after, IF inserts THEN nextId + 1 ELSE nextId, clock)
      /\ Outcome(History(Q, s, t), d) \in {"New", "Unchanged", "Changed", "Reverted"}
  <2> HIDE DEF s, t, d
  <2> QED
    BY <1>2, RecordCommits DEF TableInv
<1>4. /\ rows' = after /\ clock' = clock /\ stamp' = stamp
      /\ nextId' = IF inserts THEN nextId + 1 ELSE nextId
      /\ log' = Append(log, entry(Outcome(History(Q, s, t), d)))
      /\ todo' = [todo EXCEPT ![n] = Tail(@)]
  BY <1>3 DEF Record
<1>5. entry(Outcome(History(Q, s, t), d)) \in Entry
  <2> HIDE DEF s, t, d, Q
  <2> QED
    BY <1>2, <1>3 DEF Entry
<1> HIDE DEF after, inserts, entry, s, t, d, Q
<1>6. log' \in Seq(Entry)
  BY <1>4, <1>5, AppendProperties DEF TableInv
<1>7. todo' \in [Sessions -> Seq(Tools \X Defs)]
  BY <1>1, <1>4 DEF TableInv
<1> QED
  BY <1>3, <1>4, <1>6, <1>7 DEF TableInv

LEMMA NextSound == TableInv /\ [Next]_vars => TableInv'
<1> SUFFICES ASSUME TableInv, [Next]_vars PROVE TableInv'
  OBVIOUS
<1>1. ASSUME NEW n \in Sessions, Observe(n)
      PROVE  TableInv'
  <2>1. Sound(rows', nextId', clock')
    BY <1>1, LaterIsSound DEF Observe, TableInv
  <2>2. stamp' \in [Sessions -> 0 .. clock' - 1]
    BY <1>1 DEF Observe, TableInv
  <2>3. todo' \in [Sessions -> Seq(Tools \X Defs)]
    BY <1>1 DEF Observe, TableInv
  <2> QED
    BY <1>1, <2>1, <2>2, <2>3 DEF Observe, TableInv
<1>2. ASSUME NEW n \in Sessions, Record(n)
      PROVE  TableInv'
  BY <1>2, RecordSound
<1>3. ASSUME NEW n \in Sessions, Alert(n)
      PROVE  TableInv'
  BY <1>3 DEF Alert, TableInv
<1>4. ASSUME NEW n \in Sessions, Fail(n)
      PROVE  TableInv'
  <2>1. todo' \in [Sessions -> Seq(Tools \X Defs)]
    <3>1. CASE todo[n] # <<>> /\ todo' = [todo EXCEPT ![n] = Tail(@)]
      BY <3>1, HeadTailProperties DEF TableInv
    <3>2. CASE todo' = todo
      BY <3>2 DEF TableInv
    <3> QED
      BY <1>4, <3>1, <3>2 DEF Fail
  <2> QED
    BY <1>4, <2>1 DEF Fail, TableInv
<1>5. ASSUME NEW n \in Sessions, Crash(n)
      PROVE  TableInv'
  BY <1>5, EmptySeq DEF Crash, TableInv
<1>6. CASE UNCHANGED vars
  BY <1>6 DEF vars, TableInv
<1> QED
  BY <1>1, <1>2, <1>3, <1>4, <1>5, <1>6 DEF Next

LEMMA TableAlwaysSound == Spec => []TableInv
<1> QED
  BY InitSound, NextSound, PTL DEF Spec

\* The table keeps its shape: every row pins some definition, has an id of its own
\* and was seen in the past (insert_fingerprint, touch_fingerprint).
THEOREM TableTypeCorrect == Spec => []TypeOK
<1>1. TableInv => TypeOK
  BY DEF TableInv, Sound, Shaped, IdsOnce, TypeOK
<1> QED
  BY <1>1, TableAlwaysSound, PTL

\* A definition is claimed by one row of a tool at most, under every mixture of
\* hash versions (classify_fingerprint compares rows one by one).
THEOREM OneRowClaims == Spec => []OneMatch
<1>1. TableInv => OneMatch
  BY DEF TableInv, Sound, Distinct, OneMatch
<1> QED
  BY <1>1, TableAlwaysSound, PTL

\* No transaction of record_fingerprint meets the UNIQUE index, so none is rolled
\* back for what it writes.
THEOREM NothingIsRejected == Spec => []NeverRejected
<1>1. TableInv => NeverRejected
  <2> SUFFICES ASSUME TableInv, NEW k \in DOMAIN log
               PROVE  log[k].out # "Error"
    BY DEF NeverRejected
  <2>1. log[k] \in Entry
    BY ElementOfSeq, LenProperties DEF TableInv
  <2> QED
    BY <2>1 DEF Entry
<1> QED
  BY <1>1, TableAlwaysSound, PTL

-----------------------------------------------------------------------------
(* What a transaction does to the histories.                               *)

MovedTo(r, s) == [r EXCEPT !.key = s]
Moving(H, s) == {MovedTo(r, s) : r \in H}

\* Re-keying adds to the histories of s what its legacy key held, where it held any.
LEMMA RekeyedHistory ==
  ASSUME NEW b \in Nat, NEW c \in Nat, NEW R, Sound(R, b, c),
         NEW s \in Servers, NEW t \in Tools
  PROVE  LET Q == Rekeyed(R, s, t) IN
           /\ History(R, s, t) # {} => Q = R
           /\ \A u \in Servers, w \in Tools : u # s => History(Q, u, w) = History(R, u, w)
           /\ \A k, w : k # s /\ k # LegacyKey[s] => History(Q, k, w) = History(R, k, w)
           /\ \/ Q = R
              \/ \A w \in Tools :
                   /\ History(Q, LegacyKey[s], w) = {}
                   /\ History(Q, s, w) =
                        History(R, s, w) \cup Moving(History(R, LegacyKey[s], w), s)
           /\ History(R, s, t) = {} /\ History(R, LegacyKey[s], t) = {} => Q = R
           /\ History(R, s, t) = {} /\ History(R, LegacyKey[s], t) # {} =>
                History(Q, s, t) = Moving(History(R, LegacyKey[s], t), s)
           /\ \A q \in Q : \/ q \in R /\ (q.key # LegacyKey[s] \/ Q = R)
                           \/ \E r \in R : r.key = LegacyKey[s] /\ q = MovedTo(r, s)
<1> DEFINE Q == Rekeyed(R, s, t)
           Put(r) == IF r.key = LegacyKey[s] THEN [r EXCEPT !.key = s] ELSE r
           guard == /\ History(R, s, t) = {} /\ s # LegacyKey[s]
                    /\ History(R, LegacyKey[s], t) # {}
<1>0. s # LegacyKey[s]
  OBVIOUS
<1>1. CASE ~guard
  BY <1>0, <1>1 DEF Rekeyed
<1>2. CASE guard
  <2>1. Q = {Put(r) : r \in R}
    BY <1>2 DEF Rekeyed
  <2>2. \A r \in R : r.key = LegacyKey[s] =>
          /\ MovedTo(r, s).key = s /\ MovedTo(r, s).tool = r.tool /\ Put(r) = MovedTo(r, s)
    BY DEF Sound, Shaped, Row, MovedTo
  <2>3. \A r \in R : r.key # LegacyKey[s] => Put(r) = r
    OBVIOUS
  <2> HIDE DEF Put, Q
  <2>4. \A k, w : k # s /\ k # LegacyKey[s] => History(Q, k, w) = History(R, k, w)
    BY <2>1, <2>2, <2>3 DEF History
  <2>5. \A w \in Tools : History(Q, LegacyKey[s], w) = {}
    BY <1>0, <2>1, <2>2, <2>3 DEF History
  <2>6. \A w \in Tools :
          History(Q, s, w) =
            History(R, s, w) \cup Moving(History(R, LegacyKey[s], w), s)
    BY <1>0, <2>1, <2>2, <2>3 DEF History, Moving
  <2>7. \A q \in Q : \/ q \in R /\ q.key # LegacyKey[s]
                     \/ \E r \in R : r.key = LegacyKey[s] /\ q = MovedTo(r, s)
    BY <2>1, <2>2, <2>3
  <2>8. History(Q, s, t) = Moving(History(R, LegacyKey[s], t), s)
    BY <1>2, <2>6
  <2>9. QED
    BY <1>2, <2>4, <2>5, <2>6, <2>7, <2>8 DEF Q
<1>3. QED
  BY <1>1, <1>2

\* The same for one of the tools, and for the tool the re-key is for.
LEMMA RekeyedTool ==
  ASSUME NEW b \in Nat, NEW c \in Nat, NEW R, Sound(R, b, c),
         NEW s \in Servers, NEW t \in Tools, NEW w \in Tools, Rekeyed(R, s, t) # R
  PROVE  /\ History(Rekeyed(R, s, t), LegacyKey[s], w) = {}
         /\ History(Rekeyed(R, s, t), s, w) =
              History(R, s, w) \cup Moving(History(R, LegacyKey[s], w), s)
<1> DEFINE Q == Rekeyed(R, s, t)
<1>1. \/ Q = R
      \/ \A x \in Tools :
           /\ History(Q, LegacyKey[s], x) = {}
           /\ History(Q, s, x) = History(R, s, x) \cup Moving(History(R, LegacyKey[s], x), s)
  BY RekeyedHistory
<1>2. QED
  BY <1>1

LEMMA RekeyedFirst ==
  ASSUME NEW b \in Nat, NEW c \in Nat, NEW R, Sound(R, b, c),
         NEW s \in Servers, NEW t \in Tools,
         History(R, s, t) = {}, History(R, LegacyKey[s], t) # {}
  PROVE  History(Rekeyed(R, s, t), s, t) = Moving(History(R, LegacyKey[s], t), s)
  BY RekeyedHistory

Leads(r, H) == r \in H /\ \A q \in H : q # r => q.seen < r.seen

\* Who leads is the latest.
LEMMA LeaderIsLatest ==
  ASSUME NEW H, \A r \in H : r.seen \in Nat /\ r.id \in Nat,
         NEW r \in H,
         \A q \in H : q # r => q.seen < r.seen \/ (q.seen = r.seen /\ q.id < r.id)
  PROVE  Latest(H) = r
<1> DEFINE P(x) == \A q \in H : q.seen < x.seen \/ (q.seen = x.seen /\ q.id <= x.id)
<1>1. P(r)
  <2> SUFFICES ASSUME NEW q \in H PROVE q.seen < r.seen \/ (q.seen = r.seen /\ q.id <= r.id)
    OBVIOUS
  <2>1. CASE q = r
    BY <2>1
  <2>2. CASE q # r
    BY <2>2
  <2>3. QED
    BY <2>1, <2>2
<1>2. ASSUME NEW x \in H, P(x), x # r PROVE FALSE
  <2>1. r.seen < x.seen \/ (r.seen = x.seen /\ r.id <= x.id)
    BY <1>2
  <2>2. x.seen < r.seen \/ (x.seen = r.seen /\ x.id < r.id)
    BY <1>2
  <2>3. x.seen \in Nat /\ r.seen \in Nat /\ x.id \in Nat /\ r.id \in Nat
    OBVIOUS
  <2>4. QED
    BY <2>1, <2>2, <2>3
<1>3. Latest(H) = CHOOSE x \in H : P(x)
  BY DEF Latest
<1>4. QED
  BY <1>1, <1>2, <1>3

\* The row a transaction leaves for the definition it saw: of version 3, stamped with
\* when it was seen, and alone in what it changes.
LEMMA RecordedHistory ==
  ASSUME NEW b \in Nat, NEW c \in Nat, NEW Q, Sound(Q, b, c),
         NEW s \in Servers, NEW t \in Tools, NEW d \in Defs, NEW ts \in 0 .. c - 1
  PROVE  LET after == Recorded(Q, b, s, t, d, ts) IN
         \E r \in after :
           /\ r.key = s /\ r.tool = t /\ r.seen = ts /\ r.ver = 3 /\ Matches(r, d)
           /\ \A q \in after : q = r \/ q \in Q
           /\ \A k, w : k # s \/ w # t => History(after, k, w) = History(Q, k, w)
<1> DEFINE M == Candidates(History(Q, s, t), d)
           after == Recorded(Q, b, s, t, d, ts)
<1>1. CASE M = {}
  <2> DEFINE r == NewRow(b, s, t, d, ts)
  <2>1. after = Q \cup {r}
    BY <1>1 DEF Recorded
  <2>2. r.key = s /\ r.tool = t /\ r.seen = ts /\ r.ver = 3 /\ Matches(r, d)
    BY DEF NewRow, Matches
  <2> HIDE DEF r
  <2>3. \A k, w : k # s \/ w # t => History(after, k, w) = History(Q, k, w)
    BY <2>1, <2>2 DEF History
  <2>4. QED
    BY <2>1, <2>2, <2>3
<1>2. CASE M # {}
  <2> DEFINE o == Latest(M)
             r == Touched(o, d, ts)
  <2>1. after = (Q \ {o}) \cup {r}
    BY <1>2 DEF Recorded
  <2>2. \A q \in M : q \in Row /\ q.id < b /\ q.seen < c
    BY DEF Sound, Shaped, Candidates, Matching, History
  <2>3. o \in M
    BY <1>2, <2>2, LatestIsOne
  <2>4. o \in Q /\ o.key = s /\ o.tool = t /\ Matches(o, d) /\ o \in Row
    BY <2>2, <2>3 DEF Candidates, Matching, History
  <2> HIDE DEF o
  <2>5. r.key = s /\ r.tool = t /\ r.seen = ts /\ r.ver = 3 /\ Matches(r, d)
    BY <2>4 DEF Touched, Matches, Row, Versions
  <2> HIDE DEF r
  <2>6. \A k, w : k # s \/ w # t => History(after, k, w) = History(Q, k, w)
    BY <2>1, <2>4, <2>5 DEF History
  <2>7. QED
    BY <2>1, <2>5, <2>6
<1>3. QED
  BY <1>1, <1>2

-----------------------------------------------------------------------------
(* The log: what has been said of a tool, in the order it was seen.        *)

Logged(L, s, t) == {k \in DOMAIN L : L[k].s = s /\ L[k].t = t}

\* What is still to be recorded was seen after what is logged of the same tool.
OrderInv ==
  /\ \A k \in DOMAIN log : 1 <= log[k].ts /\ log[k].ts < clock
  /\ \A j, k \in DOMAIN log :
       j < k /\ log[j].s = log[k].s /\ log[j].t = log[k].t => log[j].ts < log[k].ts
  /\ clock >= 1
  /\ \A n \in Sessions :
       /\ todo[n] # <<>> => 1 <= stamp[n]
       /\ \A i, j \in DOMAIN todo[n] : todo[n][i][1] = todo[n][j][1] => i = j
       /\ \A i \in DOMAIN todo[n] : \A k \in Logged(log, ServerOf[n], todo[n][i][1]) :
            log[k].ts < stamp[n]

\* The rows were seen when the log says, those of an older release never.
SeenInv == \A r \in rows : r.seen = 0 \/ \E k \in Logged(log, r.key, r.tool) : log[k].ts = r.seen

\* What was last logged of a tool leads its history.
LastInv ==
  \A k \in DOMAIN log :
    (\A j \in Logged(log, log[k].s, log[k].t) : j <= k) =>
      \E r \in rows : /\ Leads(r, History(rows, log[k].s, log[k].t))
                      /\ r.seen = log[k].ts /\ r.ver = 3 /\ Matches(r, log[k].d)

LogInv == OrderInv /\ SeenInv /\ LastInv

\* What Record(n) does, seen from the log.
Logs(n, s, t, d, e) ==
  /\ todo[n] # <<>> /\ s = ServerOf[n] /\ t = Head(todo[n])[1] /\ d = Head(todo[n])[2]
  /\ e = [s |-> s, t |-> t, d |-> d, ts |-> stamp[n],
          out |-> Outcome(History(Rekeyed(rows, s, t), s, t), d)]
  /\ e \in Entry
  /\ rows' = Recorded(Rekeyed(rows, s, t), nextId, s, t, d, stamp[n])
  /\ log' = Append(log, e)
  /\ owed' = [owed EXCEPT ![n] = IF Alarming(e.out) THEN e ELSE Nothing]
  /\ todo' = [todo EXCEPT ![n] = Tail(@)]
  /\ owed[n] = Nothing
  /\ UNCHANGED <<clock, stamp, alerts, mishaps>>

LEMMA RecordLogs ==
  ASSUME TableInv, NEW n \in Sessions, Record(n)
  PROVE  \E s \in Servers, t \in Tools, d \in Defs, e \in Entry : Logs(n, s, t, d, e)
<1> DEFINE s == ServerOf[n]
           t == Head(todo[n])[1]
           d == Head(todo[n])[2]
           Q == Rekeyed(rows, s, t)
           after == Recorded(Q, nextId, s, t, d, stamp[n])
           e == [s |-> s, t |-> t, d |-> d, ts |-> stamp[n], out |-> Outcome(History(Q, s, t), d)]
<1>1. Head(todo[n]) \in Tools \X Defs
  BY HeadTailProperties DEF Record, TableInv
<1>2. s \in Servers /\ t \in Tools /\ d \in Defs /\ stamp[n] \in 0 .. clock - 1
  BY <1>1 DEF TableInv
<1>3. /\ UniqueIndex(Q) /\ UniqueIndex(after)
      /\ Outcome(History(Q, s, t), d) \in {"New", "Unchanged", "Changed", "Reverted"}
  <2> HIDE DEF s, t, d
  <2> QED
    BY <1>2, RecordCommits DEF TableInv
<1>4. e \in Entry
  <2> HIDE DEF s, t, d, Q
  <2> QED
    BY <1>2, <1>3 DEF Entry, TableInv
<1>5. Logs(n, s, t, d, e)
  BY <1>3, <1>4 DEF Record, Logs
<1>6. QED
  BY <1>2, <1>4, <1>5

LEMMA LogStart == Init => LogInv
  BY LegacyRowsAssumption DEF Init, LogInv, OrderInv, SeenInv, LastInv, Logged

\* A step that leaves the log and the table alone.
LEMMA LogRests ==
  ASSUME TableInv, LogInv, NamedOnce, [Next]_vars, UNCHANGED <<rows, log>>
  PROVE  LogInv'
<1>1. SeenInv' /\ LastInv'
  BY DEF LogInv, SeenInv, LastInv, Logged
<1>2. OrderInv'
  <2>1. ASSUME NEW n \in Sessions, Observe(n) PROVE OrderInv'
    <3>1. PICK l \in Lists : todo' = [todo EXCEPT ![n] = l]
      BY <2>1 DEF Observe
    <3>2. /\ todo'[n] = l /\ stamp'[n] = clock /\ clock' = clock + 1
          /\ \A m \in Sessions : m # n => todo'[m] = todo[m] /\ stamp'[m] = stamp[m]
      BY <2>1, <3>1 DEF Observe, TableInv
    <3>3. \A k \in DOMAIN log : log[k].ts \in Nat
      <4>1. \A k \in DOMAIN log : log[k] \in Entry
        BY ElementOfSeq, LenProperties DEF TableInv
      <4>2. QED
        BY <4>1 DEF Entry
    <3>4. clock \in Nat
      BY DEF TableInv
    <3>5. \A i, j \in DOMAIN l : l[i][1] = l[j][1] => i = j
      BY DEF NamedOnce
    <3>6. QED
      BY <3>2, <3>3, <3>4, <3>5 DEF LogInv, OrderInv, Logged
  <2>2. ASSUME NEW n \in Sessions, UNCHANGED <<clock, stamp>>,
               \/ todo[n] # <<>> /\ todo' = [todo EXCEPT ![n] = Tail(@)]
               \/ todo' = [todo EXCEPT ![n] = <<>>]
               \/ UNCHANGED todo
        PROVE  OrderInv'
    <3>1. \A m \in Sessions : todo'[m] # <<>> => todo[m] # <<>>
      BY <2>2 DEF TableInv
    <3>2. \A m \in Sessions : \A i \in DOMAIN todo'[m] :
            \/ i \in DOMAIN todo[m] /\ todo'[m] = todo[m]
            \/ /\ i \in Nat /\ i + 1 \in DOMAIN todo[m] /\ todo'[m][i] = todo[m][i + 1]
               /\ todo'[m] = Tail(todo[m])
      <4> SUFFICES ASSUME NEW m \in Sessions, NEW i \in DOMAIN todo'[m]
                   PROVE  \/ i \in DOMAIN todo[m] /\ todo'[m] = todo[m]
                          \/ /\ i \in Nat /\ i + 1 \in DOMAIN todo[m]
                             /\ todo'[m][i] = todo[m][i + 1] /\ todo'[m] = Tail(todo[m])
        OBVIOUS
      <4>1. CASE todo'[m] = todo[m]
        BY <4>1
      <4>2. CASE todo'[m] = <<>>
        BY <4>2
      <4>3. CASE todo'[m] = Tail(todo[m]) /\ todo[m] # <<>>
        <5>1. todo[m] \in Seq(Tools \X Defs)
          BY DEF TableInv
        <5>2. i \in 1 .. Len(todo[m]) - 1 /\ Len(todo[m]) \in Nat
          BY <4>3, <5>1
        <5>3. QED
          BY <4>3, <5>1, <5>2
      <4>4. QED
        BY <2>2, <4>1, <4>2, <4>3 DEF TableInv
    <3>3. QED
      BY <2>2, <3>1, <3>2 DEF LogInv, OrderInv, Logged
  <2>3. ASSUME NEW n \in Sessions, Alert(n) PROVE OrderInv'
    BY <2>3, <2>2 DEF Alert
  <2>4. ASSUME NEW n \in Sessions, Fail(n) PROVE OrderInv'
    BY <2>4, <2>2 DEF Fail
  <2>5. ASSUME NEW n \in Sessions, Crash(n) PROVE OrderInv'
    BY <2>5, <2>2 DEF Crash
  <2>6. ASSUME NEW n \in Sessions, Record(n) PROVE FALSE
    <3>1. PICK s \in Servers, t \in Tools, d \in Defs, e \in Entry : Logs(n, s, t, d, e)
      BY <2>6, RecordLogs
    <3>2. Len(log') = Len(log) + 1 /\ Len(log) \in Nat
      BY <3>1 DEF Logs, TableInv
    <3>3. QED
      BY <3>2
  <2>7. CASE UNCHANGED vars
    BY <2>7 DEF vars, LogInv, OrderInv, Logged
  <2>8. QED
    BY <2>1, <2>3, <2>4, <2>5, <2>6, <2>7 DEF Next
<1>3. QED
  BY <1>1, <1>2 DEF LogInv

\* The transaction: the order of the log, and who leads which history.
LEMMA LogGrows ==
  ASSUME TableInv, TableInv', LogInv, OneProxyEach,
         NEW n \in Sessions, NEW s \in Servers, NEW t \in Tools, NEW d \in Defs, NEW e \in Entry,
         Logs(n, s, t, d, e)
  PROVE  LogInv'
<1> DEFINE Q == Rekeyed(rows, s, t)
           top == Len(log) + 1
<1>1. /\ log \in Seq(Entry) /\ Len(log) \in Nat /\ DOMAIN log = 1 .. Len(log)
      /\ DOMAIN log' = 1 .. top /\ log'[top] = e /\ \A k \in DOMAIN log : log'[k] = log[k]
  BY DEF Logs, TableInv
<1>2. /\ e.s = s /\ e.t = t /\ e.d = d /\ e.ts = stamp[n] /\ s = ServerOf[n]
      /\ stamp[n] \in 0 .. clock - 1 /\ 1 <= stamp[n] /\ clock' = clock /\ clock \in Nat
  BY DEF Logs, TableInv, LogInv, OrderInv
<1>3. \A k \in DOMAIN log : log[k] \in Entry /\ log[k].ts \in Nat
  <2>1. \A k \in DOMAIN log : log[k] \in Entry
    BY ElementOfSeq, <1>1
  <2>2. QED
    BY <2>1 DEF Entry
<1>4. todo[n] \in Seq(Tools \X Defs) /\ todo[n] # <<>> /\ 1 \in DOMAIN todo[n] /\ todo[n][1][1] = t
  BY DEF Logs, TableInv
<1>5. \A k \in Logged(log, s, t) : log[k].ts < stamp[n]
  BY <1>2, <1>4 DEF LogInv, OrderInv
<1>6. \A u, w : Logged(log', u, w) =
                  IF u = s /\ w = t THEN Logged(log, u, w) \cup {top} ELSE Logged(log, u, w)
  BY <1>1, <1>2 DEF Logged
<1>7. OrderInv'
  <2>1. \A k \in DOMAIN log' : 1 <= log'[k].ts /\ log'[k].ts < clock
    BY <1>1, <1>2 DEF LogInv, OrderInv
  <2>2. \A j, k \in DOMAIN log' :
          j < k /\ log'[j].s = log'[k].s /\ log'[j].t = log'[k].t => log'[j].ts < log'[k].ts
    <3> SUFFICES ASSUME NEW j \in DOMAIN log', NEW k \in DOMAIN log',
                        j < k, log'[j].s = log'[k].s, log'[j].t = log'[k].t
                 PROVE  log'[j].ts < log'[k].ts
      OBVIOUS
    <3>1. j \in DOMAIN log
      BY <1>1
    <3>2. CASE k = top
      BY <1>1, <1>2, <1>5, <3>1, <3>2 DEF Logged
    <3>3. CASE k # top
      BY <1>1, <3>1, <3>3 DEF LogInv, OrderInv
    <3>4. QED
      BY <3>2, <3>3
  <2>3. \A m \in Sessions : m # n => todo'[m] = todo[m] /\ ServerOf[m] # s
    BY <1>2 DEF Logs, TableInv, OneProxyEach
  <2>4. /\ todo'[n] = Tail(todo[n]) /\ stamp' = stamp
        /\ DOMAIN todo'[n] = 1 .. Len(todo[n]) - 1 /\ Len(todo[n]) \in Nat
        /\ DOMAIN todo[n] = 1 .. Len(todo[n])
        /\ \A i \in DOMAIN todo'[n] : todo'[n][i] = todo[n][i + 1]
    BY <1>4 DEF Logs, TableInv
  <2>5. \A m \in Sessions :
       /\ todo'[m] # <<>> => 1 <= stamp[m]
       /\ \A i, j \in DOMAIN todo'[m] : todo'[m][i][1] = todo'[m][j][1] => i = j
       /\ \A i \in DOMAIN todo'[m] : \A k \in Logged(log', ServerOf[m], todo'[m][i][1]) :
            log'[k].ts < stamp[m]
    <3> SUFFICES ASSUME NEW m \in Sessions
                 PROVE  /\ todo'[m] # <<>> => 1 <= stamp[m]
                        /\ \A i, j \in DOMAIN todo'[m] :
                             todo'[m][i][1] = todo'[m][j][1] => i = j
                        /\ \A i \in DOMAIN todo'[m] :
                             \A k \in Logged(log', ServerOf[m], todo'[m][i][1]) :
                               log'[k].ts < stamp[m]
      OBVIOUS
    <3>1. CASE m # n
      <4>1. todo'[m] = todo[m] /\ \A w : Logged(log', ServerOf[m], w) = Logged(log, ServerOf[m], w)
        BY <2>3, <1>6, <3>1
      <4>2. \A w : \A k \in Logged(log, ServerOf[m], w) : log'[k] = log[k]
        BY <1>1 DEF Logged
      <4>3. QED
        BY <4>1, <4>2 DEF LogInv, OrderInv
    <3>2. CASE m = n
      <4>1. \A i \in DOMAIN todo'[n] : i + 1 \in DOMAIN todo[n] /\ i + 1 # 1
        BY <2>4
      <4>2. \A i, j \in DOMAIN todo'[n] : todo'[n][i][1] = todo'[n][j][1] => i = j
        BY <2>4, <4>1 DEF LogInv, OrderInv
      <4>3. \A i \in DOMAIN todo'[n] : todo'[n][i][1] # t
        BY <1>4, <2>4, <4>1 DEF LogInv, OrderInv
      <4>4. ASSUME NEW i \in DOMAIN todo'[n], NEW k \in Logged(log', s, todo'[n][i][1])
            PROVE  log'[k].ts < stamp[n]
        <5>1. k \in Logged(log, s, todo[n][i + 1][1])
          BY <1>6, <2>4, <4>3, <4>4
        <5>2. log[k].ts < stamp[n]
          BY <5>1, <4>1, <1>2 DEF LogInv, OrderInv
        <5>3. QED
          BY <1>1, <5>1, <5>2 DEF Logged
      <4>5. QED
        BY <1>2, <3>2, <4>2, <4>4
    <3>3. QED
      BY <3>1, <3>2
  <2>6. QED
    BY <1>2, <2>1, <2>2, <2>4, <2>5 DEF LogInv, OrderInv
<1>8. Sound(rows, nextId, clock) /\ nextId \in Nat /\ clock \in Nat /\ Sound(Q, nextId, clock)
  BY RekeyedSound DEF TableInv
<1>9. PICK r \in rows' :
        /\ r.key = s /\ r.tool = t /\ r.seen = stamp[n] /\ r.ver = 3 /\ Matches(r, d)
        /\ \A q \in rows' : q = r \/ q \in Q
        /\ \A k, w : k # s \/ w # t => History(rows', k, w) = History(Q, k, w)
  <2> HIDE DEF Q
  <2>1. rows' = Recorded(Q, nextId, s, t, d, stamp[n])
    BY DEF Logs, Q
  <2>2. QED
    BY <1>2, <1>8, <2>1, RecordedHistory
\* Nothing was ever seen under a legacy key.
<1>10. \A q \in rows : q.seen # 0 => q.key \in Servers
  BY <1>3 DEF LogInv, SeenInv, Logged, Entry
<1>11. \A q \in Q : \/ q \in rows
                    \/ q.seen = 0 /\ q.key = s
  <2>1. \A q \in Q : \/ q \in rows
                     \/ \E o \in rows : o.key = LegacyKey[s] /\ q = MovedTo(o, s)
    BY <1>8, RekeyedHistory
  <2>2. \A o \in rows : o.key = LegacyKey[s] => MovedTo(o, s).seen = 0 /\ MovedTo(o, s).key = s
    <3>1. \A o \in rows : o \in Row
      BY <1>8 DEF Sound, Shaped
    <3>2. \A o \in rows : MovedTo(o, s).seen = o.seen /\ MovedTo(o, s).key = s
      BY <3>1 DEF Row, MovedTo
    <3>3. QED
      BY <1>10, <3>2
  <2>3. QED
    BY <2>1, <2>2
<1>12. SeenInv'
  <2> SUFFICES ASSUME NEW q \in rows', q.seen # 0
               PROVE  \E k \in Logged(log', q.key, q.tool) : log'[k].ts = q.seen
    BY DEF SeenInv
  <2>1. CASE q = r
    BY <1>1, <1>2, <1>6, <1>9, <2>1
  <2>2. CASE q \in rows
    <3>1. PICK k \in Logged(log, q.key, q.tool) : log[k].ts = q.seen
      BY <2>2 DEF LogInv, SeenInv
    <3>2. k \in Logged(log', q.key, q.tool) /\ log'[k] = log[k]
      BY <1>1, <1>6, <3>1 DEF Logged
    <3>3. QED
      BY <3>1, <3>2
  <2>3. QED
    BY <1>9, <1>11, <2>1, <2>2
<1>13. ASSUME NEW k \in DOMAIN log', \A j \in Logged(log', log'[k].s, log'[k].t) : j <= k
       PROVE  \E x \in rows' : /\ Leads(x, History(rows', log'[k].s, log'[k].t))
                               /\ x.seen = log'[k].ts /\ x.ver = 3 /\ Matches(x, log'[k].d)
  <2>1. CASE log'[k].s = s /\ log'[k].t = t
    <3>1. k = top
      <4>1. top \in Logged(log', s, t)
        BY <1>6
      <4>2. top <= k
        BY <1>13, <2>1, <4>1
      <4>3. QED
        BY <1>1, <4>2
    <3>2. ASSUME NEW q \in History(rows', s, t), q # r PROVE q.seen < r.seen
      <4>1. q \in rows' /\ q.key = s /\ q.tool = t
        BY <3>2 DEF History
      <4>2. CASE q.seen = 0
        BY <1>2, <1>9, <4>2
      <4>3. CASE q.seen # 0
        <5>1. q \in rows
          BY <1>9, <1>11, <3>2, <4>1, <4>3
        <5>2. PICK j \in Logged(log, s, t) : log[j].ts = q.seen
          BY <4>1, <4>3, <5>1 DEF LogInv, SeenInv
        <5>3. QED
          BY <1>5, <1>9, <5>2
      <4>4. QED
        BY <4>2, <4>3
    <3>3. Leads(r, History(rows', s, t))
      BY <1>9, <3>2 DEF Leads, History
    <3>4. QED
      BY <1>1, <1>2, <1>9, <3>1, <3>3
  <2>2. CASE ~(log'[k].s = s /\ log'[k].t = t)
    <3> DEFINE u == log[k].s
               w == log[k].t
    <3>1. k \in DOMAIN log /\ log'[k] = log[k] /\ u \in Servers /\ w \in Tools /\ (u # s \/ w # t)
      BY <1>1, <1>2, <1>3, <2>2 DEF Entry
    <3>2. \A j \in Logged(log, u, w) : j <= k
      BY <1>6, <1>13, <3>1
    <3>3. PICK x \in rows : /\ Leads(x, History(rows, u, w)) /\ x.seen = log[k].ts /\ x.ver = 3
                            /\ Matches(x, log[k].d)
      BY <3>1, <3>2 DEF LogInv, LastInv
    <3>4. History(Q, u, w) = History(rows, u, w)
      <4>1. CASE u # s
        BY <1>8, <3>1, <4>1, RekeyedHistory
      <4>2. CASE u = s
        <5>1. x \in rows /\ x.key = s /\ x.tool = w
          BY <3>3, <4>2 DEF Leads, History
        <5>2. History(rows, LegacyKey[s], w) = {}
          BY <1>8, <5>1 DEF Sound, Apart, History
        <5>3. Moving(History(rows, LegacyKey[s], w), s) = {}
          BY <5>2 DEF Moving
        <5>4. \/ Q = rows
              \/ History(Q, s, w) =
                   History(rows, s, w) \cup Moving(History(rows, LegacyKey[s], w), s)
          BY <1>8, <3>1, RekeyedHistory
        <5>5. QED
          BY <4>2, <5>3, <5>4
      <4>3. QED
        BY <4>1, <4>2
    <3>5. History(rows', u, w) = History(rows, u, w)
      BY <1>9, <3>1, <3>4
    <3>6. x \in rows'
      BY <3>3, <3>5 DEF Leads, History
    <3>7. QED
      BY <3>1, <3>3, <3>5, <3>6
  <2>3. QED
    BY <2>1, <2>2
<1>14. LastInv'
  BY <1>13 DEF LastInv
<1>15. QED
  BY <1>7, <1>12, <1>14 DEF LogInv

LEMMA NextLogInv ==
  ASSUME OneProxyEach, NamedOnce
  PROVE  TableInv /\ LogInv /\ [Next]_vars => LogInv'
<1> SUFFICES ASSUME TableInv, LogInv, [Next]_vars PROVE LogInv'
  OBVIOUS
<1>1. TableInv'
  BY NextSound
<1>2. ASSUME NEW n \in Sessions, Record(n) PROVE LogInv'
  <2>1. PICK s \in Servers, t \in Tools, d \in Defs, e \in Entry : Logs(n, s, t, d, e)
    BY <1>2, RecordLogs
  <2>2. QED
    BY <1>1, <2>1, LogGrows
<1>3. (\E n \in Sessions : Record(n)) \/ UNCHANGED <<rows, log>>
  BY DEF Next, Observe, Alert, Fail, Crash, vars
<1>4. QED
  BY <1>2, <1>3, LogRests

\* Before, Newest and what VerdictsAreTrue says of one entry, for any log.
Earlier(L, k) == {j \in 1 .. (k - 1) : L[j].s = L[k].s /\ L[j].t = L[k].t}
NewestOf(L, J) == CHOOSE j \in J : \A i \in J : L[i].ts <= L[j].ts
RightOf(L, k) ==
  Earlier(L, k) # {} =>
    (L[k].out = "Unchanged" <=> L[k].d = L[NewestOf(L, Earlier(L, k))].d)

LEMMA VerdictsByLog ==
  /\ VerdictsAreTrue <=> \A k \in DOMAIN log : RightOf(log, k)
  /\ VerdictsAreTrue' <=> \A k \in DOMAIN log' : RightOf(log', k)
  BY DEF VerdictsAreTrue, Before, Newest, RightOf, Earlier, NewestOf

\* Of what has been logged of a tool, the newest is the last.
LEMMA LastIsNewest ==
  ASSUME TableInv, LogInv, NEW s, NEW t, Logged(log, s, t) # {}
  PROVE  \E m \in Logged(log, s, t) :
           /\ \A j \in Logged(log, s, t) : j <= m
           /\ NewestOf(log, Logged(log, s, t)) = m
<1> DEFINE J == Logged(log, s, t)
<1>1. J \in SUBSET Nat /\ \A x \in J : x < Len(log) + 1
  BY DEF Logged, TableInv
<1>2. Len(log) + 1 \in Nat
  BY DEF TableInv
<1>3. PICK m \in J : \A j \in J : j <= m
  <2> HIDE DEF J
  <2>1. QED
    BY <1>1, <1>2, GreatestBelow DEF J
<1>4. \A j \in J : log[j].ts \in Nat
  <2>1. \A k \in DOMAIN log : log[k] \in Entry
    BY ElementOfSeq, LenProperties DEF TableInv
  <2>2. QED
    BY <2>1 DEF Entry, Logged
<1>5. \A j \in J : j # m => log[j].ts < log[m].ts
  <2>1. \A j \in J : j # m => j < m
    BY <1>1, <1>3
  <2>2. QED
    BY <2>1 DEF Logged, LogInv, OrderInv
<1>6. \A j \in J : (\A i \in J : log[i].ts <= log[j].ts) <=> j = m
  BY <1>4, <1>5
<1>7. NewestOf(log, J) = m
  BY <1>6 DEF NewestOf
<1>8. QED
  BY <1>3, <1>7

\* A verdict about a tool that has been logged before.
LEMMA VerdictIsTrue ==
  ASSUME TableInv, LogInv, HashCovers,
         NEW n \in Sessions, NEW s \in Servers, NEW t \in Tools, NEW d \in Defs, NEW e \in Entry,
         Logs(n, s, t, d, e),
         NEW m \in Logged(log, s, t), \A j \in Logged(log, s, t) : j <= m
  PROVE  e.out = "Unchanged" <=> d = log[m].d
<1> DEFINE H == History(rows, s, t)
<1>1. m \in DOMAIN log /\ log[m].s = s /\ log[m].t = t /\ log[m].d \in Defs
  <2>1. \A k \in DOMAIN log : log[k] \in Entry
    BY ElementOfSeq, LenProperties DEF TableInv
  <2>2. QED
    BY <2>1 DEF Entry, Logged
<1>2. PICK r \in rows : Leads(r, H) /\ r.ver = 3 /\ Matches(r, log[m].d)
  BY <1>1 DEF LogInv, LastInv
<1>3. Rekeyed(rows, s, t) = rows
  BY <1>2, RekeyedHistory DEF Leads, TableInv
<1>4. e.out = Outcome(H, d)
  BY <1>3 DEF Logs
<1>5. \A q \in H : q.seen \in Nat /\ q.id \in Nat
  BY DEF TableInv, Sound, Shaped, Row, History
<1>6. Latest(H) = r
  BY <1>2, <1>5, LeaderIsLatest DEF Leads
<1>7. Matches(r, d) <=> d = log[m].d
  BY <1>1, <1>2 DEF Matches, HashCovers
<1>8. H # {} /\ (Matches(r, d) => r \in Candidates(H, d))
  BY <1>2 DEF Leads, Candidates, Matching
<1>9. Outcome(H, d) = "Unchanged" <=> Candidates(H, d) # {} /\ Matches(r, d)
  <2> HIDE DEF H
  <2>1. QED
    BY <1>6, <1>8 DEF Outcome
<1>10. QED
  BY <1>4, <1>7, <1>8, <1>9

\* The entries before k stay what they were in the log that goes on.
LEMMA EarlierStays ==
  ASSUME NEW L \in Seq(Entry), NEW e, NEW M, M = Append(L, e),
         NEW c \in Nat, \A k \in DOMAIN L : L[k].ts < c
  PROVE  /\ \A k \in DOMAIN L : Earlier(M, k) = Earlier(L, k) /\ (RightOf(M, k) <=> RightOf(L, k))
         /\ DOMAIN M = DOMAIN L \cup {Len(L) + 1}
         /\ \A k \in DOMAIN L : M[k] = L[k]
<1>1. /\ Len(L) \in Nat /\ DOMAIN L = 1 .. Len(L) /\ DOMAIN M = 1 .. Len(L) + 1
      /\ M[Len(L) + 1] = e /\ \A k \in DOMAIN L : M[k] = L[k]
  OBVIOUS
<1>2. \A k \in DOMAIN L : Earlier(M, k) = Earlier(L, k)
  BY <1>1 DEF Earlier
<1>4. ASSUME NEW J, J \subseteq DOMAIN L
      PROVE  NewestOf(M, J) = NewestOf(L, J)
  <2>1. \A j \in J : (\A i \in J : M[i].ts <= M[j].ts) <=> (\A i \in J : L[i].ts <= L[j].ts)
    BY <1>1, <1>4
  <2>2. QED
    BY <2>1 DEF NewestOf
<1>5. ASSUME NEW k \in DOMAIN L PROVE RightOf(M, k) <=> RightOf(L, k)
  <2> DEFINE J == Earlier(L, k)
  <2>1. J \subseteq DOMAIN L
    BY <1>1 DEF Earlier
  <2>2. NewestOf(M, J) = NewestOf(L, J) /\ Earlier(M, k) = J /\ M[k] = L[k]
    BY <1>1, <1>2, <1>4, <2>1
  <2>3. CASE J = {}
    BY <2>2, <2>3 DEF RightOf
  <2>4. CASE J # {}
    <3>1. NewestOf(L, J) \in J
      <4> DEFINE T == {L[j].ts : j \in J}
      <4>1. \A j \in J : L[j] \in Entry /\ L[j].ts \in Nat /\ L[j].ts < c
        <5>1. \A j \in DOMAIN L : L[j] \in Entry
          BY ElementOfSeq, LenProperties
        <5>2. QED
          BY <2>1, <5>1 DEF Entry
      <4>2. T \in SUBSET Nat /\ T # {} /\ \A x \in T : x < c
        BY <2>4, <4>1
      <4>3. PICK x \in T : \A y \in T : y <= x
        <5> HIDE DEF T
        <5>1. QED
          BY <4>2, GreatestBelow
      <4>4. \E j \in J : \A i \in J : L[i].ts <= L[j].ts
        BY <4>3
      <4>5. QED
        BY <4>4 DEF NewestOf
    <3>2. M[NewestOf(L, J)] = L[NewestOf(L, J)]
      BY <1>1, <2>1, <3>1
    <3>3. QED
      BY <2>2, <3>2 DEF RightOf
  <2>5. QED
    BY <2>3, <2>4
<1>6. QED
  BY <1>1, <1>2, <1>5

\* M is L with an entry e about tool t of server s at place k.
Adds(L, M, k, e, s, t) ==
  M = Append(L, e) /\ k = Len(L) + 1 /\ e.s = s /\ e.t = t

\* Those before the new one are what was logged of its tool.
LEMMA EarlierOfNew ==
  ASSUME NEW L \in Seq(Entry), NEW M, NEW k, NEW e, NEW s, NEW t, Adds(L, M, k, e, s, t)
  PROVE  /\ M[k] = e /\ Earlier(M, k) = Logged(L, s, t)
         /\ NewestOf(M, Logged(L, s, t)) = NewestOf(L, Logged(L, s, t))
         /\ \A j \in Logged(L, s, t) : M[j] = L[j]
<1>1. /\ k = Len(L) + 1 /\ Len(L) \in Nat /\ DOMAIN L = 1 .. Len(L) /\ M[k] = e
      /\ \A j \in DOMAIN L : M[j] = L[j]
      /\ e.s = s /\ e.t = t
  BY DEF Adds
<1>2. Earlier(M, k) = Logged(L, s, t)
  BY <1>1 DEF Earlier, Logged
<1> DEFINE J == Logged(L, s, t)
<1>3. \A j \in J : M[j] = L[j]
  BY <1>1 DEF Logged
<1>4. \A j \in J : (\A i \in J : M[i].ts <= M[j].ts) <=> (\A i \in J : L[i].ts <= L[j].ts)
  BY <1>3
<1>5. NewestOf(M, J) = NewestOf(L, J)
  BY <1>4 DEF NewestOf
<1>6. QED
  BY <1>1, <1>2, <1>3, <1>5

\* A verdict is about what was last seen of the tool: as long as one proxy of a server
\* runs at a time and a response names no tool twice, an observation is Unchanged exactly
\* if it repeats the one before, whatever older releases pinned, whichever versions they
\* hashed with and whatever fails in between (classify_fingerprint, touch_fingerprint).
LEMMA VerdictsFollowTheLog ==
  ASSUME OneProxyEach, NamedOnce, HashCovers PROVE Spec => []VerdictsAreTrue
<1>1. Init => VerdictsAreTrue
  BY DEF Init, VerdictsAreTrue
<1>2. TableInv /\ LogInv /\ VerdictsAreTrue /\ [Next]_vars => VerdictsAreTrue'
  <2> SUFFICES ASSUME TableInv, LogInv, VerdictsAreTrue, [Next]_vars PROVE VerdictsAreTrue'
    OBVIOUS
  <2>1. ASSUME NEW n \in Sessions, Record(n) PROVE VerdictsAreTrue'
    <3>1. PICK s \in Servers, t \in Tools, d \in Defs, e \in Entry : Logs(n, s, t, d, e)
      BY <2>1, RecordLogs
    <3>2. log' = Append(log, e) /\ e.s = s /\ e.t = t /\ e.d = d /\ log \in Seq(Entry)
      BY <3>1 DEF Logs, TableInv
    <3>3. ASSUME NEW k \in DOMAIN log' PROVE RightOf(log', k)
      <4>0. clock \in Nat /\ \A j \in DOMAIN log : log[j].ts < clock
        BY DEF TableInv, LogInv, OrderInv
      <4>1. CASE k \in DOMAIN log
        BY <3>2, <4>0, <4>1, EarlierStays, VerdictsByLog
      <4>2. CASE k = Len(log) + 1
        <5>1. /\ log'[k] = e /\ Earlier(log', k) = Logged(log, s, t)
              /\ NewestOf(log', Earlier(log', k)) = NewestOf(log, Logged(log, s, t))
              /\ \A j \in Logged(log, s, t) : log'[j] = log[j]
          <6>1. Adds(log, log', k, e, s, t)
            BY <3>2, <4>2 DEF Adds
          <6>2. log \in Seq(Entry)
            BY <3>2
          <6>3. /\ log'[k] = e /\ Earlier(log', k) = Logged(log, s, t)
                /\ NewestOf(log', Logged(log, s, t)) = NewestOf(log, Logged(log, s, t))
                /\ \A j \in Logged(log, s, t) : log'[j] = log[j]
            BY <6>1, <6>2, EarlierOfNew
          <6>4. QED
            BY <6>3
        <5>2. CASE Logged(log, s, t) = {}
          BY <5>1, <5>2 DEF RightOf
        <5>3. CASE Logged(log, s, t) # {}
          <6>1. PICK m \in Logged(log, s, t) :
                  /\ \A j \in Logged(log, s, t) : j <= m
                  /\ NewestOf(log, Logged(log, s, t)) = m
            BY <5>3, LastIsNewest
          <6>2. e.out = "Unchanged" <=> d = log[m].d
            BY <3>1, <6>1, VerdictIsTrue
          <6>3. QED
            BY <3>2, <5>1, <6>1, <6>2 DEF RightOf
        <5>4. QED
          BY <5>2, <5>3
      <4>3. QED
        BY <3>2, <4>0, <4>1, <4>2, EarlierStays
    <3>4. QED
      BY <3>3, VerdictsByLog
  <2>2. CASE UNCHANGED log
    BY <2>2, VerdictsByLog
  <2>3. QED
    BY <2>1, <2>2 DEF Next, Observe, Alert, Fail, Crash, vars
<1>3. QED
  BY <1>1, <1>2, InitSound, NextSound, LogStart, NextLogInv, PTL DEF Spec

-----------------------------------------------------------------------------
(* The baseline an older release left.                                     *)

Old(s, t) == History(LegacyRows, LegacyKey[s], t)
Taken(s, t) == Moving(Old(s, t), s)

\* Until a tool is first logged its old rows are all there is of it, on one key.
FirstInv ==
  \A s \in Servers, t \in Tools : Logged(log, s, t) = {} =>
    \/ History(rows, s, t) = {} /\ History(rows, LegacyKey[s], t) = Old(s, t)
    \/ History(rows, LegacyKey[s], t) = {} /\ History(rows, s, t) = Taken(s, t)

LEMMA FirstStart == Init => FirstInv
<1> SUFFICES ASSUME Init, NEW s \in Servers, NEW t \in Tools
             PROVE  History(rows, s, t) = {} /\ History(rows, LegacyKey[s], t) = Old(s, t)
  BY DEF FirstInv
<1>1. QED
  BY LegacyRowsAssumption DEF Init, History, Old

LEMMA FirstStep ==
  ASSUME TableInv, FirstInv, OwnLegacyKey, NEW n \in Sessions,
         NEW s \in Servers, NEW t \in Tools, NEW d \in Defs, NEW e \in Entry, Logs(n, s, t, d, e)
  PROVE  FirstInv'
<1> DEFINE Q == Rekeyed(rows, s, t)
<1>1. Sound(rows, nextId, clock) /\ nextId \in Nat /\ clock \in Nat /\ Sound(Q, nextId, clock)
  BY RekeyedSound DEF TableInv
<1>2. \A k, w : k # s \/ w # t => History(rows', k, w) = History(Q, k, w)
  <2> HIDE DEF Q
  <2>1. rows' = Recorded(Q, nextId, s, t, d, stamp[n]) /\ stamp[n] \in 0 .. clock - 1
    BY DEF Logs, Q, TableInv
  <2>2. QED
    BY <1>1, <2>1, RecordedHistory
<1>3. SUFFICES ASSUME NEW u \in Servers, NEW w \in Tools, Logged(log', u, w) = {}
               PROVE  \/ /\ History(rows', u, w) = {}
                         /\ History(rows', LegacyKey[u], w) = Old(u, w)
                      \/ /\ History(rows', LegacyKey[u], w) = {}
                         /\ History(rows', u, w) = Taken(u, w)
  BY DEF FirstInv
<1>4. Logged(log, u, w) = {} /\ (u # s \/ w # t)
  <2>1. /\ Len(log) \in Nat /\ DOMAIN log = 1 .. Len(log) /\ DOMAIN log' = 1 .. Len(log) + 1
        /\ log'[Len(log) + 1] = e /\ \A k \in DOMAIN log : log'[k] = log[k]
        /\ e.s = s /\ e.t = t
    BY DEF Logs, TableInv
  <2>2. QED
    BY <1>3, <2>1 DEF Logged
<1>5. \/ History(rows, u, w) = {} /\ History(rows, LegacyKey[u], w) = Old(u, w)
      \/ History(rows, LegacyKey[u], w) = {} /\ History(rows, u, w) = Taken(u, w)
  BY <1>4 DEF FirstInv
<1>6. LegacyKey[u] # s
  OBVIOUS
<1>7. /\ History(rows', u, w) = History(Q, u, w)
      /\ History(rows', LegacyKey[u], w) = History(Q, LegacyKey[u], w)
  BY <1>2, <1>4, <1>6
<1>8. CASE u # s
  <2>1. LegacyKey[u] # LegacyKey[s]
    BY <1>8 DEF OwnLegacyKey
  <2>2. History(Q, u, w) = History(rows, u, w)
    BY <1>1, <1>8, RekeyedHistory
  <2>3. History(Q, LegacyKey[u], w) = History(rows, LegacyKey[u], w)
    BY <1>1, <1>6, <2>1, RekeyedHistory
  <2>4. QED
    BY <1>5, <1>7, <2>2, <2>3
<1>9. CASE u = s /\ Q = rows
  BY <1>5, <1>7, <1>9
<1>10. CASE u = s /\ Q # rows
  <2>1. /\ History(Q, LegacyKey[u], w) = {}
        /\ History(Q, u, w) =
             History(rows, u, w) \cup Moving(History(rows, LegacyKey[u], w), u)
    <3>1. Rekeyed(rows, s, t) # rows
      BY <1>10
    <3>2. /\ History(Q, LegacyKey[s], w) = {}
          /\ History(Q, s, w) =
               History(rows, s, w) \cup Moving(History(rows, LegacyKey[s], w), s)
      BY <1>1, <3>1, RekeyedTool
    <3>3. QED
      BY <1>10, <3>2
  <2>2. History(Q, u, w) = Taken(u, w)
    <3>1. CASE History(rows, u, w) = {} /\ History(rows, LegacyKey[u], w) = Old(u, w)
      BY <2>1, <3>1 DEF Taken
    <3>2. CASE History(rows, LegacyKey[u], w) = {} /\ History(rows, u, w) = Taken(u, w)
      BY <2>1, <3>2 DEF Moving
    <3>3. QED
      BY <1>5, <3>1, <3>2
  <2>3. QED
    BY <1>7, <2>1, <2>2
<1>11. QED
  BY <1>8, <1>9, <1>10

\* The latest of the rows taken over is the latest of the old ones.
LEMMA TakenLatest ==
  ASSUME NEW s \in Servers, NEW t \in Tools, Old(s, t) # {}, NEW d \in Defs
  PROVE  /\ Latest(Taken(s, t)) \in Taken(s, t)
         /\ Matches(Latest(Taken(s, t)), d) <=> Matches(Latest(Old(s, t)), d)
<1> DEFINE H == Old(s, t)
           b == Cardinality(LegacyRows) + 1
<1>1. \A r \in H : r \in Row /\ r.seen = 0 /\ r.id < b
  <2>1. Cardinality(LegacyRows) \in Nat
    BY LegacyRowsAssumption, FS_CardinalityType
  <2>2. \A r \in LegacyRows : r \in Row /\ r.seen = 0 /\ r.id <= Cardinality(LegacyRows)
    BY LegacyRowsAssumption
  <2>3. \A r \in LegacyRows : r.id \in Nat
    BY <2>2 DEF Row
  <2>4. QED
    BY <2>1, <2>2, <2>3 DEF Old, History
<1>2. b \in Nat
  BY LegacyRowsAssumption, FS_CardinalityType
<1>3. /\ Latest(H) \in H
      /\ \A q \in H : \/ q.seen < Latest(H).seen
                      \/ q.seen = Latest(H).seen /\ q.id <= Latest(H).id
  <2> HIDE DEF H, b
  <2>1. \A r \in H : r \in Row /\ r.id < b /\ r.seen < 1
    BY <1>1
  <2>2. H # {}
    BY DEF H
  <2>3. QED
    BY <1>2, <2>1, <2>2, LatestIsOne
<1> DEFINE top == Latest(H)
<1>4. \A q \in H : q # top => q.id < top.id
  <2>1. \A q \in H : q.id <= top.id
    BY <1>1, <1>3
  <2>2. \A q \in H : q # top => q.id # top.id
    BY <1>3, LegacyRowsAssumption DEF Old, History
  <2>3. \A q \in H : q.id \in Nat
    BY <1>1 DEF Row
  <2>4. QED
    BY <1>3, <2>1, <2>2, <2>3
<1>5. \A r \in H : /\ MovedTo(r, s).seen = 0 /\ MovedTo(r, s).id = r.id /\ r.id \in Nat
                   /\ MovedTo(r, s).fp = r.fp /\ MovedTo(r, s).ver = r.ver
  BY <1>1 DEF MovedTo, Row
<1>6. Latest(Taken(s, t)) = MovedTo(top, s)
  <2> DEFINE G == Taken(s, t)
  <2>1. G = {MovedTo(r, s) : r \in H}
    BY DEF Taken, Moving
  <2> HIDE DEF G, top, H
  <2>2. \A q \in G : q.seen \in Nat /\ q.id \in Nat
    BY <1>5, <2>1
  <2>3. MovedTo(top, s) \in G
    BY <1>3, <2>1 DEF top
  <2>4. \A q \in G : q # MovedTo(top, s) =>
          q.seen = 0 /\ MovedTo(top, s).seen = 0 /\ q.id < MovedTo(top, s).id
    BY <1>3, <1>4, <1>5, <2>1 DEF top
  <2>5. QED
    BY <2>2, <2>3, <2>4, LeaderIsLatest DEF G
<1>7. QED
  BY <1>3, <1>5, <1>6 DEF Matches, Taken, Moving

\* The first verdict about a tool of an older release.
LEMMA FirstVerdict ==
  ASSUME TableInv, FirstInv, NEW n \in Sessions,
         NEW s \in Servers, NEW t \in Tools, NEW d \in Defs, NEW e \in Entry, Logs(n, s, t, d, e),
         Logged(log, s, t) = {}, Old(s, t) # {}
  PROVE  /\ e.out # "New"
         /\ e.out = "Unchanged" <=> Matches(Latest(Old(s, t)), d)
<1> DEFINE H == History(Rekeyed(rows, s, t), s, t)
<1>1. Sound(rows, nextId, clock) /\ nextId \in Nat /\ clock \in Nat
  BY DEF TableInv
<1>2. Taken(s, t) # {}
  BY DEF Taken, Moving
<1>3. H = Taken(s, t)
  <2>1. CASE History(rows, s, t) = {} /\ History(rows, LegacyKey[s], t) = Old(s, t)
    <3>1. Old(s, t) # {}
      OBVIOUS
    <3>2. QED
      BY <1>1, <2>1, <3>1, RekeyedFirst DEF Taken
  <2>2. CASE History(rows, LegacyKey[s], t) = {} /\ History(rows, s, t) = Taken(s, t)
    BY <1>1, <1>2, <2>2, RekeyedHistory
  <2>3. QED
    BY <2>1, <2>2 DEF FirstInv
<1>4. e.out = Outcome(H, d)
  BY DEF Logs
<1> HIDE DEF H
<1>5. H # {} /\ Latest(H) \in H /\ (Matches(Latest(H), d) <=> Matches(Latest(Old(s, t)), d))
  BY <1>2, <1>3, TakenLatest
<1>6. Matches(Latest(H), d) => Candidates(H, d) # {}
  BY <1>5 DEF Candidates, Matching
<1>7. QED
  BY <1>4, <1>5, <1>6 DEF Outcome

\* What BaselineKept says of one entry, for any log.
KeptOf(L, k) ==
  Old(L[k].s, L[k].t) # {} /\ Earlier(L, k) = {} =>
    /\ L[k].out # "New"
    /\ L[k].out = "Unchanged" <=> Matches(Latest(Old(L[k].s, L[k].t)), L[k].d)

LEMMA BaselineByLog ==
  /\ BaselineKept <=> \A k \in DOMAIN log : KeptOf(log, k)
  /\ BaselineKept' <=> \A k \in DOMAIN log' : KeptOf(log', k)
  BY DEF BaselineKept, Before, KeptOf, Earlier, Old

\* Upgrading resets no baseline: where no two servers shared a legacy key, the first
\* verdict about a tool that an older release pinned is about the definition it pinned,
\* whichever tool of the server was seen first, in whichever session (the re-key of
\* record_fingerprint_txn).
THEOREM UpgradeKeepsBaselines ==
  ASSUME OwnLegacyKey PROVE Spec => []BaselineKept
<1>1. Init => BaselineKept
  BY DEF Init, BaselineKept
<1>2. TableInv /\ FirstInv /\ BaselineKept /\ [Next]_vars => FirstInv' /\ BaselineKept'
  <2> SUFFICES ASSUME TableInv, FirstInv, BaselineKept, [Next]_vars
               PROVE  FirstInv' /\ BaselineKept'
    OBVIOUS
  <2>1. ASSUME NEW n \in Sessions, Record(n) PROVE FirstInv' /\ BaselineKept'
    <3>1. PICK s \in Servers, t \in Tools, d \in Defs, e \in Entry : Logs(n, s, t, d, e)
      BY <2>1, RecordLogs
    <3>2. /\ log' = Append(log, e) /\ e.s = s /\ e.t = t /\ e.d = d /\ log \in Seq(Entry)
          /\ Len(log) \in Nat /\ DOMAIN log = 1 .. Len(log) /\ DOMAIN log' = 1 .. Len(log) + 1
          /\ log'[Len(log) + 1] = e /\ \A k \in DOMAIN log : log'[k] = log[k]
      BY <3>1 DEF Logs, TableInv
    <3>3. ASSUME NEW k \in DOMAIN log' PROVE KeptOf(log', k)
      <4>1. CASE k \in DOMAIN log
        <5>1. Earlier(log', k) = Earlier(log, k)
          BY <3>2, <4>1 DEF Earlier
        <5>2. KeptOf(log, k)
          BY <4>1, BaselineByLog
        <5>3. QED
          BY <3>2, <4>1, <5>1, <5>2 DEF KeptOf
      <4>2. CASE k = Len(log) + 1
        <5>1. Earlier(log', k) = Logged(log, s, t)
          BY <3>2, <4>2 DEF Earlier, Logged
        <5>2. log'[k].s = s /\ log'[k].t = t /\ log'[k].d = d /\ log'[k].out = e.out
          BY <3>2, <4>2
        <5>3. Logged(log, s, t) = {} /\ Old(s, t) # {} =>
                /\ e.out # "New"
                /\ e.out = "Unchanged" <=> Matches(Latest(Old(s, t)), d)
          BY <3>1, FirstVerdict
        <5>4. QED
          BY <5>1, <5>2, <5>3 DEF KeptOf
      <4>3. QED
        BY <3>2, <4>1, <4>2
    <3>4. FirstInv'
      BY <3>1, FirstStep
    <3>5. QED
      BY <3>3, <3>4, BaselineByLog
  <2>2. CASE UNCHANGED <<rows, log>>
    <3>1. FirstInv'
      BY <2>2 DEF FirstInv
    <3>2. QED
      BY <2>2, <3>1, BaselineByLog
  <2>3. QED
    BY <2>1, <2>2 DEF Next, Observe, Alert, Fail, Crash, vars
<1>3. QED
  BY <1>1, <1>2, InitSound, NextSound, FirstStart, PTL DEF Spec

-----------------------------------------------------------------------------
(* The alerts.                                                             *)

\* A change is owed by one session at a time, or has been written, or something went
\* wrong.
OwedInv ==
  /\ alerts \in Seq(Entry) /\ mishaps \in Nat
  /\ owed = [n \in Sessions |-> owed[n]]
  /\ \A n \in Sessions :
       owed[n] = Nothing \/ (owed[n] \in Entry /\ \E k \in Changes : owed[n] = log[k])
  /\ IsFiniteSet(Pending)
  /\ AlertsAccountedFor

LEMMA ChangesFinite ==
  ASSUME TableInv PROVE IsFiniteSet(Changes) /\ Cardinality(Changes) \in Nat
<1>1. Len(log) \in Nat /\ Changes \in SUBSET (1 .. Len(log))
  BY DEF TableInv, Changes
<1>2. IsFiniteSet(1 .. Len(log))
  BY <1>1, FS_Interval
<1>3. QED
  BY <1>1, <1>2, FS_Subset, FS_CardinalityType

LEMMA OwedStart == Init => OwedInv
<1> SUFFICES ASSUME Init PROVE OwedInv
  OBVIOUS
<1>1. Changes = {} /\ Pending = {} /\ log = <<>> /\ alerts = <<>> /\ mishaps = 0
  BY DEF Init, Changes, Pending
<1>2. IsFiniteSet({}) /\ Cardinality({}) = 0
  BY FS_EmptySet
<1>3. AlertsAccountedFor
  BY <1>1, <1>2 DEF AlertsAccountedFor
<1>4. QED
  BY <1>1, <1>2, <1>3 DEF Init, OwedInv

\* A session gives up what it owes, or owed nothing: it is written, or it is lost.
LEMMA GivesUp ==
  ASSUME TableInv, OwedInv, NEW n \in Sessions, UNCHANGED log,
         owed' = [owed EXCEPT ![n] = Nothing],
         \/ owed[n] # Nothing /\ alerts' = Append(alerts, owed[n]) /\ mishaps' = mishaps
         \/ alerts' = alerts /\ mishaps' = mishaps + 1
  PROVE  OwedInv'
<1> DEFINE P == Pending
<1>1. Changes' = Changes
  BY DEF Changes
<1>2. Pending' = Pending \ {n}
  BY DEF OwedInv, Pending
<1>3. IsFiniteSet(Pending') /\ Cardinality(Pending) \in Nat
      /\ Cardinality(Pending') = IF n \in Pending THEN Cardinality(Pending) - 1
                                                  ELSE Cardinality(Pending)
  BY <1>2, FS_RemoveElement, FS_CardinalityType DEF OwedInv
<1>4. Cardinality(Changes) \in Nat /\ Len(alerts) \in Nat /\ mishaps \in Nat
  BY ChangesFinite DEF OwedInv
<1>5. /\ Cardinality(Changes) >= Len(alerts) + Cardinality(Pending)
      /\ Cardinality(Changes) <= Len(alerts) + Cardinality(Pending) + mishaps
  BY DEF OwedInv, AlertsAccountedFor
<1>6. \A m \in Sessions :
        owed'[m] = Nothing \/ (owed'[m] \in Entry /\ \E k \in Changes : owed'[m] = log[k])
  BY DEF OwedInv
<1>7. owed' = [m \in Sessions |-> owed'[m]]
  BY DEF OwedInv
<1>8. CASE owed[n] # Nothing /\ alerts' = Append(alerts, owed[n]) /\ mishaps' = mishaps
  <2>1. n \in Pending
    BY <1>8 DEF Pending
  <2>2. owed[n] \in Entry /\ \E k \in Changes : owed[n] = log[k]
    BY <1>8 DEF OwedInv
  <2>3. alerts' \in Seq(Entry) /\ Len(alerts') = Len(alerts) + 1
    BY <1>8, <2>2 DEF OwedInv
  <2>4. \A j \in DOMAIN alerts' : \E k \in Changes : alerts'[j] = log[k]
    <3>1. \A j \in DOMAIN alerts' :
            alerts'[j] = owed[n] \/ (j \in DOMAIN alerts /\ alerts'[j] = alerts[j])
      BY <1>8, <2>2 DEF OwedInv
    <3>2. QED
      BY <2>2, <3>1 DEF OwedInv, AlertsAccountedFor
  <2>5. /\ Cardinality(Changes') >= Len(alerts') + Cardinality(Pending')
        /\ Cardinality(Changes') <= Len(alerts') + Cardinality(Pending') + mishaps'
    BY <1>1, <1>3, <1>4, <1>5, <1>8, <2>1, <2>3
  <2>6. AlertsAccountedFor'
    BY <1>1, <2>4, <2>5 DEF AlertsAccountedFor
  <2>7. QED
    BY <1>1, <1>3, <1>4, <1>6, <1>7, <1>8, <2>3, <2>6 DEF OwedInv
<1>9. CASE alerts' = alerts /\ mishaps' = mishaps + 1
  <2>1. /\ Cardinality(Changes') >= Len(alerts') + Cardinality(Pending')
        /\ Cardinality(Changes') <= Len(alerts') + Cardinality(Pending') + mishaps'
    BY <1>1, <1>3, <1>4, <1>5, <1>9
  <2>2. AlertsAccountedFor'
    BY <1>1, <1>9, <2>1 DEF OwedInv, AlertsAccountedFor
  <2>3. QED
    BY <1>1, <1>3, <1>4, <1>6, <1>7, <1>9, <2>2 DEF OwedInv
<1>10. QED
  BY <1>8, <1>9

\* A verdict is logged, and what it gives rise to is owed.
LEMMA Owes ==
  ASSUME TableInv, TableInv', OwedInv, NEW n \in Sessions,
         NEW s \in Servers, NEW t \in Tools, NEW d \in Defs, NEW e \in Entry, Logs(n, s, t, d, e)
  PROVE  OwedInv'
<1> DEFINE top == Len(log) + 1
<1>1. /\ Len(log) \in Nat /\ DOMAIN log = 1 .. Len(log) /\ DOMAIN log' = 1 .. top
      /\ log'[top] = e /\ \A k \in DOMAIN log : log'[k] = log[k]
  BY DEF Logs, TableInv
<1>2. /\ owed' = [owed EXCEPT ![n] = IF Alarming(e.out) THEN e ELSE Nothing]
      /\ owed[n] = Nothing /\ UNCHANGED <<alerts, mishaps>>
  BY DEF Logs
<1>3. Changes' = (IF Alarming(e.out) THEN Changes \cup {top} ELSE Changes) /\ top \notin Changes
  BY <1>1 DEF Changes, Alarming
<1>4. e # Nothing
  BY DEF Entry, Nothing
<1>5. Pending' = (IF Alarming(e.out) THEN Pending \cup {n} ELSE Pending) /\ n \notin Pending
  BY <1>2, <1>4 DEF OwedInv, Pending
<1>6. IsFiniteSet(Changes) /\ Cardinality(Changes) \in Nat /\ IsFiniteSet(Pending)
      /\ Cardinality(Pending) \in Nat /\ Len(alerts) \in Nat /\ mishaps \in Nat
  BY ChangesFinite, FS_CardinalityType DEF OwedInv
<1>7. /\ IsFiniteSet(Pending')
      /\ \/ Cardinality(Changes') = Cardinality(Changes) + 1
            /\ Cardinality(Pending') = Cardinality(Pending) + 1
         \/ Cardinality(Changes') = Cardinality(Changes)
            /\ Cardinality(Pending') = Cardinality(Pending)
  <2>1. CASE Alarming(e.out)
    BY <1>3, <1>5, <1>6, <2>1, FS_AddElement
  <2>2. CASE ~Alarming(e.out)
    BY <1>3, <1>5, <1>6, <2>2
  <2>3. QED
    BY <2>1, <2>2
<1>8. \A k \in Changes : k \in Changes' /\ log'[k] = log[k]
  BY <1>1, <1>3 DEF Changes
<1>9. \A j \in DOMAIN alerts : \E k \in Changes' : alerts[j] = log'[k]
  BY <1>8 DEF OwedInv, AlertsAccountedFor
<1>10. \A m \in Sessions :
         owed'[m] = Nothing \/ (owed'[m] \in Entry /\ \E k \in Changes' : owed'[m] = log'[k])
  <2>1. \A m \in Sessions : m # n => owed'[m] = owed[m]
    BY <1>2 DEF OwedInv
  <2>2. CASE Alarming(e.out)
    BY <1>1, <1>2, <1>3, <1>8, <2>1, <2>2 DEF OwedInv
  <2>3. CASE ~Alarming(e.out)
    BY <1>2, <1>8, <2>1, <2>3 DEF OwedInv
  <2>4. QED
    BY <2>2, <2>3
<1>11. /\ Cardinality(Changes') >= Len(alerts) + Cardinality(Pending')
       /\ Cardinality(Changes') <= Len(alerts) + Cardinality(Pending') + mishaps
  BY <1>6, <1>7 DEF OwedInv, AlertsAccountedFor
<1>12. AlertsAccountedFor'
  BY <1>2, <1>9, <1>11 DEF AlertsAccountedFor
<1>13. owed' = [m \in Sessions |-> owed'[m]]
  BY <1>2 DEF OwedInv
<1>14. QED
  BY <1>2, <1>6, <1>7, <1>10, <1>12, <1>13 DEF OwedInv

LEMMA NextOwed == TableInv /\ OwedInv /\ [Next]_vars => OwedInv'
<1> SUFFICES ASSUME TableInv, OwedInv, [Next]_vars PROVE OwedInv'
  OBVIOUS
<1>1. ASSUME NEW n \in Sessions, Record(n) PROVE OwedInv'
  <2>1. PICK s \in Servers, t \in Tools, d \in Defs, e \in Entry : Logs(n, s, t, d, e)
    BY <1>1, RecordLogs
  <2>2. TableInv'
    BY NextSound
  <2>3. QED
    BY <2>1, <2>2, Owes
<1>2. ASSUME NEW n \in Sessions, Alert(n) PROVE OwedInv'
  BY <1>2, GivesUp DEF Alert
<1>3. ASSUME UNCHANGED <<log, owed, alerts>>, mishaps' \in {mishaps, mishaps + 1} PROVE OwedInv'
  <2>1. Changes' = Changes /\ Pending' = Pending
    BY <1>3 DEF Changes, Pending
  <2>2. Cardinality(Changes) \in Nat /\ Len(alerts) \in Nat /\ Cardinality(Pending) \in Nat
    BY ChangesFinite, FS_CardinalityType DEF OwedInv
  <2>3. AlertsAccountedFor'
    BY <1>3, <2>1, <2>2 DEF OwedInv, AlertsAccountedFor
  <2>4. QED
    BY <1>3, <2>1, <2>3 DEF OwedInv
<1>4. ASSUME NEW n \in Sessions, Fail(n) \/ Crash(n) PROVE OwedInv'
  BY <1>3, <1>4, GivesUp DEF Fail, Crash
<1>5. ASSUME NEW n \in Sessions, Observe(n) PROVE OwedInv'
  BY <1>3, <1>5 DEF Observe
<1>6. CASE UNCHANGED vars
  BY <1>3, <1>6 DEF vars
<1>7. QED
  BY <1>1, <1>2, <1>4, <1>5, <1>6 DEF Next

\* Every alert is of a change and every change is alerted once, except for as many as
\* crashes and failed statements came between a transaction and its alert
\* (record_fingerprints, insert_security_event).
LEMMA AlertsAreCounted == Spec => []AlertsAccountedFor
<1>1. OwedInv => AlertsAccountedFor
  BY DEF OwedInv
<1>2. QED
  BY <1>1, InitSound, NextSound, OwedStart, NextOwed, PTL DEF Spec

\* The alerts are the changes there have been: a tool is found changed exactly when it
\* differs from its last observation, and that is alerted once, for any number of
\* servers, tools and sessions, as long as one proxy of a server runs at a time and a
\* response names no tool twice.
THEOREM AlertsTellTheTruth ==
  ASSUME OneProxyEach, NamedOnce, HashCovers PROVE Spec => []AlertsAreTrue
<1>1. VerdictsAreTrue /\ AlertsAccountedFor => AlertsAreTrue
  BY DEF AlertsAreTrue
<1>2. QED
  BY <1>1, VerdictsFollowTheLog, AlertsAreCounted, PTL
=============================================================================
