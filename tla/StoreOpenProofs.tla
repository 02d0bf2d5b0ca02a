--------------------------- MODULE StoreOpenProofs ---------------------------
(***************************************************************************)
(* Opening the session database, for every schema, every set of openers    *)
(* and every number of them killed: an opener that got through has the     *)
(* whole schema, and what a killed one leaves behind harms nobody.         *)
(***************************************************************************)
EXTENDS StartUp, SequenceTheorems, TLAPS

Files == [tables : SUBSET Tables, cols : SUBSET All, version : {0, 1, Current},
          commits : Nat, v0 : BOOLEAN]

Pcs == {"closed", "probe", "tables", "rename", "memory", "sidecars", "open", "version",
        "column", "alter", "create", "stamp", "up", "failed", "answered"}

\* A connection on a file: one that may write to it, and any there is.
Upgrading(o) == pc[o] \in {"column", "alter", "create", "stamp"}
Opened(o)    == Upgrading(o) \/ pc[o] \in {"version", "up", "failed"}

TypeInv ==
  /\ db \in Seq(Files)
  /\ path \in 0 .. Len(db)
  /\ pc \in [Openers -> Pcs]
  /\ at \in [Openers -> 1 .. (Len(Columns) + 1)]
  /\ file \in [Openers -> 0 .. Len(db)]
  /\ snap \in [Openers -> Nat]
  /\ laid \in Start
  /\ laid = "phase0" => Len(db) > 0

\* A stamp means the whole schema; without one a file is empty or a Phase-0 file.
FileInv(f) ==
  /\ db[f].version = Current => db[f].tables = Tables /\ db[f].cols = All
  /\ Ours(f) => ~db[f].v0 /\ (db[f].version = 0 => db[f].tables = {})
  /\ ~Ours(f) => db[f].v0 /\ db[f].version = 0 /\ Messages \in db[f].tables

\* Opener o has no column left to add before the one it is at.
Walked(o) ==
  \A j \in 1 .. (at[o] - 1) : ~Wants(db[file[o]], Columns[j])

\* What o read of its file is so still, or another has written to it, after which a
\* file of ours is stamped.
OpenerInv(o) ==
  /\ Opened(o) \/ pc[o] = "tables" => file[o] \in DOMAIN db
  /\ pc[o] = "tables" => o \in raced \/ db[file[o]].version = 0
  /\ pc[o] \in {"rename", "memory"} /\ Ours(file[o]) => o \in raced
  /\ Upgrading(o) => Walked(o)
  /\ pc[o] = "alter" => at[o] <= Len(Columns) /\ Columns[at[o]].table \in db[file[o]].tables
  /\ pc[o] = "alter" /\ o \notin raced => Columns[at[o]] \notin db[file[o]].cols
  /\ pc[o] \in {"create", "stamp"} => at[o] = Len(Columns) + 1
  /\ pc[o] = "stamp" =>
       \/ snap[o] = db[file[o]].commits
       \/ o \in raced /\ (Ours(file[o]) => db[file[o]].version # 0)
  /\ pc[o] = "up" => db[file[o]].version = Current
  /\ pc[o] = "failed" =>
       \/ o \in raced /\ db[file[o]].version # 0
       \/ ~Ours(file[o])

StoreInv ==
  /\ TypeInv
  /\ \A f \in DOMAIN db : FileInv(f)
  /\ \A o \in Openers : OpenerInv(o)

-----------------------------------------------------------------------------

LEMMA InitStoreInv == Init => StoreInv
<1> SUFFICES ASSUME Init PROVE StoreInv
  OBVIOUS
<1> USE DEF Init
<1>1. Columns \in Seq([table : Tables, name : STRING]) /\ Len(Columns) \in Nat
  BY StoreOpenAssumption
<1>2. Empty \in Files /\ Phase0 \in Files
  BY StoreOpenAssumption DEF Empty, Phase0, Files, Current
<1>3. \A k \in 0 .. Len(Columns) : Old(k) \in Files /\ Old(k).version = 1 /\ ~Old(k).v0
  <2> TAKE k \in 0 .. Len(Columns)
  <2>1. {Columns[j] : j \in 1 .. k} \subseteq All
    BY <1>1 DEF All
  <2>2. QED
    BY <2>1 DEF Old, Empty, Files
<1>4. \A o \in Openers : OpenerInv(o)
  BY DEF OpenerInv, Opened, Upgrading
<1>5. CASE laid = "none"
  BY <1>1, <1>4, <1>5, StoreOpenAssumption DEF StoreInv, TypeInv, Pcs
<1>6. CASE laid = "phase0"
  <2>1. db = <<Phase0>> /\ path = 1
    BY <1>6
  <2>2. db \in Seq(Files) /\ Len(db) = 1 /\ db[1] = Phase0
    BY <1>2, <2>1
  <2>3. FileInv(1)
    BY <1>6, <2>2 DEF FileInv, Ours, Phase0, Empty, Current
  <2>4. TypeInv
    BY <1>1, <2>1, <2>2 DEF TypeInv, Pcs
  <2>5. QED
    BY <1>4, <2>2, <2>3, <2>4 DEF StoreInv
<1>7. CASE laid = "old"
  <2>1. PICK k \in 0 .. Len(Columns) : db = <<Old(k)>>
    BY <1>7
  <2>2. db \in Seq(Files) /\ Len(db) = 1 /\ db[1] = Old(k) /\ path = 1
    BY <1>3, <1>7, <2>1
  <2>3. FileInv(1)
    BY <1>3, <1>7, <2>2 DEF FileInv, Ours, Current
  <2>4. TypeInv
    BY <1>1, <1>7, <2>2 DEF TypeInv, Pcs
  <2>5. QED
    BY <1>4, <2>2, <2>3, <2>4 DEF StoreInv
<1>8. QED
  BY <1>5, <1>6, <1>7

\* A step that commits nothing, for the openers it leaves where they are.
LEMMA FilesKept ==
  ASSUME TypeInv, \A f \in DOMAIN db : FileInv(f), UNCHANGED laid,
         db' = db \/ (db' = Append(db, Empty) /\ (laid # "phase0" \/ Len(db) > 0))
  PROVE  /\ db' \in Seq(Files) /\ Len(db') >= Len(db) /\ Len(db') \in Nat
         /\ \A f \in DOMAIN db : f \in DOMAIN db' /\ db'[f] = db[f]
         /\ \A f \in DOMAIN db' : FileInv(f)'
<1>1. Empty \in Files
  BY DEF Empty, Files, Current
<1>2. db \in Seq(Files) /\ Len(db) \in Nat
  BY DEF TypeInv
<1>3. CASE db' = db
  BY <1>2, <1>3 DEF FileInv, Ours
<1>4. CASE db' = Append(db, Empty)
  <2>1. /\ db' \in Seq(Files) /\ Len(db') = Len(db) + 1
        /\ \A f \in DOMAIN db : f \in DOMAIN db' /\ db'[f] = db[f]
        /\ \A f \in DOMAIN db' : f \in DOMAIN db \/ (f = Len(db) + 1 /\ db'[f] = Empty)
    BY <1>1, <1>2, <1>4
  <2>2. \A f \in DOMAIN db' : FileInv(f)'
    <3> SUFFICES ASSUME NEW f \in DOMAIN db' PROVE FileInv(f)'
      OBVIOUS
    <3>1. CASE f \in DOMAIN db
      BY <2>1, <3>1 DEF FileInv, Ours
    <3>2. CASE f = Len(db) + 1 /\ db'[f] = Empty
      <4>1. Ours(f)'
        BY <1>2, <3>2 DEF Ours, TypeInv
      <4>2. QED
        BY <3>2, <4>1 DEF FileInv, Empty, Current, Ours
    <3>3. QED
      BY <2>1, <3>1, <3>2
  <2>3. QED
    BY <1>2, <2>1, <2>2
<1>5. QED
  BY <1>3, <1>4

LEMMA OpenerKept ==
  ASSUME TypeInv, NEW o \in Openers, OpenerInv(o), UNCHANGED laid,
         pc'[o] = pc[o], at'[o] = at[o], file'[o] = file[o], snap'[o] = snap[o],
         o \in raced <=> o \in raced',
         \A f \in DOMAIN db : f \in DOMAIN db' /\ db'[f] = db[f]
  PROVE  OpenerInv(o)'
BY DEF OpenerInv, Opened, Upgrading, Walked, Wants, Ours

\* What a step that only moves openers must show of those it moves.
LEMMA MovesKeep ==
  ASSUME StoreInv, UNCHANGED laid,
         db' = db \/ (db' = Append(db, Empty) /\ (laid # "phase0" \/ Len(db) > 0)),
         TypeInv', NEW M \in SUBSET Openers, \A o \in M : OpenerInv(o)',
         \A o \in Openers \ M :
           /\ pc'[o] = pc[o] /\ at'[o] = at[o] /\ file'[o] = file[o] /\ snap'[o] = snap[o]
           /\ o \in raced <=> o \in raced'
  PROVE  StoreInv'
<1>1. /\ \A f \in DOMAIN db : f \in DOMAIN db' /\ db'[f] = db[f]
      /\ \A f \in DOMAIN db' : FileInv(f)'
  BY FilesKept DEF StoreInv
<1>2. \A o \in Openers \ M : OpenerInv(o)'
  BY <1>1, OpenerKept DEF StoreInv
<1>3. QED
  BY <1>1, <1>2 DEF StoreInv

LEMMA MoveKeeps ==
  ASSUME StoreInv, NEW o \in Openers, UNCHANGED laid,
         db' = db \/ (db' = Append(db, Empty) /\ (laid # "phase0" \/ Len(db) > 0)),
         TypeInv', OpenerInv(o)',
         \A p \in Openers \ {o} :
           /\ pc'[p] = pc[p] /\ at'[p] = at[p] /\ file'[p] = file[p] /\ snap'[p] = snap[p]
           /\ p \in raced <=> p \in raced'
  PROVE  StoreInv'
<1>1. {o} \in SUBSET Openers /\ \A p \in {o} : OpenerInv(p)'
  OBVIOUS
<1>2. QED
  BY <1>1, MovesKeep

LEMMA FileTypes ==
  ASSUME TypeInv
  PROVE  /\ DOMAIN db = 1 .. Len(db) /\ Len(db) \in Nat
         /\ \A f \in DOMAIN db : db[f] \in Files
         /\ snap \in [Openers -> Nat] /\ Len(Columns) \in Nat
BY StoreOpenAssumption, ElementOfSeq DEF TypeInv

\* Connecting to the file at the path, which is created where there is none.
LEMMA ConnectKeeps ==
  ASSUME StoreInv, NEW o \in Openers, Connect(o), UNCHANGED <<at, snap, raced, laid>>,
         NEW l \in {"tables", "version"}, pc' = [pc EXCEPT ![o] = l],
         l = "tables" /\ path # 0 => db[path].version = 0
  PROVE  StoreInv'
<1>1. /\ TypeInv /\ OpenerInv(o) /\ db \in Seq(Files)
      /\ pc \in [Openers -> Pcs] /\ at \in [Openers -> 1 .. (Len(Columns) + 1)]
      /\ file \in [Openers -> 0 .. Len(db)] /\ path \in 0 .. Len(db) /\ Len(db) \in Nat
      /\ Len(Columns) \in Nat
  BY StoreOpenAssumption DEF StoreInv, TypeInv
<1>2. /\ IF path = 0 THEN db' = Append(db, Empty) /\ path' = Len(db) + 1
                     ELSE UNCHANGED <<db, path>>
      /\ file' = [file EXCEPT ![o] = path']
  BY DEF Connect
<1>3. /\ db' \in Seq(Files) /\ Len(db') \in Nat /\ Len(db') >= Len(db)
      /\ path' \in 1 .. Len(db') /\ (l = "tables" => db'[path'].version = 0)
  <2>1. Empty \in Files /\ Empty.version = 0
    BY <1>1 DEF Empty, Files, Current
  <2>2. CASE path = 0
    <3>1. db' = Append(db, Empty) /\ path' = Len(db) + 1
      BY <1>2, <2>2
    <3>2. QED
      BY <1>1, <2>1, <3>1
  <2>3. CASE path # 0
    BY <1>1, <1>2, <2>1, <2>3
  <2>4. QED
    BY <2>2, <2>3
<1>4. TypeInv'
  BY <1>1, <1>2, <1>3 DEF TypeInv, Pcs
<1>5. OpenerInv(o)'
  BY <1>1, <1>2, <1>3 DEF OpenerInv, Opened, Upgrading
<1>6. laid # "phase0" \/ Len(db) > 0
  BY <1>1 DEF TypeInv
<1>7. QED
  BY <1>1, <1>2, <1>4, <1>5, <1>6, MoveKeeps, FileTypes

\* The steps up to the version check.
LEMMA EarlySteps ==
  ASSUME StoreInv, NEW o \in Openers,
         \/ Exists(o) \/ ReadVersion(o) \/ ReadTables(o) \/ Rename(o) \/ RemoveSidecars(o)
         \/ OpenPhysical(o) \/ CheckVersion(o)
  PROVE  StoreInv'
<1>1. /\ TypeInv /\ OpenerInv(o)
      /\ pc \in [Openers -> Pcs] /\ at \in [Openers -> 1 .. (Len(Columns) + 1)]
      /\ file \in [Openers -> 0 .. Len(db)] /\ path \in 0 .. Len(db) /\ Len(db) \in Nat
      /\ Len(Columns) \in Nat
  BY StoreOpenAssumption DEF StoreInv, TypeInv
<1>2. CASE \/ Exists(o) \/ RemoveSidecars(o)
           \/ ReadVersion(o) /\ UNCHANGED <<db, path, file>> /\ pc' = [pc EXCEPT ![o] = "open"]
  <2>1. /\ UNCHANGED <<db, at, file, snap, raced, laid, path>>
        /\ \E l \in {"open", "probe"} : pc' = [pc EXCEPT ![o] = l]
    BY <1>2 DEF Exists, ReadVersion, RemoveSidecars, places
  <2>2. TypeInv'
    BY <1>1, <2>1 DEF TypeInv, Pcs
  <2>3. OpenerInv(o)'
    BY <1>1, <2>1 DEF OpenerInv, Opened, Upgrading
  <2>4. QED
    BY <1>1, <2>1, <2>2, <2>3, MoveKeeps, FileTypes
<1>3. CASE Rename(o)
  <2>1. /\ UNCHANGED <<db, at, snap, laid>> /\ path' \in {0, path}
        /\ file' = [file EXCEPT ![o] = 0] /\ raced' = raced \ {o}
        /\ \E l \in {"open", "sidecars"} : pc' = [pc EXCEPT ![o] = l]
    BY <1>3 DEF Rename, places
  <2>2. TypeInv'
    BY <1>1, <2>1 DEF TypeInv, Pcs
  <2>3. OpenerInv(o)'
    BY <1>1, <2>1 DEF OpenerInv, Opened, Upgrading
  <2>4. QED
    BY <1>1, <2>1, <2>2, <2>3, MoveKeeps, FileTypes
<1>4. CASE ReadTables(o)
  <2>1. /\ UNCHANGED <<db, at, snap, laid, path>> /\ pc[o] = "tables"
        /\ \/ /\ Messages \in db[file[o]].tables /\ UNCHANGED <<file, raced>>
              /\ \E l \in {"rename", "memory"} : pc' = [pc EXCEPT ![o] = l]
           \/ /\ file' = [file EXCEPT ![o] = 0] /\ raced' = raced \ {o}
              /\ pc' = [pc EXCEPT ![o] = "open"]
    BY <1>4 DEF ReadTables, places
  <2>2. TypeInv'
    <3>1. /\ \E l \in {"rename", "memory", "open"} : pc' = [pc EXCEPT ![o] = l]
          /\ file' = file \/ file' = [file EXCEPT ![o] = 0]
      BY <2>1
    <3>2. pc' \in [Openers -> Pcs] /\ file' \in [Openers -> 0 .. Len(db)]
      BY <1>1, <3>1 DEF Pcs
    <3>3. QED
      BY <1>1, <2>1, <3>2 DEF TypeInv
  <2>3. file[o] \in DOMAIN db /\ FileInv(file[o])
    BY <1>1, <2>1 DEF OpenerInv, StoreInv
  <2>4. OpenerInv(o)'
    BY <1>1, <2>1, <2>3 DEF OpenerInv, Opened, Upgrading, FileInv, Ours
  <2>5. QED
    BY <1>1, <2>1, <2>2, <2>4, MoveKeeps, FileTypes
<1>5. CASE \/ OpenPhysical(o)
           \/ /\ ReadVersion(o) /\ (path # 0 => db[path].version = 0)
              /\ Connect(o) /\ pc' = [pc EXCEPT ![o] = "tables"]
  <2>1. /\ UNCHANGED <<at, snap, raced, laid>> /\ Connect(o)
        /\ \E l \in {"tables", "version"} :
             pc' = [pc EXCEPT ![o] = l] /\ (l = "tables" /\ path # 0 => db[path].version = 0)
    BY <1>5 DEF OpenPhysical, ReadVersion
  <2>2. QED
    BY <2>1, ConnectKeeps
<1>6. CASE CheckVersion(o)
  <2>1. /\ UNCHANGED <<db, path, file, snap, raced, laid>> /\ pc[o] = "version"
        /\ pc' = [pc EXCEPT ![o] = IF db[file[o]].version >= Current THEN "up" ELSE "column"]
        /\ at' = [at EXCEPT ![o] = 1]
    BY <1>6 DEF CheckVersion, places
  <2>2. TypeInv'
    BY <1>1, <2>1 DEF TypeInv, Pcs
  <2>3. file[o] \in DOMAIN db /\ db[file[o]] \in Files
    BY <1>1, <2>1, FileTypes DEF OpenerInv, Opened
  <2>4. db[file[o]].version >= Current => db[file[o]].version = Current
    BY <2>3 DEF Files, Current
  <2>5. OpenerInv(o)'
    BY <1>1, <2>1, <2>3, <2>4 DEF OpenerInv, Opened, Upgrading, Walked
  <2>6. QED
    BY <1>1, <2>1, <2>2, <2>5, MoveKeeps, FileTypes
<1>7. QED
  BY <1>2, <1>3, <1>4, <1>5, <1>6 DEF ReadVersion

\* The column probe, and the read that begins the last batch.
LEMMA ProbeSteps ==
  ASSUME StoreInv, NEW o \in Openers, ProbeColumn(o) \/ BeginCreate(o)
  PROVE  StoreInv'
<1>1. /\ TypeInv /\ OpenerInv(o)
      /\ pc \in [Openers -> Pcs] /\ at \in [Openers -> 1 .. (Len(Columns) + 1)]
      /\ file \in [Openers -> 0 .. Len(db)] /\ path \in 0 .. Len(db) /\ Len(db) \in Nat
      /\ Len(Columns) \in Nat
  BY StoreOpenAssumption DEF StoreInv, TypeInv
<1>2. CASE ProbeColumn(o)
  <2>1. /\ UNCHANGED <<db, path, file, snap, raced, laid>> /\ pc[o] = "column"
        /\ \/ at[o] > Len(Columns) /\ pc' = [pc EXCEPT ![o] = "create"] /\ UNCHANGED at
           \/ /\ at[o] <= Len(Columns) /\ Wants(db[file[o]], Columns[at[o]])
              /\ pc' = [pc EXCEPT ![o] = "alter"] /\ UNCHANGED at
           \/ /\ at[o] <= Len(Columns) /\ ~Wants(db[file[o]], Columns[at[o]])
              /\ at' = [at EXCEPT ![o] = @ + 1] /\ UNCHANGED pc
    BY <1>1, <1>2 DEF ProbeColumn, places, NeedsColumn
  <2>2. TypeInv'
    <3>1. pc' \in [Openers -> Pcs]
      BY <1>1, <2>1 DEF Pcs
    <3>2. at[o] <= Len(Columns) => at[o] + 1 \in 1 .. (Len(Columns) + 1)
      BY <1>1
    <3>3. at' \in [Openers -> 1 .. (Len(Columns) + 1)]
      BY <1>1, <2>1, <3>2
    <3>4. QED
      BY <1>1, <2>1, <3>1, <3>3 DEF TypeInv
  <2>3. file[o] \in DOMAIN db /\ Walked(o)
    BY <1>1, <2>1 DEF OpenerInv, Opened, Upgrading
  <2>4. Walked(o)'
    <3> SUFFICES ASSUME NEW j \in 1 .. (at'[o] - 1)
                 PROVE  ~Wants(db[file[o]], Columns[j])
      BY <2>1 DEF Walked
    <3>1. j \in 1 .. (at[o] - 1) \/ (j = at[o] /\ ~Wants(db[file[o]], Columns[at[o]]))
      BY <1>1, <2>1
    <3>2. QED
      BY <2>3, <3>1 DEF Walked
  <2>5. OpenerInv(o)'
    BY <1>1, <2>1, <2>3, <2>4 DEF OpenerInv, Opened, Upgrading, Wants
  <2>6. QED
    BY <1>1, <2>1, <2>2, <2>5, MoveKeeps, FileTypes
<1>3. CASE BeginCreate(o)
  <2>1. /\ UNCHANGED <<db, path, file, at, raced, laid>> /\ pc[o] = "create"
        /\ pc' = [pc EXCEPT ![o] = "stamp"]
        /\ snap' = [snap EXCEPT ![o] = db[file[o]].commits]
    BY <1>3 DEF BeginCreate, places
  <2>2. file[o] \in DOMAIN db /\ db[file[o]].commits \in Nat /\ Walked(o)
    BY <1>1, <2>1, FileTypes DEF OpenerInv, Opened, Upgrading, Files
  <2>3. TypeInv'
    BY <1>1, <2>1, <2>2 DEF TypeInv, Pcs
  <2>4. Walked(o)'
    BY <2>1, <2>2 DEF Walked
  <2>5. OpenerInv(o)'
    BY <1>1, <2>1, <2>2, <2>4, <2>3 DEF OpenerInv, Opened, Upgrading, TypeInv
  <2>6. QED
    BY <1>1, <2>1, <2>3, <2>5, MoveKeeps, FileTypes
<1>4. QED
  BY <1>2, <1>3

\* Opener o's commit of d, which adds to its file what another opener may lack.
LEMMA CommitKeeps ==
  ASSUME StoreInv, NEW o \in Openers, NEW d \in Files, file[o] \in DOMAIN db,
         Commit(o, d), UNCHANGED <<path, file, snap, laid>>,
         db[file[o]].cols \subseteq d.cols, d.v0 = db[file[o]].v0,
         db[file[o]].version = Current => d.version = Current,
         d.tables = db[file[o]].tables \/ d.cols = All,
         d.version = Current => d.tables = Tables /\ d.cols = All,
         Ours(file[o]) => d.version # 0, db[file[o]].tables \subseteq d.tables,
         ~Ours(file[o]) => d.version = 0 /\ Messages \in d.tables,
         \A p \in Openers \ {o} : pc'[p] = pc[p] /\ at'[p] = at[p],
         pc' \in [Openers -> Pcs], at' \in [Openers -> 1 .. (Len(Columns) + 1)],
         OpenerInv(o)'
  PROVE  StoreInv'
<1> DEFINE g == file[o]
           e == [d EXCEPT !.commits = @ + 1]
<1>1. TypeInv /\ (\A f \in DOMAIN db : FileInv(f)) /\ (\A p \in Openers : OpenerInv(p))
  BY DEF StoreInv
<1>2. e \in Files /\ e.tables = d.tables /\ e.cols = d.cols /\ e.version = d.version /\ e.v0 = d.v0
  BY DEF Files
<1>3. /\ db' = [db EXCEPT ![g] = e]
      /\ raced' = raced \cup
           {p \in Openers \ {o} : file[p] = g /\ (Upgrading(p) \/ pc[p] = "tables")}
  BY DEF Commit, Upgrading
<1>4. db' \in Seq(Files) /\ Len(db') = Len(db) /\ DOMAIN db' = DOMAIN db
  BY <1>1, <1>2, <1>3, ExceptSeq DEF TypeInv
<1>5. db'[g] = e /\ \A f \in DOMAIN db \ {g} : db'[f] = db[f]
  BY <1>1, <1>3, FileTypes DEF TypeInv
<1> HIDE DEF e
<1>6. TypeInv'
  BY <1>1, <1>4 DEF TypeInv
<1>7. \A f \in DOMAIN db' : FileInv(f)'
  <2> SUFFICES ASSUME NEW f \in DOMAIN db PROVE FileInv(f)'
    BY <1>4
  <2>1. CASE f = g
    BY <1>1, <1>2, <1>5, <2>1 DEF FileInv, Ours
  <2>2. CASE f # g
    BY <1>1, <1>5, <2>2 DEF FileInv, Ours
  <2>3. QED
    BY <2>1, <2>2
<1>8. \A p \in Openers \ {o} : OpenerInv(p)'
  <2> SUFFICES ASSUME NEW p \in Openers \ {o} PROVE OpenerInv(p)'
    OBVIOUS
  <2>1. CASE file[p] # g
    <3>1. p \in raced' <=> p \in raced
      BY <1>3, <2>1
    <3>2. Opened(p) \/ pc[p] = "tables" =>
            file[p] \in DOMAIN db /\ db'[file[p]] = db[file[p]]
      BY <1>1, <1>5, <2>1 DEF OpenerInv
    <3>3. Upgrading(p) => Walked(p)'
      BY <1>1, <3>2 DEF OpenerInv, Opened, Walked, Wants
    <3>4. pc'[p] = pc[p] /\ at'[p] = at[p] /\ UNCHANGED <<file, snap, laid>>
      OBVIOUS
    <3>5. OpenerInv(p)
      BY <1>1
    <3>6. QED
      BY <1>4, <3>1, <3>2, <3>3, <3>4, <3>5 DEF OpenerInv, Opened, Upgrading, Ours
  <2>2. CASE file[p] = g
    <3>1. Upgrading(p) \/ pc[p] = "tables" => p \in raced'
      BY <1>3, <2>2
    <3>2. Upgrading(p) => Walked(p)'
      <4> SUFFICES ASSUME Upgrading(p), NEW j \in 1 .. (at[p] - 1)
                   PROVE  ~Wants(e, Columns[j])
        BY <1>5, <2>2 DEF Walked
      <4>1. ~Wants(db[g], Columns[j])
        BY <1>1, <2>2 DEF OpenerInv, Walked
      <4>2. at[p] \in 1 .. (Len(Columns) + 1) /\ Len(Columns) \in Nat
        BY <1>1, FileTypes DEF TypeInv
      <4>3. Columns[j] \in All
        BY <4>2, StoreOpenAssumption DEF All
      <4>4. QED
        BY <1>2, <4>1, <4>3 DEF Wants
    <3>3. p \in raced => p \in raced'
      BY <1>3
    <3>4. QED
      BY <1>1, <1>2, <1>4, <1>5, <2>2, <3>1, <3>2, <3>3
         DEF OpenerInv, Opened, Upgrading, Ours
  <2>3. QED
    BY <2>1, <2>2
<1>9. QED
  BY <1>6, <1>7, <1>8 DEF StoreInv

\* An upgrade has nothing to change in a file that bears the current stamp.
LEMMA AddColumnStep ==
  ASSUME StoreInv, NEW o \in Openers, AddColumn(o)
  PROVE  StoreInv'
<1> DEFINE d == db[file[o]]
           c == Columns[at[o]]
<1>1. /\ TypeInv /\ OpenerInv(o) /\ pc[o] = "alter"
      /\ pc \in [Openers -> Pcs] /\ at \in [Openers -> 1 .. (Len(Columns) + 1)]
      /\ Len(Columns) \in Nat
  BY StoreOpenAssumption DEF StoreInv, TypeInv, AddColumn
<1>2. /\ file[o] \in DOMAIN db /\ d \in Files /\ FileInv(file[o]) /\ Walked(o)
      /\ at[o] \in 1 .. Len(Columns)
  BY <1>1, FileTypes DEF OpenerInv, Opened, Upgrading, StoreInv
<1>3. c \in All
  BY <1>2, StoreOpenAssumption DEF All
<1>4. CASE c \in d.cols
  <2>1. /\ UNCHANGED <<db, path, at, file, snap, raced, laid>>
        /\ pc' = [pc EXCEPT ![o] = "failed"]
    BY <1>4 DEF AddColumn, places
  <2>2. o \in raced /\ (d.version # 0 \/ ~Ours(file[o]))
    BY <1>1, <1>2, <1>4 DEF OpenerInv, FileInv
  <2>3. TypeInv'
    BY <1>1, <2>1 DEF TypeInv, Pcs
  <2>4. OpenerInv(o)'
    BY <1>1, <1>2, <2>1, <2>2 DEF OpenerInv, Opened, Upgrading, Ours
  <2>5. QED
    BY <1>1, <2>1, <2>3, <2>4, MoveKeeps
<1>5. CASE c \notin d.cols
  <2> DEFINE n == [d EXCEPT !.cols = @ \cup {c}]
  <2>1. /\ Commit(o, n) /\ UNCHANGED <<path, file, snap, laid>>
        /\ at' = [at EXCEPT ![o] = @ + 1] /\ pc' = [pc EXCEPT ![o] = "column"]
    BY <1>5 DEF AddColumn, places
  <2>2. n \in Files /\ n.cols = d.cols \cup {c} /\ n.tables = d.tables /\ n.version = d.version
        /\ n.v0 = d.v0
    BY <1>2, <1>3 DEF Files
  <2>3. n.version # Current
    BY <1>2, <1>3, <1>5, <2>2 DEF FileInv
  <2>4. pc' \in [Openers -> Pcs] /\ at' \in [Openers -> 1 .. (Len(Columns) + 1)]
        /\ pc'[o] = "column" /\ at'[o] = at[o] + 1 /\ at[o] \in Nat
    <3>1. at[o] + 1 \in 1 .. (Len(Columns) + 1)
      BY <1>1, <1>2
    <3>2. QED
      BY <1>1, <1>2, <2>1, <3>1 DEF Pcs
  <2>5. db'[file[o]] = [n EXCEPT !.commits = @ + 1] /\ DOMAIN db' = DOMAIN db
    BY <1>1, <1>2, <2>1, FileTypes DEF Commit, TypeInv
  <2>6. db'[file[o]].cols = d.cols \cup {c} /\ db'[file[o]].tables = d.tables
    BY <2>2, <2>5 DEF Files
  <2>7. Walked(o)'
    <3> SUFFICES ASSUME NEW j \in 1 .. at[o] PROVE ~Wants(db'[file[o]], Columns[j])
      BY <2>1, <2>4 DEF Walked
    <3>1. j = at[o] \/ j \in 1 .. (at[o] - 1)
      BY <2>4
    <3>2. QED
      BY <1>2, <2>6, <3>1 DEF Walked, Wants
  <2>8. OpenerInv(o)'
    BY <1>2, <2>1, <2>4, <2>5, <2>7 DEF OpenerInv, Opened, Upgrading
  <2>9. \A p \in Openers \ {o} : pc'[p] = pc[p] /\ at'[p] = at[p]
    BY <1>1, <2>1
  <2>10. /\ Ours(file[o]) => n.version # 0
         /\ ~Ours(file[o]) => n.version = 0 /\ Messages \in n.tables
    BY <1>1, <1>2, <2>2 DEF FileInv, OpenerInv
  <2> HIDE DEF n
  <2>11. QED
    BY <1>2, <2>1, <2>2, <2>3, <2>4, <2>8, <2>9, <2>10, CommitKeeps
<1>6. QED
  BY <1>4, <1>5

\* What the batch leaves is the whole schema, for its opener has walked the columns
\* of the tables that were there.
LEMMA StampStep ==
  ASSUME StoreInv, NEW o \in Openers, Stamp(o)
  PROVE  StoreInv'
<1> DEFINE d == db[file[o]]
           n == Created(d)
<1>1. /\ TypeInv /\ OpenerInv(o) /\ pc[o] = "stamp"
      /\ pc \in [Openers -> Pcs] /\ at \in [Openers -> 1 .. (Len(Columns) + 1)]
      /\ Len(Columns) \in Nat /\ file \in [Openers -> 0 .. Len(db)]
  BY StoreOpenAssumption DEF StoreInv, TypeInv, Stamp
<1>2. /\ file[o] \in DOMAIN db /\ d \in Files /\ FileInv(file[o]) /\ Walked(o)
      /\ at[o] = Len(Columns) + 1
  BY <1>1, FileTypes DEF OpenerInv, Opened, Upgrading, StoreInv
<1>3. CASE d.commits = snap[o] /\ ~d.v0
  <2>1. /\ Commit(o, n) /\ UNCHANGED <<path, at, file, snap, laid>>
        /\ pc' = [pc EXCEPT ![o] = "up"]
    BY <1>3 DEF Stamp, places
  <2>2. n.cols = All
    <3>1. n.cols = d.cols \cup Of(Tables \ d.tables) /\ d.cols \subseteq All
      BY <1>2 DEF Created, Files
    <3>2. \A x \in All : x \in n.cols
      <4> SUFFICES ASSUME NEW j \in DOMAIN Columns PROVE Columns[j] \in n.cols
        BY DEF All
      <4>1. j \in 1 .. (at[o] - 1) /\ Columns[j].table \in Tables /\ Columns[j] \in All
        <5>1. Columns \in Seq([table : Tables, name : STRING])
          BY StoreOpenAssumption
        <5>2. j \in 1 .. Len(Columns)
          BY <5>1
        <5>3. Columns[j] \in [table : Tables, name : STRING]
          BY <5>1, <5>2, ElementOfSeq
        <5>4. QED
          BY <1>1, <1>2, <5>2, <5>3 DEF All
      <4>2. QED
        BY <1>2, <3>1, <4>1 DEF Walked, Wants, Of
    <3>3. QED
      BY <3>1, <3>2 DEF Of
  <2>3. n \in Files /\ n.tables = Tables /\ n.version = Current /\ n.v0 = d.v0
    BY <1>2, <2>2 DEF Created, Files
  <2>4. Ours(file[o])
    BY <1>2, <1>3 DEF FileInv
  <2>5. db'[file[o]] = [n EXCEPT !.commits = @ + 1] /\ DOMAIN db' = DOMAIN db
    BY <1>1, <1>2, <2>1, FileTypes DEF Commit, TypeInv
  <2>6. OpenerInv(o)'
    BY <1>1, <1>2, <2>1, <2>3, <2>5 DEF OpenerInv, Opened, Upgrading, Files
  <2>7. d.cols \subseteq All /\ d.tables \subseteq Tables /\ \A p \in Openers \ {o} : pc'[p] = pc[p] /\ at'[p] = at[p]
    BY <1>1, <1>2, <2>1 DEF Files
  <2>8. pc' \in [Openers -> Pcs] /\ at' \in [Openers -> 1 .. (Len(Columns) + 1)]
    BY <1>1, <2>1 DEF Pcs
  <2> HIDE DEF n
  <2>9. n.version # 0
    BY <2>3 DEF Current
  <2>10. QED
    BY <1>2, <2>1, <2>2, <2>3, <2>4, <2>6, <2>7, <2>8, <2>9, CommitKeeps
<1>4. CASE ~(d.commits = snap[o] /\ ~d.v0)
  <2>1. /\ UNCHANGED <<db, path, at, file, snap, raced, laid>>
        /\ pc' = [pc EXCEPT ![o] = "failed"]
    BY <1>4 DEF Stamp, places
  <2>2. (o \in raced /\ d.version # 0) \/ ~Ours(file[o])
    BY <1>1, <1>2, <1>4 DEF OpenerInv, FileInv
  <2>3. TypeInv'
    BY <1>1, <2>1 DEF TypeInv, Pcs
  <2>4. OpenerInv(o)'
    BY <1>1, <1>2, <2>1, <2>2 DEF OpenerInv, Opened, Upgrading, Ours
  <2>5. QED
    BY <1>1, <2>1, <2>3, <2>4, MoveKeeps
<1>5. QED
  BY <1>3, <1>4

LEMMA KillStep ==
  ASSUME StoreInv, NEW o \in Openers, Kill(o)
  PROVE  StoreInv'
<1>1. /\ TypeInv /\ pc \in [Openers -> Pcs] /\ file \in [Openers -> 0 .. Len(db)]
      /\ Len(db) \in Nat
  BY FileTypes DEF StoreInv, TypeInv
<1>2. /\ UNCHANGED <<db, path, at, snap, laid>>
      /\ pc' = [pc EXCEPT ![o] = "closed"] /\ file' = [file EXCEPT ![o] = 0]
      /\ raced' = raced \ {o}
  BY DEF Kill, places
<1>3. TypeInv'
  BY <1>1, <1>2 DEF TypeInv, Pcs
<1>4. OpenerInv(o)'
  BY <1>1, <1>2 DEF OpenerInv, Opened, Upgrading
<1>5. QED
  BY <1>1, <1>2, <1>3, <1>4, MoveKeeps

LEMMA OpenStep == \A o \in Openers : StoreInv /\ Open(o) => StoreInv'
BY EarlySteps, ProbeSteps, AddColumnStep, StampStep DEF Open

LEMMA NextStoreInv == StoreInv /\ [Next]_vars => StoreInv'
<1> SUFFICES ASSUME StoreInv, [Next]_vars PROVE StoreInv'
  OBVIOUS
<1>1. CASE UNCHANGED vars
  <2>1. TypeInv' /\ {} \in SUBSET Openers
    BY <1>1 DEF StoreInv, TypeInv, vars, places
  <2>2. QED
    BY <1>1, <2>1, MovesKeep DEF vars, places
<1>2. QED
  BY <1>1, OpenStep, KillStep DEF Next

LEMMA StoreInvMeans == StoreInv => OpenMeansCurrent /\ CrashesAreHarmless
<1> SUFFICES ASSUME StoreInv PROVE OpenMeansCurrent /\ CrashesAreHarmless
  OBVIOUS
<1>1. \A o \in Openers : pc[o] = "up" => file[o] \in DOMAIN db /\ db[file[o]].version = Current
  BY DEF StoreInv, OpenerInv, Opened
<1>2. OpenMeansCurrent
  BY <1>1 DEF OpenMeansCurrent, StoreInv, FileInv
<1>3. FailsOnlyInARace
  BY DEF FailsOnlyInARace, StoreInv, OpenerInv
<1>4. OursNeverLooksLegacy
  BY DEF OursNeverLooksLegacy, LooksLegacy, StoreInv, FileInv
<1>5. MistakenOnlyInARace
  BY DEF MistakenOnlyInARace, StoreInv, OpenerInv
<1>6. QED
  BY <1>2, <1>3, <1>4, <1>5 DEF CrashesAreHarmless

\* However many processes open one database at once, and whichever of them are
\* killed between two of their statements, one that got through works on a file
\* that has every table and every column.
THEOREM OpenerSeesSchema == Spec => []OpenMeansCurrent
BY InitStoreInv, NextStoreInv, StoreInvMeans, PTL DEF Spec

\* What a killed opener leaves behind stops nobody and never looks like a Phase-0
\* file: an open fails only where the file was changed under it, or on a Phase-0
\* file that could not be moved; and a file of ours is taken for a Phase-0 file
\* only by a probe between whose reads it was created.
THEOREM KilledOpenersHarmless == Spec => []CrashesAreHarmless
BY InitStoreInv, NextStoreInv, StoreInvMeans, PTL DEF Spec

-----------------------------------------------------------------------------
(* A proxy and a dashboard.                                                *)

\* Who may be where: the threads come after the gateway's first open, and the
\* dashboard's own connection after its choice.
ProxyInv ==
  /\ program \in {"wrap", "gateway"} /\ stage \in {"start", "first", "threads", "ended"}
  /\ stage = "start" => \A w \in Writers : pc[w] = "closed"
  /\ stage = "first" => program = "gateway"
  /\ \A w \in Writers \ Threads : program = "wrap" => pc[w] = "closed"
  /\ program = "gateway" =>
       \/ stage # "threads" /\ \A u \in Upstreams : pc[u] = "closed"
       \/ Done(First)
  /\ \A r \in Readers : pc[r] \notin {"rename", "sidecars"}
  /\ pc[Chooser] \in {"closed", "probe", "tables", "open", "memory"}
  /\ pc[Chooser] # "open" => pc[Cached] = "closed"

\* While the first connection lasts it is on the file at the path, and the threads
\* find there what it left.
FirstInv ==
  program = "gateway" =>
    /\ Opened(First) /\ pc[First] # "failed" => path = file[First]
    /\ pc[First] = "up" =>
         \A u \in Upstreams :
           /\ pc[u] \in {"closed", "probe", "open", "version", "up"}
           /\ pc[u] \in {"version", "up"} => file[u] = file[First]

\* The Phase-0 file is still where it was found.
Untouched == laid = "phase0" /\ path = 1

\* If no rename fails: while the Phase-0 file is where it was, whoever has looked has
\* found it, and nobody works on it.
UntouchedInv ==
  /\ Untouched =>
       \A o \in Openers :
         /\ pc[o] \in {"closed", "probe", "tables", "rename", "memory", "answered"}
         /\ pc[o] = "tables" => ~Ours(file[o])
  /\ \A o \in Openers : Opened(o) => Ours(file[o])
  /\ \A w \in Writers : pc[w] \in {"tables", "rename"} /\ ~Ours(file[w]) => Untouched
  /\ pc[Cached] \in {"tables", "memory"} => Ours(file[Cached])

\* If no rename fails: the gateway's first connection stays on the file at the path
\* even where it failed, so that no thread finds anything to swap.
SwapInv ==
  program = "gateway" =>
    /\ Opened(First) => path = file[First]
    /\ \A u \in Upstreams : pc[u] \notin {"tables", "rename", "sidecars"}

\* Who acts on a file of ours as if it were a Phase-0 file is in the history.
MisledInv ==
  \A o \in Writers \cup {Cached} :
    pc[o] \in {"rename", "memory"} /\ Ours(file[o]) => o \in misled

Fooled(S) == misled \cap S # {}

\* If no rename fails and no writer was misled, the one file that leaves the path is
\* the Phase-0 file, and every connection is on the file at the path.
PlaceInv ==
  ~Fooled(Writers) =>
    /\ laid = "phase0" => 1 \in {path, backup}
    /\ \A o \in Openers : Opened(o) => file[o] = path

\* Sessions are begun in the file at the path, which nobody moves once there are any.
SessionInv ==
  ~Fooled(Writers \cup {Cached}) =>
    /\ \A s \in sessions : s.in = path
    /\ sessions # {} => path # 0 /\ db[path].version = Current
    /\ pc[Cached] # "memory"
    /\ since \in [Requests -> SUBSET sessions] /\ saw \in [Requests -> SUBSET sessions]
    /\ \A q \in Requests :
         /\ pc[q] \in {"tables", "memory"} => since[q] = {}
         /\ pc[q] = "answered" => since[q] \subseteq saw[q]

LEMMA Roles ==
  /\ Upstreams \subseteq Writers /\ Threads \subseteq Upstreams /\ First \notin Upstreams
  /\ Requests \subseteq Readers /\ Cached \notin Requests /\ Chooser \notin Requests
  /\ First \in Writers /\ Cached \in Readers /\ Chooser \in Readers /\ Cached # Chooser
  /\ Writers = Upstreams \cup {First}
  /\ Writers \subseteq Openers /\ Readers \subseteq Openers /\ Openers = Writers \cup Readers
  /\ Writers \cap Readers = {}
  /\ program = "gateway" => Threads = Upstreams
<1>1. (CHOOSE u \in Upstreams : TRUE) \in Upstreams
  BY StartUpAssumption
<1>2. QED
  BY <1>1, StartUpAssumption, StoreOpenAssumption DEF Upstreams, Threads, Requests, Openers

LEMMA ChosenMeans ==
  /\ Chosen = "cached" <=> pc[Chooser] = "open"
  /\ Chosen = "per request" <=> pc[Chooser] = "memory"
BY DEF Chosen

Begun == Configure \/ ConfigureWrap \/ Spawn \/ End \/ \E u \in Threads : BeginSession(u)

\* A request that takes the dashboard's own connection.
Borrow(q) ==
  /\ Ask(q) /\ Chosen = "cached"

\* A step of the opener o: when it takes one, and what else may change.
Turn(o) ==
  /\ Open(o) /\ UNCHANGED <<program, stage, sessions, saw, restarts>>
  /\ o \in Writers => (stage = "first" /\ o = First) \/ (stage = "threads" /\ o \in Threads)
  /\ o = Cached => Chosen = "cached"
  /\ o = Chooser => pc[o] # "open"
  /\ \/ UNCHANGED since /\ (o \in Requests => pc[o] # "closed")
     \/ o \in Requests /\ pc[o] = "closed" /\ since' = [since EXCEPT ![o] = sessions]

\* A step is one of an opener, or leaves the database and the path alone.
LEMMA StartSteps ==
  StartStep => \/ UNCHANGED vars /\ Begun
               \/ \E o \in Openers : Turn(o)
               \/ Restart \/ \E q \in Requests : Borrow(q) \/ Answer(q)
<1> SUFFICES ASSUME StartStep
             PROVE  \/ UNCHANGED vars /\ Begun
                    \/ \E o \in Openers : Turn(o)
                    \/ Restart \/ \E q \in Requests : Borrow(q) \/ Answer(q)
  OBVIOUS
<1> USE Roles
<1>1. CASE Configure \/ ConfigureWrap \/ Spawn \/ End \/ \E u \in Threads : BeginSession(u)
  BY <1>1 DEF Begun, Configure, ConfigureWrap, Spawn, End, BeginSession
<1>2. CASE OpenFirst
  BY <1>2 DEF OpenFirst, Turn, dash
<1>3. ASSUME NEW u \in Threads, OpenThread(u) PROVE Turn(u)
  BY <1>3 DEF OpenThread, Turn, dash
<1>4. CASE Choose
  BY <1>4 DEF Choose, Turn, dash
<1>5. CASE OpenCached
  BY <1>5 DEF OpenCached, Turn, dash
<1>6. ASSUME NEW q \in Requests, Ask(q) PROVE Borrow(q) \/ Turn(q)
  BY <1>6 DEF Ask, Borrow, Turn
<1>7. ASSUME NEW q \in Requests, OpenForRequest(q) PROVE Turn(q)
  BY <1>7 DEF OpenForRequest, Turn, dash
<1>8. QED
  BY <1>1, <1>2, <1>3, <1>4, <1>5, <1>6, <1>7 DEF StartStep

LEMMA StartStoreInv == StoreInv /\ [StartNext]_startVars => StoreInv'
<1> SUFFICES ASSUME StoreInv, [StartNext]_startVars PROVE StoreInv'
  OBVIOUS
<1>1. /\ TypeInv /\ pc \in [Openers -> Pcs] /\ file \in [Openers -> 0 .. Len(db)]
      /\ Len(db) \in Nat
  BY FileTypes DEF StoreInv, TypeInv
<1>2. CASE UNCHANGED vars
  <2>1. TypeInv' /\ {} \in SUBSET Openers
    BY <1>1, <1>2 DEF TypeInv, vars, places
  <2>2. QED
    BY <1>2, <2>1, MovesKeep DEF vars, places
<1>3. ASSUME NEW o \in Openers, Turn(o) PROVE StoreInv'
  BY <1>3, OpenStep DEF Turn
<1>4. CASE Restart
  <2>1. /\ UNCHANGED <<db, path, at, snap, laid>>
        /\ pc' = [o \in Openers |-> IF o \in Writers THEN "closed" ELSE pc[o]]
        /\ file' = [o \in Openers |-> IF o \in Writers THEN 0 ELSE file[o]]
        /\ raced' = raced \ Writers
    BY <1>4 DEF Restart, places
  <2>2. TypeInv'
    BY <1>1, <2>1 DEF TypeInv, Pcs
  <2>3. \A o \in Writers : OpenerInv(o)'
    BY <2>1, Roles DEF OpenerInv, Opened, Upgrading
  <2>4. QED
    BY <1>1, <2>1, <2>2, <2>3, Roles, MovesKeep
<1>5. ASSUME NEW q \in Requests, Borrow(q) PROVE StoreInv'
  <2>1. /\ UNCHANGED <<db, path, at, snap, laid>> /\ pc[Cached] \in {"up", "memory"}
        /\ pc' = [pc EXCEPT ![q] = pc[Cached]] /\ file' = [file EXCEPT ![q] = file[Cached]]
        /\ raced' = IF Cached \in raced THEN raced \cup {q} ELSE raced
    BY <1>5, ChosenMeans DEF Borrow, Ask, Serving, places
  <2>2. TypeInv'
    BY <1>1, <2>1, Roles DEF TypeInv, Pcs
  <2>3. OpenerInv(Cached)
    BY Roles DEF StoreInv
  <2>4. OpenerInv(q)'
    BY <1>1, <2>1, <2>3, Roles DEF OpenerInv, Opened, Upgrading, Ours
  <2>5. QED
    BY <1>1, <2>1, <2>2, <2>4, Roles, MoveKeeps
<1>6. ASSUME NEW q \in Requests, Answer(q) PROVE StoreInv'
  <2>1. /\ UNCHANGED <<db, path, at, file, snap, raced, laid>>
        /\ pc' = [pc EXCEPT ![q] = "answered"]
    BY <1>6 DEF Answer, places
  <2>2. TypeInv'
    BY <1>1, <2>1 DEF TypeInv, Pcs
  <2>3. OpenerInv(q)'
    BY <1>1, <2>1, Roles DEF OpenerInv, Opened, Upgrading
  <2>4. QED
    BY <1>1, <2>1, <2>2, <2>3, Roles, MoveKeeps
<1>7. QED
  BY <1>2, <1>3, <1>4, <1>5, <1>6, StartSteps DEF startVars, StartNext

\* The same of the connections of one proxy after another and of a dashboard.
THEOREM StartedStoreIsSound == StartSpec => [](OpenMeansCurrent /\ CrashesAreHarmless)
<1>1. StartInit => StoreInv
  BY InitStoreInv DEF StartInit
<1>2. QED
  BY <1>1, StartStoreInv, StoreInvMeans, PTL DEF StartSpec

\* What a step of an opener does to the path and to its connection, by its kind.
Looks(o) ==
  /\ pc[o] = "closed" /\ UNCHANGED <<path, backup, file>>
  /\ pc'[o] = IF path = 0 THEN "open" ELSE "probe"
Passes(o) ==
  /\ pc[o] = "probe" /\ path # 0 /\ db[path].version # 0
  /\ pc'[o] = "open" /\ UNCHANGED <<path, backup, file>>
Judges(o) ==
  /\ pc[o] = "tables" /\ UNCHANGED <<path, backup>>
  /\ IF Messages \in db[file[o]].tables
     THEN pc'[o] = (IF o \in Writers THEN "rename" ELSE "memory") /\ UNCHANGED file
     ELSE pc'[o] = "open"
Moves(o) ==
  /\ pc[o] = "rename" /\ pc'[o] = "sidecars" /\ path # 0 /\ path' = 0 /\ backup' = path
GoesOn(o) ==
  pc[o] \in {"rename", "sidecars"} /\ pc'[o] = "open" /\ UNCHANGED <<path, backup>>
Connects(o) ==
  /\ \/ pc[o] = "open" /\ pc'[o] = "version"
     \/ pc[o] = "probe" /\ pc'[o] = "tables" /\ (path # 0 => db[path].version = 0)
  /\ UNCHANGED backup
  /\ path' = IF path = 0 THEN Len(db) + 1 ELSE path
  /\ file'[o] = path'
Upgrades(o) ==
  /\ Upgrading(o) \/ pc[o] = "version"
  /\ pc'[o] \in {"column", "alter", "create", "stamp", "up", "failed"}
  /\ pc[o] = "version" =>
       pc'[o] = IF db[file[o]].version >= Current THEN "up" ELSE "column"
  /\ UNCHANGED <<path, backup, file>>

LEMMA OpenMoves ==
  ASSUME TypeInv, NEW o \in Openers, Open(o)
  PROVE  /\ \/ Looks(o) \/ Passes(o) \/ Judges(o) \/ Moves(o) \/ GoesOn(o) \/ Connects(o)
            \/ Upgrades(o)
         /\ \A p \in Openers \ {o} : pc'[p] = pc[p] /\ file'[p] = file[p]
         /\ UNCHANGED laid
<1>1. pc \in [Openers -> Pcs] /\ file \in [Openers -> 0 .. Len(db)]
  BY DEF TypeInv
<1>2. CASE Exists(o)
  BY <1>1, <1>2 DEF Exists, Looks, places
<1>3. CASE ReadVersion(o)
  BY <1>1, <1>3 DEF ReadVersion, Connect, Passes, Connects
<1>4. CASE ReadTables(o)
  BY <1>1, <1>4 DEF ReadTables, Judges, places
<1>5. CASE Rename(o)
  BY <1>1, <1>5 DEF Rename, Moves, GoesOn, places
<1>6. CASE RemoveSidecars(o)
  BY <1>1, <1>6 DEF RemoveSidecars, GoesOn
<1>7. CASE OpenPhysical(o)
  BY <1>1, <1>7 DEF OpenPhysical, Connect, Connects
<1>8. CASE CheckVersion(o)
  BY <1>1, <1>8 DEF CheckVersion, Upgrades, Upgrading, places
<1>9. CASE ProbeColumn(o) \/ AddColumn(o) \/ BeginCreate(o) \/ Stamp(o)
  BY <1>1, <1>9 DEF ProbeColumn, AddColumn, BeginCreate, Stamp, Upgrades, Upgrading, places
<1>10. QED
  BY <1>2, <1>3, <1>4, <1>5, <1>6, <1>7, <1>8, <1>9 DEF Open

LEMMA NextProxyInv == StoreInv /\ ProxyInv /\ [StartNext]_startVars => ProxyInv'
<1> SUFFICES ASSUME StoreInv, ProxyInv, [StartNext]_startVars PROVE ProxyInv'
  OBVIOUS
<1>1. TypeInv /\ pc \in [Openers -> Pcs] /\ file \in [Openers -> 0 .. Len(db)]
  BY DEF StoreInv, TypeInv
<1> USE DEF ProxyInv, Done
<1>2. CASE UNCHANGED startVars
  BY <1>2 DEF startVars, vars, Threads
<1>3. CASE UNCHANGED vars /\ Begun
  <2>1. pc' = pc
    BY <1>3 DEF vars
  <2>2. program' = program /\ Threads' = Threads
    BY <1>3 DEF Begun, Configure, ConfigureWrap, Spawn, End, BeginSession, Threads
  <2>3. QED
    BY <1>3, <2>1, <2>2, Roles DEF Begun, Configure, ConfigureWrap, Spawn, End, BeginSession,
       MaySpawn
<1>4. ASSUME NEW o \in Openers, Turn(o) PROVE ProxyInv'
  <2>1. /\ \/ Looks(o) \/ Passes(o) \/ Judges(o) \/ Moves(o) \/ GoesOn(o) \/ Connects(o)
           \/ Upgrades(o)
        /\ \A p \in Openers \ {o} : pc'[p] = pc[p]
    BY <1>1, <1>4, OpenMoves DEF Turn
  <2>2. Threads' = Threads
    BY <1>4 DEF Threads, Turn
  <2>3. pc'[o] \in {"rename", "sidecars"} => o \in Writers
    BY <1>1, <2>1, Roles
       DEF Looks, Passes, Judges, Moves, GoesOn, Connects, Upgrades, Upgrading
  <2>4. pc[o] \notin {"up", "failed"}
    BY <2>1 DEF Looks, Passes, Judges, Moves, GoesOn, Connects, Upgrades, Upgrading
  <2>5. /\ pc'[Chooser] \in {"closed", "probe", "tables", "open", "memory"}
        /\ pc'[Chooser] # "open" => pc'[Cached] = "closed"
    <3>1. CASE o = Chooser
      <4>1. pc[o] \in {"closed", "probe", "tables"}
        BY <1>4, <2>1, <3>1
           DEF Turn, Looks, Passes, Judges, Moves, GoesOn, Connects, Upgrades, Upgrading
      <4>2. pc'[o] \in {"probe", "tables", "open", "memory"}
        BY <2>1, <3>1, <4>1, Roles
           DEF Looks, Passes, Judges, Moves, GoesOn, Connects, Upgrades, Upgrading
      <4>3. QED
        BY <2>1, <3>1, <4>1, <4>2, Roles
    <3>2. CASE o # Chooser
      <4>1. o = Cached => pc[Chooser] = "open"
        BY <1>4, ChosenMeans DEF Turn
      <4>2. QED
        BY <2>1, <3>2, <4>1, Roles
    <3>3. QED
      BY <3>1, <3>2
  <2>6. QED
    BY <1>4, <2>1, <2>2, <2>3, <2>4, <2>5, Roles DEF Turn
<1>5. CASE Restart
  BY <1>5, Roles DEF Restart, Threads
<1>6. ASSUME NEW q \in Requests, Borrow(q) \/ Answer(q) PROVE ProxyInv'
  <2>1. /\ UNCHANGED <<program, stage>> /\ pc'[q] \in {"up", "memory", "answered"}
        /\ \A p \in Openers \ {q} : pc'[p] = pc[p]
    BY <1>1, <1>6, Roles, ChosenMeans DEF Borrow, Ask, Answer, Serving
  <2>2. QED
    BY <2>1, Roles DEF Threads
<1>7. QED
  BY <1>2, <1>3, <1>4, <1>5, <1>6, StartSteps DEF StartNext

LEMMA NextFirstInv == StoreInv /\ ProxyInv /\ FirstInv /\ [StartNext]_startVars => FirstInv'
<1> SUFFICES ASSUME StoreInv, ProxyInv, FirstInv, [StartNext]_startVars, program' = "gateway"
             PROVE  FirstInv'
  BY DEF FirstInv
<1>1. /\ TypeInv /\ pc \in [Openers -> Pcs] /\ file \in [Openers -> 0 .. Len(db)]
      /\ Len(db) \in Nat /\ DOMAIN db = 1 .. Len(db)
  BY FileTypes DEF StoreInv, TypeInv
<1>2. CASE UNCHANGED <<program, path, pc, file>>
  BY <1>2 DEF FirstInv, Opened, Upgrading
<1>3. ASSUME NEW o \in Openers, Turn(o) PROVE FirstInv'
  <2> USE DEF Looks, Passes, Judges, Moves, GoesOn, Connects, Upgrades
  <2>1. /\ \/ Looks(o) \/ Passes(o) \/ Judges(o) \/ Moves(o) \/ GoesOn(o) \/ Connects(o)
           \/ Upgrades(o)
        /\ \A p \in Openers \ {o} : pc'[p] = pc[p] /\ file'[p] = file[p]
    BY <1>1, <1>3, OpenMoves DEF Turn
  <2>2. program = "gateway" /\ (o \in Writers => (stage = "first" /\ o = First) \/ stage = "threads")
    BY <1>3 DEF Turn
  <2>3. Opened(First) => path \in 1 .. Len(db) \/ pc[First] = "failed"
    BY <1>1, <2>2, Roles DEF FirstInv, StoreInv, OpenerInv
  <2>4. Moves(o) => o \in Writers /\ pc[First] # "up" /\ (o # First => pc[First] = "failed")
    BY <2>1, <2>2, Roles DEF ProxyInv, FirstInv, Done
  <2>5. CASE o = First
    <3>1. \A u \in Upstreams : pc'[u] = "closed"
      BY <2>1, <2>2, <2>5, Roles DEF ProxyInv, Done, Upgrading
    <3>2. Opened(First)' => path' = file'[First]
      BY <1>1, <2>1, <2>2, <2>5, Roles DEF FirstInv, Opened, Upgrading
    <3>3. QED
      BY <3>1, <3>2 DEF FirstInv
  <2>6. CASE o # First
    <3>1. pc'[First] = pc[First] /\ file'[First] = file[First]
      BY <2>1, <2>6, Roles
    <3>2. Opened(First) /\ pc[First] # "failed" => path' = path
      BY <1>1, <2>1, <2>3, <2>4, <2>6
    <3>3. ASSUME pc[First] = "up"
          PROVE  \A u \in Upstreams : /\ pc'[u] \in {"closed", "probe", "open", "version", "up"}
                                      /\ pc'[u] \in {"version", "up"} => file'[u] = file[First]
      <4>1. path = file[First] /\ path \in DOMAIN db /\ db[path].version = Current /\ path # 0
        BY <1>1, <2>2, <3>3, Roles DEF FirstInv, StoreInv, OpenerInv, Opened
      <4>2. Current # 0 /\ Current >= Current
        BY DEF Current
      <4>3. \A u \in Upstreams : /\ pc[u] \in {"closed", "probe", "open", "version", "up"}
                                 /\ pc[u] \in {"version", "up"} => file[u] = file[First]
        BY <2>2, <3>3 DEF FirstInv
      <4>4. o \in Upstreams => pc'[o] \in {"probe", "open", "version", "up"}
                               /\ (pc'[o] \in {"version", "up"} => file'[o] = file[First])
        BY <1>1, <2>1, <4>1, <4>2, <4>3 DEF Upgrading
      <4>5. QED
        BY <2>1, <4>3, <4>4, Roles
    <3>4. QED
      BY <2>2, <3>1, <3>2, <3>3 DEF FirstInv, Opened, Upgrading
  <2>7. QED
    BY <2>5, <2>6
<1>4. CASE Restart
  BY <1>4, Roles DEF Restart, FirstInv, Opened, Upgrading
<1>5. ASSUME NEW q \in Requests, Borrow(q) \/ Answer(q) PROVE FirstInv'
  <2>1. /\ UNCHANGED <<program, path>> /\ \A p \in Openers \ {q} : pc'[p] = pc[p] /\ file'[p] = file[p]
    BY <1>1, <1>5, Roles DEF Borrow, Ask, Answer, places
  <2>2. QED
    BY <2>1, Roles DEF FirstInv, Opened, Upgrading
<1>6. CASE UNCHANGED vars /\ Begun
  <2>1. UNCHANGED <<program, path, pc, file>>
    BY <1>6 DEF vars, places, Begun, Configure, ConfigureWrap, Spawn, End, BeginSession
  <2>2. QED
    BY <1>2, <2>1
<1>7. QED
  BY <1>2, <1>3, <1>4, <1>5, <1>6, StartSteps DEF startVars, vars, places, StartNext

\* The steps in which no opener takes one, seen from the openers and the path.
Aside ==
  /\ UNCHANGED <<path, backup, laid>>
  /\ \A o \in Openers : \/ pc'[o] = pc[o] /\ file'[o] = file[o]
                        \/ pc'[o] = "closed" /\ o \in Writers
                        \/ pc'[o] = "answered" /\ file'[o] = file[o] /\ o \in Requests
                        \/ /\ pc'[o] = pc[Cached] /\ file'[o] = file[Cached]
                           /\ pc[Cached] \in {"up", "memory"} /\ o \in Requests
                           /\ pc[Chooser] = "open"

LEMMA TurnOrAside ==
  ASSUME StoreInv, [StartNext]_startVars
  PROVE  (\E o \in Openers : Turn(o)) \/ Aside
<1>1. pc \in [Openers -> Pcs] /\ file \in [Openers -> 0 .. Len(db)]
  BY DEF StoreInv, TypeInv
<1>2. CASE UNCHANGED vars
  BY <1>2 DEF vars, places, Aside
<1>3. CASE Restart
  BY <1>1, <1>3, Roles DEF Restart, places, Aside
<1>4. ASSUME NEW q \in Requests, Borrow(q) \/ Answer(q) PROVE Aside
  <2>1. CASE Borrow(q)
    BY <1>1, <2>1, Roles, ChosenMeans DEF Borrow, Ask, Serving, places, Aside
  <2>2. CASE Answer(q)
    BY <1>1, <2>2, Roles DEF Answer, places, Aside
  <2>3. QED
    BY <1>4, <2>1, <2>2
<1>5. QED
  BY <1>2, <1>3, <1>4, StartSteps DEF startVars, StartNext

\* A writer that probes or swaps is alone.
LEMMA Alone ==
  ASSUME ProxyInv, SwapInv, NEW w \in Writers, pc[w] \in {"tables", "rename"}
  PROVE  \A v \in Writers \ {w} : pc[v] = "closed"
<1>1. CASE program = "gateway"
  <2>1. w = First /\ ~Done(First)
    BY <1>1, Roles DEF SwapInv, Done
  <2>2. QED
    BY <1>1, <2>1, Roles DEF ProxyInv
<1>2. CASE program = "wrap"
  <2>1. w \in Threads
    BY <1>2, Roles DEF ProxyInv
  <2>2. \A v \in Writers \ {w} : v \notin Threads
    BY <1>2, <2>1 DEF Threads
  <2>3. QED
    BY <1>2, <2>2 DEF ProxyInv
<1>3. QED
  BY <1>1, <1>2 DEF ProxyInv

LEMMA NextUntouchedInv ==
  /\ StoreInv /\ StoreInv' /\ ProxyInv /\ SwapInv /\ UntouchedInv
  /\ [StartNext]_startVars /\ [Moved]_startVars
  => UntouchedInv'
<1> SUFFICES ASSUME StoreInv, StoreInv', ProxyInv, SwapInv, UntouchedInv,
                    [StartNext]_startVars, [Moved]_startVars
             PROVE  UntouchedInv'
  OBVIOUS
<1>1. /\ TypeInv /\ pc \in [Openers -> Pcs] /\ file \in [Openers -> 0 .. Len(db)]
      /\ Len(db) \in Nat /\ DOMAIN db = 1 .. Len(db) /\ path \in 0 .. Len(db)
      /\ laid = "phase0" => Len(db) > 0
  BY FileTypes DEF StoreInv, TypeInv
<1> USE DEF UntouchedInv, Untouched, Ours
<1>2. ASSUME NEW o \in Openers, Turn(o), Moved PROVE UntouchedInv'
  <2> USE DEF Looks, Passes, Judges, Moves, GoesOn, Connects, Upgrades
  <2>1. /\ \/ Looks(o) \/ Passes(o) \/ Judges(o) \/ Moves(o) \/ GoesOn(o) \/ Connects(o)
           \/ Upgrades(o)
        /\ \A p \in Openers \ {o} : pc'[p] = pc[p] /\ file'[p] = file[p]
        /\ UNCHANGED laid
    BY <1>1, <1>2, OpenMoves DEF Turn
  <2>2. Untouched => /\ db[1].version = 0 /\ Messages \in db[1].tables
    BY <1>1 DEF StoreInv, FileInv
  <2>3. Untouched' =>
          /\ Untouched
          /\ pc'[o] \in {"closed", "probe", "tables", "rename", "memory", "answered"}
          /\ pc'[o] = "tables" => ~Ours(file'[o])
    <3>1. Untouched' => Untouched
      BY <1>1, <2>1
    <3>2. Untouched /\ pc[o] = "tables" => Messages \in db[file[o]].tables
      BY <2>2
    <3>3. pc[o] = "rename" /\ pc'[o] = "open" => path = 0
      BY <1>2 DEF Moved
    <3>4. QED
      BY <1>1, <2>1, <2>2, <3>1, <3>2, <3>3 DEF Upgrading
  <2>4. Opened(o)' => Ours(file'[o])
    BY <1>1, <2>1 DEF Opened, Upgrading
  <2>5. \A w \in Writers : pc'[w] \in {"tables", "rename"} /\ ~Ours(file'[w]) => Untouched'
    <3> SUFFICES ASSUME NEW w \in Writers, pc'[w] \in {"tables", "rename"}, file'[w] = 1,
                        laid = "phase0"
                 PROVE  path' = 1
      BY <2>1
    <3>1. CASE w = o
      BY <1>1, <2>1, <3>1 DEF Upgrading
    <3>2. CASE w # o
      <4>1. path = 1 /\ pc[w] \in {"tables", "rename"}
        BY <2>1, <3>2, Roles
      <4>2. ~Moves(o)
        <5>1. o \in Writers => pc[o] = "closed"
          BY <3>2, <4>1, Alone
        <5>2. QED
          BY <5>1, Roles DEF ProxyInv
      <4>3. QED
        BY <2>1, <4>1, <4>2
    <3>3. QED
      BY <3>1, <3>2
  <2>6. pc'[Cached] \in {"tables", "memory"} => Ours(file'[Cached])
    <3>1. o = Cached => ~Untouched
      BY <1>2, ChosenMeans, Roles DEF Turn
    <3>2. CASE o = Cached
      BY <1>1, <2>1, <3>1, <3>2, Roles DEF Upgrading
    <3>3. CASE o # Cached
      BY <2>1, <3>3, Roles
    <3>4. QED
      BY <3>2, <3>3
  <2>7. QED
    BY <2>1, <2>3, <2>4, <2>5, <2>6 DEF Opened, Upgrading
<1>3. CASE Aside
  BY <1>3, Roles DEF Aside, Opened, Upgrading
<1>4. CASE UNCHANGED startVars
  BY <1>4 DEF startVars, vars, places, Opened, Upgrading
<1>5. QED
  BY <1>2, <1>3, <1>4, TurnOrAside

LEMMA NextSwapInv ==
  /\ StoreInv /\ ProxyInv /\ UntouchedInv /\ SwapInv
  /\ [StartNext]_startVars /\ [Moved]_startVars
  => SwapInv'
<1> SUFFICES ASSUME StoreInv, ProxyInv, UntouchedInv, SwapInv,
                    [StartNext]_startVars, [Moved]_startVars, program' = "gateway"
             PROVE  SwapInv'
  BY DEF SwapInv
<1>1. /\ TypeInv /\ pc \in [Openers -> Pcs] /\ file \in [Openers -> 0 .. Len(db)]
      /\ Len(db) \in Nat /\ DOMAIN db = 1 .. Len(db) /\ path \in 0 .. Len(db)
  BY FileTypes DEF StoreInv, TypeInv
<1>2. ASSUME NEW o \in Openers, Turn(o) PROVE SwapInv'
  <2> USE DEF Looks, Passes, Judges, Moves, GoesOn, Connects, Upgrades
  <2>1. /\ \/ Looks(o) \/ Passes(o) \/ Judges(o) \/ Moves(o) \/ GoesOn(o) \/ Connects(o)
           \/ Upgrades(o)
        /\ \A p \in Openers \ {o} : pc'[p] = pc[p] /\ file'[p] = file[p]
    BY <1>1, <1>2, OpenMoves DEF Turn
  <2>2. /\ program = "gateway"
        /\ o \in Writers => (stage = "first" /\ o = First) \/ stage = "threads"
    BY <1>2 DEF Turn
  <2>3. Opened(First) => path \in DOMAIN db /\ path = file[First] /\ path # 0
    BY <1>1, <2>2, Roles DEF SwapInv, StoreInv, OpenerInv
  <2>4. CASE o = First
    <3>1. \A u \in Upstreams : pc'[u] = "closed"
      BY <2>1, <2>2, <2>4, Roles DEF ProxyInv, Done, Upgrading
    <3>2. Opened(First)' => path' = file'[First]
      BY <1>1, <2>1, <2>2, <2>3, <2>4, Roles DEF Opened, Upgrading
    <3>3. QED
      BY <3>1, <3>2 DEF SwapInv
  <2>5. CASE o # First
    <3>1. pc'[First] = pc[First] /\ file'[First] = file[First]
      BY <2>1, <2>5, Roles
    <3>2. Opened(First) => path' = path
      <4>1. Opened(First) => ~Moves(o)
        BY <2>2, <2>5, Roles DEF SwapInv, ProxyInv
      <4>2. QED
        BY <2>1, <2>3, <4>1
    <3>3. ASSUME o \in Upstreams PROVE pc'[o] \notin {"tables", "rename", "sidecars"}
      <4>1. Done(First)
        BY <2>1, <2>2, <2>5, <3>3, Roles DEF ProxyInv
      <4>2. db[path].version # 0 /\ path # 0
        <5>1. Opened(First) /\ Ours(file[First])
          BY <4>1, Roles DEF Done, Opened, UntouchedInv
        <5>2. db[file[First]].version # 0
          BY <4>1, <5>1, Roles DEF Done, StoreInv, OpenerInv, Current
        <5>3. QED
          BY <2>3, <5>1, <5>2
      <4>3. pc[o] \notin {"tables", "rename", "sidecars"}
        BY <2>2, <3>3 DEF SwapInv
      <4>4. QED
        BY <2>1, <4>2, <4>3
    <3>4. \A u \in Upstreams : pc'[u] \notin {"tables", "rename", "sidecars"}
      BY <2>1, <2>2, <3>3, Roles DEF SwapInv
    <3>5. QED
      BY <2>2, <3>1, <3>2, <3>4 DEF SwapInv, Opened, Upgrading
  <2>6. QED
    BY <2>4, <2>5
<1>3. CASE Restart
  BY <1>3, Roles DEF Restart, SwapInv, Opened, Upgrading
<1>4. CASE Aside /\ ~Restart
  <2>1. program' = program
    <3>1. CASE UNCHANGED vars /\ Begun
      BY <3>1 DEF Begun, Configure, ConfigureWrap, Spawn, End, BeginSession
    <3>2. ASSUME NEW q \in Requests, Borrow(q) \/ Answer(q) PROVE program' = program
      BY <3>2 DEF Borrow, Ask, Answer
    <3>3. QED
      BY <1>4, <3>1, <3>2, StartSteps DEF StartNext, startVars, Turn
  <2>2. \A w \in Writers : \/ pc'[w] = pc[w] /\ file'[w] = file[w]
                           \/ pc'[w] = "closed"
    BY <1>4, Roles DEF Aside
  <2>3. QED
    BY <1>4, <2>1, <2>2, Roles DEF Aside, SwapInv, Opened, Upgrading
<1>5. QED
  BY <1>2, <1>3, <1>4, TurnOrAside

\* The history only grows, by those that take a file of ours for a Phase-0 file.
LEMMA NextMisledInv ==
  StoreInv /\ MisledInv /\ [StartNext]_startVars => MisledInv' /\ misled \subseteq misled'
<1> SUFFICES ASSUME StoreInv, MisledInv, [StartNext]_startVars
             PROVE  MisledInv' /\ misled \subseteq misled'
  OBVIOUS
<1>1. /\ TypeInv /\ pc \in [Openers -> Pcs] /\ file \in [Openers -> 0 .. Len(db)]
  BY DEF StoreInv, TypeInv
<1>2. misled \subseteq misled' /\ (StartNext => Mistakes \subseteq misled')
  BY DEF StartNext, startVars
<1>3. ASSUME NEW o \in Openers, Turn(o) PROVE MisledInv'
  <2> USE DEF Looks, Passes, Judges, Moves, GoesOn, Connects, Upgrades
  <2>1. /\ \/ Looks(o) \/ Passes(o) \/ Judges(o) \/ Moves(o) \/ GoesOn(o) \/ Connects(o)
           \/ Upgrades(o)
        /\ \A p \in Openers \ {o} : pc'[p] = pc[p] /\ file'[p] = file[p]
        /\ UNCHANGED laid
    BY <1>1, <1>3, OpenMoves DEF Turn
  <2>2. pc'[o] # pc[o] \/ Upgrades(o)
    BY <2>1 DEF Upgrading
  <2>3. pc'[o] \in {"rename", "memory"} /\ Ours(file[o])' => o \in misled'
    <3> SUFFICES ASSUME pc'[o] \in {"rename", "memory"}, Ours(file[o])' PROVE o \in misled'
      OBVIOUS
    <3>1. Judges(o) /\ file' = file
      BY <2>1 DEF Upgrading
    <3>2. o \in Mistakes
      BY <2>1, <3>1 DEF Mistakes, Ours
    <3>3. StartNext
      BY <3>1 DEF startVars, vars
    <3>4. QED
      BY <1>2, <3>2, <3>3
  <2>4. QED
    BY <1>2, <2>1, <2>3, Roles DEF MisledInv, Ours
<1>4. CASE Aside
  BY <1>2, <1>4, Roles DEF Aside, MisledInv, Ours
<1>5. QED
  BY <1>2, <1>3, <1>4, TurnOrAside

LEMMA NextPlaceInv ==
  /\ StoreInv /\ ProxyInv /\ UntouchedInv /\ SwapInv /\ MisledInv /\ PlaceInv
  /\ [StartNext]_startVars
  => PlaceInv'
<1> SUFFICES ASSUME StoreInv, ProxyInv, UntouchedInv, SwapInv, MisledInv, PlaceInv,
                    [StartNext]_startVars, ~Fooled(Writers)'
             PROVE  /\ laid' = "phase0" => 1 \in {path', backup'}
                    /\ \A o \in Openers : Opened(o)' => file'[o] = path'
  BY DEF PlaceInv
<1>1. /\ TypeInv /\ pc \in [Openers -> Pcs] /\ file \in [Openers -> 0 .. Len(db)]
      /\ Len(db) \in Nat /\ DOMAIN db = 1 .. Len(db) /\ path \in 0 .. Len(db)
      /\ laid = "phase0" => Len(db) > 0
  BY FileTypes DEF StoreInv, TypeInv
<1>2. /\ ~Fooled(Writers) /\ (laid = "phase0" => 1 \in {path, backup})
      /\ \A o \in Openers : Opened(o) => file[o] = path
  BY NextMisledInv DEF Fooled, PlaceInv
<1>3. ASSUME NEW o \in Openers, Turn(o)
      PROVE  /\ laid' = "phase0" => 1 \in {path', backup'}
             /\ \A p \in Openers : Opened(p)' => file'[p] = path'
  <2> USE DEF Looks, Passes, Judges, Moves, GoesOn, Connects, Upgrades
  <2>1. /\ \/ Looks(o) \/ Passes(o) \/ Judges(o) \/ Moves(o) \/ GoesOn(o) \/ Connects(o)
           \/ Upgrades(o)
        /\ \A p \in Openers \ {o} : pc'[p] = pc[p] /\ file'[p] = file[p]
        /\ UNCHANGED laid
    BY <1>1, <1>3, OpenMoves DEF Turn
  <2>2. CASE Moves(o)
    <3>1. Untouched
      <4>1. o \in Writers /\ o \notin misled
        BY <1>2, <2>2, Roles DEF ProxyInv, Fooled
      <4>2. ~Ours(file[o])
        BY <2>2, <4>1 DEF MisledInv
      <4>3. QED
        BY <2>2, <4>1, <4>2 DEF UntouchedInv
    <3>2. \A p \in Openers : ~Opened(p)
      BY <3>1 DEF UntouchedInv, Opened, Upgrading
    <3>3. \A p \in Openers : ~Opened(p)'
      BY <2>1, <2>2, <3>2 DEF Opened, Upgrading
    <3>4. QED
      BY <2>2, <3>1, <3>3 DEF Untouched
  <2>3. CASE ~Moves(o)
    <3>1. \A p \in Openers : Opened(p) => path # 0 /\ path' = path
      BY <1>1, <1>2, <2>1, <2>3 DEF StoreInv, OpenerInv
    <3>2. Opened(o)' => file'[o] = path'
      BY <1>2, <2>1, <2>3, <3>1 DEF Opened, Upgrading
    <3>3. laid' = "phase0" => 1 \in {path', backup'}
      BY <1>2, <2>1, <2>3
    <3>4. QED
      BY <1>2, <2>1, <3>1, <3>2, <3>3 DEF Opened, Upgrading
  <2>4. QED
    BY <2>2, <2>3
<1>4. CASE Aside
  BY <1>2, <1>4, Roles DEF Aside, Opened, Upgrading
<1>5. QED
  BY <1>3, <1>4, TurnOrAside

\* No step of an opener takes the stamp off a file.
LEMMA StampKept ==
  ASSUME TypeInv, NEW o \in Openers, Open(o), NEW f \in DOMAIN db, db[f].version = Current
  PROVE  f \in DOMAIN db' /\ db'[f].version = Current
<1>1. /\ DOMAIN db = 1 .. Len(db) /\ Len(db) \in Nat /\ db \in Seq(Files) /\ db[f] \in Files
      /\ \A g \in DOMAIN db : db[g] \in Files
  BY FileTypes DEF TypeInv
<1>2. CASE UNCHANGED db
  BY <1>2
<1>3. CASE Connect(o)
  BY <1>1, <1>3 DEF Connect, TypeInv
<1>4. CASE AddColumn(o) \/ Stamp(o)
  <2>1. CASE f # file[o]
    BY <1>1, <1>4, <2>1 DEF AddColumn, Stamp, Commit
  <2>2. CASE f = file[o]
    <3> DEFINE d == db[f]
    <3>1. /\ [[d EXCEPT !.cols = @ \cup {Columns[at[o]]}] EXCEPT !.commits = @ + 1].version = Current
          /\ [Created(d) EXCEPT !.commits = @ + 1].version = Current
      BY <1>1 DEF Files, Created
    <3>2. QED
      BY <1>1, <1>4, <2>2, <3>1 DEF AddColumn, Stamp, Commit
  <2>3. QED
    BY <2>1, <2>2
<1>5. QED
  BY <1>2, <1>3, <1>4 DEF Open, Exists, ReadVersion, ReadTables, Rename, RemoveSidecars,
     OpenPhysical, CheckVersion, ProbeColumn, BeginCreate

LEMMA NextSessionInv ==
  /\ StoreInv /\ StoreInv' /\ ProxyInv /\ UntouchedInv /\ MisledInv /\ MisledInv'
  /\ UntouchedInv' /\ PlaceInv /\ SessionInv /\ [StartNext]_startVars
  => SessionInv'
<1> SUFFICES ASSUME StoreInv, StoreInv', ProxyInv, UntouchedInv, MisledInv, MisledInv',
                    UntouchedInv', PlaceInv, SessionInv, [StartNext]_startVars,
                    ~Fooled(Writers \cup {Cached})'
             PROVE  SessionInv'
  BY DEF SessionInv
<1>1. /\ TypeInv /\ pc \in [Openers -> Pcs] /\ file \in [Openers -> 0 .. Len(db)]
      /\ Len(db) \in Nat /\ DOMAIN db = 1 .. Len(db) /\ path \in 0 .. Len(db)
  BY FileTypes DEF StoreInv, TypeInv
<1>2. ~Fooled(Writers \cup {Cached}) /\ ~Fooled(Writers)
  BY NextMisledInv DEF Fooled
<1>3. /\ sessions # {} => ~Untouched /\ path \in DOMAIN db /\ path # 0
                          /\ db[path].version = Current
      /\ since \in [Requests -> SUBSET sessions] /\ saw \in [Requests -> SUBSET sessions]
      /\ \A s \in sessions : s.in = path
      /\ \A q \in Requests :
           /\ pc[q] \in {"tables", "memory"} => since[q] = {}
           /\ pc[q] = "answered" => since[q] \subseteq saw[q]
  <2>1. /\ sessions # {} => path # 0 /\ db[path].version = Current
        /\ since \in [Requests -> SUBSET sessions] /\ saw \in [Requests -> SUBSET sessions]
        /\ \A s \in sessions : s.in = path
        /\ \A q \in Requests :
             /\ pc[q] \in {"tables", "memory"} => since[q] = {}
             /\ pc[q] = "answered" => since[q] \subseteq saw[q]
    BY <1>2 DEF SessionInv
  <2>2. Untouched /\ path \in DOMAIN db => db[path].version = 0
    BY DEF StoreInv, FileInv, Ours, Untouched
  <2>3. Current # 0 /\ (path # 0 => path \in DOMAIN db)
    BY <1>1 DEF Current
  <2>4. QED
    BY <2>1, <2>2, <2>3
<1>4. pc'[Cached] # "memory" /\ pc[Cached] # "memory"
  BY <1>2 DEF UntouchedInv, MisledInv, Fooled
<1>5. CASE UNCHANGED <<vars, sessions, dash>>
  BY <1>2, <1>4, <1>5 DEF SessionInv, vars, dash, places
<1>6. ASSUME NEW o \in Openers, Turn(o) PROVE SessionInv'
  <2> USE DEF Looks, Passes, Judges, Moves, GoesOn, Connects, Upgrades
  <2>1. /\ \/ Looks(o) \/ Passes(o) \/ Judges(o) \/ Moves(o) \/ GoesOn(o) \/ Connects(o)
           \/ Upgrades(o)
        /\ \A p \in Openers \ {o} : pc'[p] = pc[p] /\ file'[p] = file[p]
        /\ UNCHANGED laid
    BY <1>1, <1>6, OpenMoves DEF Turn
  <2>2. UNCHANGED <<sessions, saw>>
    BY <1>6 DEF Turn
  <2>3. Moves(o) => sessions = {}
    <3> SUFFICES ASSUME Moves(o) PROVE Untouched
      BY <1>3
    <3>1. o \in Writers /\ o \notin misled
      BY <1>2, Roles DEF ProxyInv, Fooled
    <3>2. ~Ours(file[o])
      BY <3>1 DEF MisledInv
    <3>3. QED
      BY <3>1, <3>2 DEF UntouchedInv
  <2>4. sessions # {} => path' = path /\ db'[path].version = Current
    <3> SUFFICES ASSUME sessions # {} PROVE path' = path /\ db'[path].version = Current
      OBVIOUS
    <3>1. path' = path
      BY <1>3, <2>1, <2>3
    <3>2. QED
      BY <1>1, <1>3, <1>6, <3>1, StampKept DEF Turn
  <2>5. /\ since' \in [Requests -> SUBSET sessions]
        /\ \A q \in Requests \ {o} : since'[q] = since[q]
        /\ o \in Requests =>
             \/ pc[o] # "closed" /\ since'[o] = since[o]
             \/ pc[o] = "closed"
    BY <1>3, <1>6 DEF Turn
  <2>6. ASSUME o \in Requests
        PROVE  /\ pc'[o] \in {"tables", "memory"} => since'[o] = {}
               /\ pc'[o] # "answered"
    <3>1. pc'[o] # "answered" /\ (pc[o] = "closed" => pc'[o] \notin {"tables", "memory"})
      BY <2>1 DEF Upgrading
    <3>2. pc'[o] = "memory" => pc[o] = "tables"
      BY <2>1 DEF Upgrading
    <3>3. pc'[o] = "tables" => sessions = {}
      BY <1>3, <2>1 DEF Upgrading, Current
    <3>4. QED
      BY <1>3, <2>5, <2>6, <3>1, <3>2, <3>3
  <2>7. QED
    BY <1>3, <1>4, <2>1, <2>2, <2>4, <2>5, <2>6, Roles DEF SessionInv
<1>7. ASSUME NEW u \in Threads, BeginSession(u) PROVE SessionInv'
  <2>1. /\ UNCHANGED <<vars, dash>> /\ pc[u] = "up" /\ sessions' = sessions \cup {Session(u)}
    BY <1>7 DEF BeginSession
  <2>2. Session(u).in = path /\ path # 0 /\ db[path].version = Current
    BY <1>1, <1>2, <2>1, Roles DEF Session, PlaceInv, StoreInv, OpenerInv, Opened
  <2>3. QED
    BY <1>3, <1>4, <2>1, <2>2 DEF SessionInv, vars, dash, places
<1>8. CASE Restart
  BY <1>1, <1>3, <1>4, <1>8, Roles DEF Restart, SessionInv, dash, places
<1>9. ASSUME NEW q \in Requests, Borrow(q) PROVE SessionInv'
  <2>1. /\ UNCHANGED <<db, path, laid, sessions, saw>>
        /\ pc[Cached] \in {"up", "memory"} /\ since' = [since EXCEPT ![q] = sessions]
        /\ pc' = [pc EXCEPT ![q] = pc[Cached]]
    BY <1>9, ChosenMeans DEF Borrow, Ask, Serving, places
  <2>2. pc'[q] = "up" /\ \A p \in Openers \ {q} : pc'[p] = pc[p]
    BY <1>1, <1>4, <2>1, Roles
  <2>3. since' \in [Requests -> SUBSET sessions]
    BY <1>3, <2>1
  <2>4. \A p \in Requests \ {q} : since'[p] = since[p]
    BY <1>3, <2>1
  <2>5. QED
    BY <1>3, <1>4, <2>1, <2>2, <2>3, <2>4, Roles DEF SessionInv
<1>10. ASSUME NEW q \in Requests, Answer(q) PROVE SessionInv'
  <2>1. /\ UNCHANGED <<db, path, laid, sessions, since, file>>
        /\ pc[q] \in {"up", "memory"} /\ pc' = [pc EXCEPT ![q] = "answered"]
        /\ saw' = [saw EXCEPT ![q] = {s \in sessions : pc[q] = "up" /\ s.in = file[q]}]
    BY <1>10 DEF Answer, places
  <2>2. saw' \in [Requests -> SUBSET sessions] /\ \A p \in Requests \ {q} : saw'[p] = saw[p]
    BY <1>3, <2>1
  <2>3. since[q] \subseteq saw'[q]
    <3>1. saw'[q] = {s \in sessions : pc[q] = "up" /\ s.in = file[q]}
      BY <1>3, <2>1
    <3>2. CASE pc[q] = "memory"
      BY <1>3, <3>2
    <3>3. CASE pc[q] = "up"
      <4>1. file[q] = path
        BY <1>2, <3>3, Roles DEF PlaceInv, Opened
      <4>2. saw'[q] = sessions
        BY <1>3, <3>1, <3>3, <4>1
      <4>3. QED
        BY <1>3, <4>2
    <3>4. QED
      BY <2>1, <3>2, <3>3
  <2>4. pc'[q] = "answered" /\ \A p \in Openers \ {q} : pc'[p] = pc[p]
    BY <1>1, <2>1, Roles
  <2>5. QED
    BY <1>3, <1>4, <2>1, <2>2, <2>3, <2>4, Roles DEF SessionInv
<1>11. CASE UNCHANGED vars /\ Begun
  <2>1. UNCHANGED <<vars, sessions, dash>> \/ \E u \in Threads : BeginSession(u)
    BY <1>11 DEF Begun, Configure, ConfigureWrap, Spawn, End
  <2>2. QED
    BY <1>5, <1>7, <2>1
<1>12. QED
  BY <1>5, <1>6, <1>8, <1>9, <1>10, <1>11, StartSteps DEF startVars, StartNext

-----------------------------------------------------------------------------

MovedInv == UntouchedInv /\ SwapInv /\ PlaceInv /\ SessionInv

LEMMA InitStarted == StartInit => StoreInv /\ ProxyInv /\ FirstInv /\ MisledInv /\ MovedInv
<1> SUFFICES ASSUME StartInit PROVE StoreInv /\ ProxyInv /\ FirstInv /\ MisledInv /\ MovedInv
  OBVIOUS
<1>1. StoreInv
  BY InitStoreInv DEF StartInit
<1>2. \A o \in Openers : pc[o] = "closed" /\ ~Opened(o)
  BY DEF StartInit, Init, Opened, Upgrading
<1>3. ProxyInv /\ FirstInv /\ MisledInv
  BY <1>2, Roles DEF StartInit, ProxyInv, FirstInv, MisledInv
<1>4. UntouchedInv /\ SwapInv
  BY <1>2, Roles DEF UntouchedInv, SwapInv
<1>5. PlaceInv
  BY <1>2, Roles DEF StartInit, Init, PlaceInv
<1>6. SessionInv
  BY <1>2, Roles DEF StartInit, SessionInv
<1>7. QED
  BY <1>1, <1>3, <1>4, <1>5, <1>6 DEF MovedInv

LEMMA AlwaysStarted == StartSpec => [](StoreInv /\ ProxyInv /\ FirstInv /\ MisledInv)
<1>1. StoreInv /\ MisledInv /\ [StartNext]_startVars => MisledInv'
  BY NextMisledInv
<1>2. QED
  BY <1>1, InitStarted, StartStoreInv, NextProxyInv, NextFirstInv, PTL DEF StartSpec

LEMMA AlwaysMoved == StartSpec /\ [][Moved]_startVars => []MovedInv
<1>1. /\ StoreInv /\ StoreInv' /\ ProxyInv /\ MisledInv /\ MisledInv' /\ MovedInv
      /\ [StartNext]_startVars /\ [Moved]_startVars
      => MovedInv'
  BY NextUntouchedInv, NextSwapInv, NextPlaceInv, NextSessionInv DEF MovedInv
<1>2. QED
  BY <1>1, InitStarted, AlwaysStarted, PTL DEF StartSpec

\* Whatever other processes do to the database and wherever an earlier proxy was
\* stopped, a storage thread of a gateway fails to open only if the open before the
\* threads' failed; and where no rename fails, no thread of a gateway swaps the
\* database, and the Phase-0 file is lost only if another process created a file
\* between the two reads of a writer's probe.
THEOREM ThreadsNeverHarmEachOther == StartSpec /\ [][Moved]_startVars => []ThreadsAreSafe
<1>1. ProxyInv /\ FirstInv => ThreadsNeverCompete
  BY Roles DEF FirstInv, ProxyInv, Done, ThreadsNeverCompete
<1>2. MovedInv => ThreadsNeverSwap /\ Phase0Kept
  BY DEF MovedInv, SwapInv, ThreadsNeverSwap, PlaceInv, Fooled, Phase0Kept
<1>3. QED
  BY <1>1, <1>2, AlwaysStarted, AlwaysMoved, PTL DEF ThreadsAreSafe

\* Where no rename fails, a request to the dashboard is answered with every session
\* that had been begun when it was asked, also by a dashboard that was started first,
\* on a Phase-0 file that a proxy replaced since; unless another process created a
\* file between the two reads of its own or a writer's probe.
THEOREM RequestsCatchUp == StartSpec /\ [][Moved]_startVars => []CatchesUp
<1>1. MovedInv => CatchesUp
  BY DEF MovedInv, SessionInv, Fooled, CatchesUp
<1>2. QED
  BY <1>1, AlwaysMoved, PTL
=============================================================================
