---------------------------- MODULE CommandProofs ----------------------------
(***************************************************************************)
(* What the commands around the proxy promise, for every value of their    *)
(* constants: attach and detach, a replay, and the dashboard's page.       *)
(*                                                                         *)
(* Attach and detach.  What one entry becomes comes first: detach undoes   *)
(* each transform, with the table of routes attach left or a later one,    *)
(* and the table only grows.  Then what every overlap of commands leaves   *)
(* true (SharedInv), and what one command at a time does (AloneInv): for   *)
(* each entry of the files it has read, what it plans to write restores to *)
(* what the user wrote.                                                    *)
(*                                                                         *)
(* A replay reaps the child it started, waits for the handshake, returns   *)
(* the answer of its request, and no timer takes that back.  Two of these  *)
(* assume a server that is quiet until it has answered initialize and does *)
(* not number a request of its own like the replayed one.  Of the page the *)
(* argument is which requests a hook still listens to, and that none of    *)
(* them is older than the list that is shown.                              *)
(***************************************************************************)
EXTENDS MCAttachDetach, Replay, Viewer, SequenceTheorems, WellFoundedInduction, TLAPS

Phases == {"idle", "transform", "commit"}

TypeInv ==
  /\ disk \in [Places -> Entries] /\ mine \in [Places -> UserEntries]
  /\ health \in [Files -> {"ok", "missing", "garbled"}] /\ backed \subseteq Places
  /\ table \in Tables /\ damaged \in BOOLEAN /\ gw \in Tables
  /\ pc \in [Cmds -> Phases] /\ job \in [Cmds -> Jobs \cup {NoJob}]
  /\ todo \in [Cmds -> SUBSET Files] /\ left \in [Cmds -> SUBSET Places]
  /\ plan \in [Cmds -> [Places -> Entries]] /\ changed \in [Cmds -> SUBSET Files]
  /\ mem \in [Cmds -> Tables] /\ grown \in [Cmds -> BOOLEAN]
  /\ failed \in [Cmds -> BOOLEAN]
  /\ \A c \in Cmds : pc[c] # "idle" => job[c] \in Jobs

\* What is at a place is in some backup, or is what the user wrote.
SafeInv == \A p \in Places : disk[p] = mine[p] \/ p \in backed

\* No number is skipped among the routes of a name, and no upstream has two.
Tidy(t) ==
  /\ \A b \in Bases, n \in 1 .. MaxRoutes, m \in 1 .. MaxRoutes :
       m < n /\ t[<<b, n>>] # None => t[<<b, m>>] # None
  /\ \A b \in Bases, n \in 1 .. MaxRoutes, m \in 1 .. MaxRoutes :
       t[<<b, n>>] = t[<<b, m>>] /\ t[<<b, n>>] # None => n = m

RoutesInv == Tidy(table) /\ \A c \in Cmds : Tidy(mem[c])

\* The later table keeps what the earlier one records.
Keeps(t, u) == \A r \in Routes : t[r] # None => u[r] = t[r]

Targets(j) == IF j.target = All THEN Files ELSE {j.target}

\* One command at a time over a table that stays readable.
Orderly ==
  /\ \A c, d \in Cmds : c # d => pc[c] = "idle" \/ pc[d] = "idle"
  /\ ~damaged

FilesInv ==
  /\ Restorable
  /\ Keeps(gw, table)
  /\ \A p \in Places : health[p.file] # "ok" => disk[p] = Nothing

IdleInv(c) ==
  /\ left[c] = {} /\ changed[c] = {} /\ ~grown[c] /\ ~failed[c]
  /\ plan[c] = [p \in Places |-> Nothing]

\* The files that a command has read.
ReadBy(c) == Targets(job[c]) \ todo[c]

BusyInv(c) ==
  /\ Keeps(table, mem[c])
  /\ (~grown[c] => mem[c] = table)
  /\ (pc[c] = "commit" =>
        todo[c] = {} /\ left[c] = {} /\ (~job[c].dry => mem[c] = table))
  /\ todo[c] \subseteq Targets(job[c]) /\ changed[c] \subseteq ReadBy(c)
  /\ \A p \in left[c] : p.file \in ReadBy(c) /\ health[p.file] = "ok"
  /\ \A f \in changed[c] : health[f] = "ok"
  /\ \A p \in Places : p.file \notin ReadBy(c) => plan[c][p] = Nothing
  /\ \A p \in Places : p.file \in ReadBy(c) =>
       /\ Detached(plan[c][p], mem[c]) = mine[p]
       /\ (p.file \notin changed[c] /\ ~failed[c] => plan[c][p] = disk[p])
       /\ (job[c].op = "attach" /\ p \notin left[c] =>
             ~ToWrap(plan[c][p]) /\ ~ToRoute(plan[c][p]))

CommandsInv ==
  \A c \in Cmds : IF pc[c] = "idle" THEN IdleInv(c) ELSE BusyInv(c)

AllInv == TypeInv /\ SafeInv /\ RoutesInv
          /\ (world = "alone" => Orderly /\ FilesInv /\ CommandsInv)

-----------------------------------------------------------------------------
(* The transforms of one entry.                                            *)

LEMMA FirstIs ==
  ASSUME NEW S, S \subseteq Nat, S # {}
  PROVE  FirstOf(S) \in S /\ \A j \in S : FirstOf(S) <= j
<1>1. PICK k \in S : \A n \in S : ~ (<<n, k>> \in OpToRel(<, Nat))
  BY NatLessThanWellFounded, WFMin
<1>2. \A n \in S : k <= n
  <2>1. ASSUME NEW n \in S PROVE k <= n
    <3>1. n \in Nat /\ k \in Nat
      OBVIOUS
    <3>2. ~ (n < k)
      BY <1>1, <3>1 DEF OpToRel
    <3>3. QED
      BY <3>1, <3>2
  <2>2. QED
    BY <2>1
<1>3. QED
  BY <1>2 DEF FirstOf

LEMMA NoneApart == None \notin Urls /\ None \notin STRING /\ None \notin GatewayUrls
  BY ClientEntryAssumption DEF Urls

LEMMA SeparatorIs ==
  ASSUME NEW args \in Seq(STRING), Separators(args) # {}
  PROVE  /\ FirstOf(Separators(args)) \in 1 .. Len(args)
         /\ args[FirstOf(Separators(args))] = "--"
         /\ \A j \in 1 .. Len(args) : args[j] = "--" => FirstOf(Separators(args)) <= j
<1>1. DOMAIN args = 1 .. Len(args) /\ Len(args) \in Nat
  BY LenProperties
<1>2. Separators(args) \subseteq Nat
  BY <1>1 DEF Separators
<1>3. /\ FirstOf(Separators(args)) \in Separators(args)
      /\ \A j \in Separators(args) : FirstOf(Separators(args)) <= j
  BY <1>2, FirstIs
<1>4. QED
  BY <1>1, <1>3 DEF Separators

LEMMA EntryIs ==
  ASSUME NEW e \in Entries
  PROVE  /\ e.command \in {None} \cup STRING /\ e.url \in {None} \cup Urls
         /\ e.args \in {None, NotAnArray} \cup Seq(STRING)
         /\ e = [command |-> e.command, args |-> e.args, url |-> e.url]
         /\ \A u : [e EXCEPT !.url = u] = [command |-> e.command, args |-> e.args, url |-> u]
         /\ \A u, v : [e EXCEPT !.command = u, !.args = v]
                        = [command |-> u, args |-> v, url |-> e.url]
<1>1. e.command \in {None} \cup STRING /\ e.url \in {None} \cup Urls
      /\ e.args \in {None, NotAnArray} \cup Seq(STRING)
  BY DEF Entries
<1>2. DOMAIN e = {"command", "args", "url"}
  BY DEF Entries
<1>3. e = [command |-> e.command, args |-> e.args, url |-> e.url]
  <2> DEFINE C == {None} \cup STRING
  <2> DEFINE A == {None, NotAnArray} \cup Seq(STRING)
  <2> DEFINE U == {None} \cup Urls
  <2>1. e \in [command : C, args : A, url : U]
    BY DEF Entries
  <2> HIDE DEF C, A, U
  <2>2. QED
    BY <2>1
<1> DEFINE k == e.command
<1> DEFINE a == e.args
<1> DEFINE l == e.url
<1>4. e = [command |-> k, args |-> a, url |-> l]
  BY <1>3
<1> HIDE DEF k, a, l
<1>5. \A u : [e EXCEPT !.url = u] = [command |-> k, args |-> a, url |-> u]
  BY <1>4
<1>6. ASSUME NEW u, NEW v
      PROVE  [e EXCEPT !.command = u, !.args = v] = [command |-> u, args |-> v, url |-> l]
  <2> DEFINE x == [e EXCEPT !.command = u]
  <2>1. x = [command |-> u, args |-> a, url |-> l]
    BY <1>4
  <2>2. [e EXCEPT !.command = u, !.args = v] = [x EXCEPT !.args = v]
    BY <1>4
  <2> HIDE DEF x
  <2>3. QED
    BY <2>1, <2>2
<1>7. QED
  BY <1>1, <1>3, <1>5, <1>6 DEF k, a, l

LEMMA OursAreStrings ==
  "wrap" \in STRING /\ "--name" \in STRING /\ "--" \in STRING /\ Self \in STRING
<1>1. \A x \in OurWords : x \in STRING
  BY ClientEntryAssumption
<1>2. QED
  BY <1>1 DEF OurWords

LEMMA FiveIs ==
  ASSUME NEW S, NEW a \in S, NEW b \in S, NEW c \in S, NEW d \in S, NEW e \in S
  PROVE  <<a, b, c, d, e>> \in Seq(S) /\ Len(<<a, b, c, d, e>>) = 5
OBVIOUS

LEMMA UnwrappedTyped ==
  ASSUME NEW e \in Entries, IsWrap(e.args)
  PROVE  Unwrapped(e) \in Entries
<1> DEFINE a == e.args
<1> DEFINE s == FirstOf(Separators(a))
<1>1. a \in Seq(STRING) /\ s < Len(a) /\ Separators(a) # {}
  BY EntryIs DEF IsWrap
<1> HIDE DEF a
<1>2. s \in 1 .. Len(a) /\ Len(a) \in Nat
  BY <1>1, SeparatorIs, LenProperties
<1> HIDE DEF s
<1>3. a[s + 1] \in STRING
  BY <1>1, <1>2, ElementOfSeq
<1> DEFINE v == IF s + 1 = Len(a) THEN None ELSE SubSeq(a, s + 2, Len(a))
<1>4. SubSeq(a, s + 2, Len(a)) \in Seq(STRING)
  <2>1. \A i \in s + 2 .. Len(a) : a[i] \in STRING
    BY <1>1, <1>2, ElementOfSeq
  <2>2. s + 2 \in Int /\ Len(a) \in Int
    BY <1>2
  <2>3. QED
    BY <2>1, <2>2, SubSeqProperties
<1>5. Unwrapped(e) = [command |-> a[s + 1], args |-> v, url |-> e.url]
  <2>1. Unwrapped(e) = [e EXCEPT !.command = a[s + 1], !.args = v]
    BY DEF Unwrapped, a, s
  <2> DEFINE k == a[s + 1]
  <2> HIDE DEF v, k
  <2>2. [e EXCEPT !.command = k, !.args = v] = [command |-> k, args |-> v, url |-> e.url]
    BY EntryIs
  <2>3. QED
    BY <2>1, <2>2 DEF k
<1>6. v \in {None, NotAnArray} \cup Seq(STRING)
  BY <1>4
<1> HIDE DEF v
<1>7. QED
  BY <1>3, <1>5, <1>6, EntryIs DEF Entries

LEMMA RouteIs ==
  ASSUME NEW e \in Entries, NEW t \in Tables, IsRemote(e), IsOurs(e)
  PROVE  e.url.route \in Routes /\ t[e.url.route] \in {None} \cup Urls
<1>1. e.url \in GatewayUrls
  BY DEF IsOurs, IsRemote, IsStdio
<1>2. e.url.route \in Routes
  BY <1>1 DEF GatewayUrls
<1>3. QED
  BY <1>2 DEF Tables

LEMMA DetachedTyped ==
  ASSUME NEW e \in Entries, NEW t \in Tables
  PROVE  Detached(e, t) \in Entries
<1>1. CASE IsStdio(e)
  BY <1>1, UnwrappedTyped DEF Detached
<1>2. CASE ~IsStdio(e) /\ IsRemote(e) /\ IsOurs(e) /\ t[e.url.route] # None
  <2>1. t[e.url.route] \in {None} \cup Urls
    BY <1>2, RouteIs
  <2>2. Detached(e, t) = [e EXCEPT !.url = t[e.url.route]]
    BY <1>2 DEF Detached
  <2>3. Detached(e, t) = [command |-> e.command, args |-> e.args, url |-> t[e.url.route]]
    BY <2>2, EntryIs
  <2>4. QED
    BY <2>1, <2>3, EntryIs DEF Entries
<1>3. CASE ~IsStdio(e) /\ ~(IsRemote(e) /\ IsOurs(e) /\ t[e.url.route] # None)
  BY <1>3 DEF Detached
<1>4. QED
  BY <1>1, <1>2, <1>3

\* What is not ours is left alone.
LEMMA DetachedNotOurs ==
  ASSUME NEW e, NEW t, ~IsOurs(e) PROVE Detached(e, t) = e
  BY DEF Detached

\* What an attach makes of a remote entry.
LEMMA RoutedIs ==
  ASSUME NEW e \in Entries, ToRoute(e), NEW port \in Ports, NEW r \in Routes, NEW t,
         t[r] = e.url
  PROVE  /\ Routed(e, port, r) \in Entries
         /\ IsOurs(Routed(e, port, r)) /\ IsRemote(Routed(e, port, r))
         /\ Detached(Routed(e, port, r), t) = e
<1> DEFINE u == [port |-> port, route |-> r]
<1> DEFINE w == [command |-> e.command, args |-> e.args, url |-> u]
<1>1. Routed(e, port, r) = w
  BY EntryIs DEF Routed
<1>2. u \in GatewayUrls /\ u.route = r
  BY DEF GatewayUrls
<1>3. u \in Urls /\ u # None
  BY <1>2, NoneApart DEF Urls
<1>4. e.command = None /\ e.url # None
  BY DEF ToRoute, IsRemote
<1> HIDE DEF u
<1>5. w.command = None /\ w.url = u /\ w.args = e.args
  BY <1>4
<1>6. w \in Entries
  BY <1>3, EntryIs DEF Entries
<1> HIDE DEF w
<1>7. ~IsStdio(w) /\ IsRemote(w) /\ IsOurs(w)
  BY <1>2, <1>3, <1>5 DEF IsStdio, IsRemote, IsOurs
<1>8. Detached(w, t) = [w EXCEPT !.url = e.url]
  BY <1>2, <1>4, <1>5, <1>7 DEF Detached
<1>9. [w EXCEPT !.url = e.url] = [command |-> e.command, args |-> e.args, url |-> e.url]
  BY <1>4, <1>5, <1>6, EntryIs
<1>10. QED
  BY <1>1, <1>6, <1>7, <1>8, <1>9, EntryIs

\* What an attach makes of a stdio entry.
LEMMA WrappedIs ==
  ASSUME NEW e \in Entries, ToWrap(e), NEW name \in STRING
  PROVE  /\ Wrapped(name, e) \in Entries
         /\ IsOurs(Wrapped(name, e)) /\ IsStdio(Wrapped(name, e))
<1>1. e.command \in STRING /\ e.command # None /\ e.args \in {None} \cup Seq(STRING)
  BY EntryIs DEF ToWrap, IsStdio
<1> DEFINE h == <<"wrap", "--name", name, "--", e.command>>
<1>2. h \in Seq(STRING)
  BY <1>1, OursAreStrings, FiveIs
<1>3. ArgsOf(e) \in Seq(STRING)
  BY <1>1, EmptySeq DEF ArgsOf
<1> DEFINE w == [command |-> Self, args |-> h \o ArgsOf(e), url |-> e.url]
<1>4. Wrapped(name, e) = w
  BY EntryIs DEF Wrapped
<1> HIDE DEF h
<1>5. h \o ArgsOf(e) \in Seq(STRING)
  BY <1>2, <1>3, ConcatProperties
<1>6. w.command = Self /\ w \in Entries
  BY <1>5, EntryIs, OursAreStrings DEF Entries
<1> HIDE DEF w
<1>7. IsStdio(w) /\ IsOurs(w)
  BY <1>6, OursAreStrings, NoneApart DEF IsStdio, IsOurs
<1>8. QED
  BY <1>4, <1>6, <1>7

LEMMA WrapRestored ==
  ASSUME NEW e \in Entries, ToWrap(e), e.args # <<>>,
         NEW name \in STRING, name # "--", NEW t
  PROVE  Detached(Wrapped(name, e), t) = e
<1>1. e.command \in STRING /\ e.args \in {None} \cup Seq(STRING)
  BY EntryIs DEF ToWrap, IsStdio
<1> DEFINE h == <<"wrap", "--name", name, "--", e.command>>
<1> DEFINE b == ArgsOf(e)
<1> DEFINE a == h \o b
<1> DEFINE w == [command |-> Self, args |-> a, url |-> e.url]
<1>2. h \in Seq(STRING) /\ Len(h) = 5
  BY <1>1, OursAreStrings, FiveIs
<1>3. h[1] = "wrap" /\ h[2] = "--name" /\ h[3] = name /\ h[4] = "--" /\ h[5] = e.command
  OBVIOUS
<1>4. b \in Seq(STRING) /\ Len(b) \in Nat
  BY <1>1, EmptySeq, LenProperties DEF ArgsOf
<1>5. Wrapped(name, e) = w
  BY EntryIs DEF Wrapped
<1> HIDE DEF h, b
<1>6. /\ a \in Seq(STRING) /\ Len(a) = 5 + Len(b)
      /\ \A i \in 1 .. 5 + Len(b) : a[i] = IF i <= 5 THEN h[i] ELSE b[i - 5]
  <2>1. /\ a \in Seq(STRING) /\ Len(a) = Len(h) + Len(b)
        /\ \A i \in 1 .. Len(h) + Len(b) : a[i] = IF i <= Len(h) THEN h[i] ELSE b[i - Len(h)]
    BY <1>2, <1>4, ConcatProperties
  <2> HIDE DEF a
  <2>2. QED
    BY <1>2, <2>1
<1> HIDE DEF a
<1>7. a[1] = "wrap" /\ a[2] = "--name" /\ a[3] = name /\ a[4] = "--" /\ a[5] = e.command
  BY <1>3, <1>4, <1>6
<1>8. DOMAIN a = 1 .. Len(a) /\ Len(a) \in Nat /\ 4 \in 1 .. Len(a) /\ 4 < Len(a)
  BY <1>4, <1>6, LenProperties
<1>9. Separators(a) # {}
  BY <1>7, <1>8 DEF Separators
<1>10. FirstOf(Separators(a)) = 4
  <2> DEFINE s == FirstOf(Separators(a))
  <2>1. /\ s \in 1 .. Len(a) /\ a[s] = "--"
        /\ \A j \in 1 .. Len(a) : a[j] = "--" => s <= j
    BY <1>6, <1>9, SeparatorIs
  <2> HIDE DEF s
  <2>2. s <= 4
    BY <1>7, <1>8, <2>1
  <2>3. s # 1 /\ s # 2 /\ s # 3
    BY <1>7, <2>1
  <2>4. s = 4
    BY <1>8, <2>1, <2>2, <2>3
  <2>5. QED
    BY <2>4 DEF s
<1>11. IsWrap(a)
  <2>1. a \notin {None, NotAnArray}
    BY <1>6, ClientEntryAssumption
  <2>2. QED
    BY <1>7, <1>8, <1>9, <1>10, <2>1 DEF IsWrap
<1>12. w.command = Self /\ w.args = a /\ w.url = e.url /\ w \in Entries
  BY <1>6, EntryIs, OursAreStrings DEF Entries
<1> HIDE DEF w
<1>13. IsStdio(w) /\ IsOurs(w)
  BY <1>12, OursAreStrings, NoneApart DEF IsStdio, IsOurs
<1>14. Detached(w, t) = Unwrapped(w)
  BY <1>11, <1>12, <1>13 DEF Detached
<1> DEFINE v == IF 5 = Len(a) THEN None ELSE SubSeq(a, 6, Len(a))
<1>15. Unwrapped(w) = [command |-> a[5], args |-> v, url |-> e.url]
  <2>1. Unwrapped(w) = [w EXCEPT !.command = a[4 + 1],
                                 !.args = IF 4 + 1 = Len(a) THEN None
                                          ELSE SubSeq(a, 4 + 2, Len(a))]
    BY <1>10, <1>12 DEF Unwrapped
  <2>2. 4 + 1 = 5 /\ 4 + 2 = 6
    OBVIOUS
  <2>3. Unwrapped(w) = [w EXCEPT !.command = a[5], !.args = v]
    BY <2>1, <2>2
  <2> DEFINE k == a[5]
  <2> HIDE DEF v, k
  <2>4. [w EXCEPT !.command = k, !.args = v] = [command |-> k, args |-> v, url |-> w.url]
    BY <1>12, EntryIs
  <2>5. QED
    BY <1>12, <2>3, <2>4 DEF k
<1>16. v = e.args
  <2>1. CASE e.args = None
    <3>1. b = <<>> /\ Len(b) = 0
      BY <2>1, EmptySeq DEF ArgsOf, b
    <3>2. QED
      BY <1>6, <2>1, <3>1
  <2>2. CASE e.args # None
    <3>1. b = e.args /\ b # <<>>
      BY <2>2 DEF ArgsOf, b
    <3>2. Len(b) # 0
      BY <1>4, <3>1, EmptySeq
    <3> DEFINE z == SubSeq(a, 6, Len(a))
    <3>3. \A i \in 6 .. Len(a) : a[i] \in STRING
      BY <1>6, <1>8, ElementOfSeq
    <3>4. /\ z \in Seq(STRING) /\ Len(z) = (IF 6 <= Len(a) THEN Len(a) - 6 + 1 ELSE 0)
          /\ \A i \in 1 .. Len(a) - 6 + 1 : z[i] = a[6 + i - 1]
      BY <1>8, <3>3, SubSeqProperties
    <3> HIDE DEF z
    <3>5. Len(z) = Len(b)
      BY <1>4, <1>6, <3>2, <3>4
    <3>6. \A i \in 1 .. Len(z) : z[i] = b[i]
      <4>1. ASSUME NEW i \in 1 .. Len(z) PROVE z[i] = b[i]
        <5>1. i \in 1 .. Len(a) - 6 + 1 /\ 6 + i - 1 = i + 5 /\ i + 5 \in 1 .. 5 + Len(b)
              /\ ~(i + 5 <= 5) /\ i + 5 - 5 = i
          BY <1>4, <1>6, <3>5
        <5>2. z[i] = a[i + 5]
          BY <3>4, <5>1
        <5>3. a[i + 5] = b[i]
          BY <1>6, <5>1
        <5>4. QED
          BY <5>2, <5>3
      <4>2. QED
        BY <4>1
    <3>7. z = b
      BY <1>4, <3>4, <3>5, <3>6, SeqEqual
    <3>8. 5 # Len(a)
      BY <1>4, <1>6, <3>2
    <3>9. QED
      BY <3>1, <3>7, <3>8 DEF z
  <2>3. QED
    BY <2>1, <2>2
<1> HIDE DEF v
<1>17. QED
  BY <1>5, <1>7, <1>14, <1>15, <1>16, EntryIs

-----------------------------------------------------------------------------
(* Tables of routes.                                                       *)

LEMMA KeepsAll ==
  ASSUME NEW t, NEW u, NEW v, Keeps(t, u), Keeps(u, v) PROVE Keeps(t, v)
BY DEF Keeps

\* What detach restores with a table, it restores with every later one.
LEMMA Monotone ==
  ASSUME NEW e \in Entries, NEW t \in Tables, NEW u, Keeps(t, u), ~IsOurs(Detached(e, t))
  PROVE  Detached(e, u) = Detached(e, t)
<1>1. CASE IsStdio(e)
  BY <1>1 DEF Detached
<1>2. CASE ~IsStdio(e) /\ IsRemote(e) /\ IsOurs(e)
  <2>1. e.url.route \in Routes
    BY <1>2, RouteIs
  <2>2. t[e.url.route] # None
    BY <1>2 DEF Detached
  <2>3. u[e.url.route] = t[e.url.route]
    BY <2>1, <2>2 DEF Keeps
  <2>4. QED
    BY <1>2, <2>2, <2>3 DEF Detached
<1>3. CASE ~IsStdio(e) /\ ~(IsRemote(e) /\ IsOurs(e))
  BY <1>3 DEF Detached
<1>4. QED
  BY <1>1, <1>2, <1>3

\* allocate_route takes the first number that is free or this URL's: the table stays
\* tidy and loses nothing.
LEMMA Allocated ==
  ASSUME NEW t \in Tables, Tidy(t), NEW b \in Bases, NEW url \in Urls, HasRoute(t, b, url)
  PROVE  LET r == AllocateRoute(t, b, url)
             u == [t EXCEPT ![r] = url]
         IN  /\ r \in Routes /\ u \in Tables /\ u[r] = url
             /\ Keeps(t, u) /\ Tidy(u)
<1> DEFINE S == {n \in 1 .. MaxRoutes : FreeOrSame(t, <<b, n>>, url)}
<1> DEFINE n == CHOOSE x \in 1 .. MaxRoutes :
                  /\ FreeOrSame(t, <<b, x>>, url)
                  /\ \A m \in 1 .. (x - 1) : ~FreeOrSame(t, <<b, m>>, url)
<1>1. /\ n \in 1 .. MaxRoutes /\ FreeOrSame(t, <<b, n>>, url)
      /\ \A m \in 1 .. (n - 1) : ~FreeOrSame(t, <<b, m>>, url)
  <2>1. S \subseteq Nat /\ S # {}
    BY DEF HasRoute
  <2>2. FirstOf(S) \in S /\ \A j \in S : FirstOf(S) <= j
    BY <2>1, FirstIs
  <2> DEFINE x == FirstOf(S)
  <2>3. x \in 1 .. MaxRoutes /\ FreeOrSame(t, <<b, x>>, url)
    BY <2>2
  <2>4. ASSUME NEW m \in 1 .. (x - 1) PROVE ~FreeOrSame(t, <<b, m>>, url)
    <3>1. m \in 1 .. MaxRoutes /\ ~(x <= m)
      BY <2>3, ClientEntryAssumption
    <3>2. QED
      BY <2>2, <3>1
  <2> HIDE DEF x
  <2>5. \E y \in 1 .. MaxRoutes : /\ FreeOrSame(t, <<b, y>>, url)
                                  /\ \A m \in 1 .. (y - 1) : ~FreeOrSame(t, <<b, m>>, url)
    BY <2>3, <2>4
  <2>6. QED
    BY <2>5
<1>2. AllocateRoute(t, b, url) = <<b, n>>
  BY DEF AllocateRoute
<1> HIDE DEF n, S
<1> DEFINE r == <<b, n>>
<1> DEFINE u == [t EXCEPT ![r] = url]
<1>3. r \in Routes
  BY <1>1 DEF Routes
<1>4. t \in [Routes -> Urls \cup {None}] /\ url # None
  BY NoneApart DEF Tables
<1>5. u \in Tables /\ u[r] = url /\ \A s \in Routes : s # r => u[s] = t[s]
  BY <1>3, <1>4 DEF Tables
<1>6. t[r] \in {None, url}
  BY <1>1 DEF FreeOrSame
<1>7. Keeps(t, u)
  BY <1>5, <1>6 DEF Keeps
<1> DEFINE at(c, m) == <<c, m>>
<1>8. \A c \in Bases, m \in 1 .. MaxRoutes :
        /\ at(c, m) \in Routes /\ (at(c, m) = r <=> c = b /\ m = n)
        /\ (t[at(c, m)] # None => u[at(c, m)] # None)
        /\ u[at(c, m)] = IF c = b /\ m = n THEN url ELSE t[at(c, m)]
  BY <1>4, <1>5, <1>7 DEF Routes, Keeps
<1>9. \A m \in 1 .. MaxRoutes : m < n => t[at(b, m)] \notin {None, url}
  BY <1>1 DEF FreeOrSame
<1>10. t[at(b, n)] \in {None, url}
  BY <1>6
<1>11. n \in Nat /\ MaxRoutes \in Nat
  BY <1>1, ClientEntryAssumption
<1>12. /\ \A c \in Bases, x \in 1 .. MaxRoutes, m \in 1 .. MaxRoutes :
            m < x /\ t[at(c, x)] # None => t[at(c, m)] # None
       /\ \A c \in Bases, x \in 1 .. MaxRoutes, m \in 1 .. MaxRoutes :
            t[at(c, x)] = t[at(c, m)] /\ t[at(c, x)] # None => x = m
  BY DEF Tidy
<1> HIDE DEF u, at, r
<1>13. ASSUME NEW c \in Bases, NEW x \in 1 .. MaxRoutes, NEW m \in 1 .. MaxRoutes,
              m < x, u[at(c, x)] # None
       PROVE  u[at(c, m)] # None
  <2>1. CASE c = b /\ x = n
    BY <2>1, <1>8, <1>9, <1>13
  <2>2. CASE ~(c = b /\ x = n)
    BY <2>2, <1>8, <1>12, <1>13
  <2>3. QED
    BY <2>1, <2>2
<1>14. ASSUME NEW m \in 1 .. MaxRoutes, m # n PROVE t[at(b, m)] # url
  <2>1. CASE m < n
    BY <2>1, <1>9
  <2>2. CASE n < m /\ t[at(b, m)] = url
    <3>1. t[at(b, n)] # None
      BY <2>2, <1>1, <1>4, <1>12
    <3>2. t[at(b, n)] = t[at(b, m)]
      BY <2>2, <3>1, <1>10
    <3>3. QED
      BY <3>1, <3>2, <1>1, <1>12, <1>14
  <2>3. QED
    BY <2>1, <2>2, <1>11, <1>14
<1>15. ASSUME NEW c \in Bases, NEW x \in 1 .. MaxRoutes, NEW m \in 1 .. MaxRoutes,
              u[at(c, x)] = u[at(c, m)], u[at(c, x)] # None
       PROVE  x = m
  <2>1. CASE c = b /\ x = n /\ m # n
    BY <2>1, <1>8, <1>14, <1>15
  <2>2. CASE c = b /\ m = n /\ x # n
    BY <2>2, <1>8, <1>14, <1>15
  <2>3. CASE c # b \/ (x # n /\ m # n)
    BY <2>3, <1>8, <1>12, <1>15
  <2>4. QED
    BY <2>1, <2>2, <2>3
<1>16. Tidy(u)
  BY <1>13, <1>15 DEF Tidy, at
<1>17. QED
  BY <1>2, <1>3, <1>5, <1>7, <1>16 DEF u, r

-----------------------------------------------------------------------------
(* Types.                                                                  *)

LEMMA UsersIs ==
  ASSUME NEW e \in UserEntries
  PROVE  e \in Entries /\ ~IsOurs(e) /\ e.args # <<>>
BY AttachDetachAssumption

LEMMA NothingIs == Nothing \in Entries /\ ~ToWrap(Nothing) /\ ~ToRoute(Nothing)
<1>1. Nothing \in Entries
  BY AttachDetachAssumption
<1>2. Nothing.command = None /\ Nothing.url = None
  BY DEF Nothing
<1>3. QED
  BY <1>1, <1>2 DEF ToWrap, ToRoute, IsStdio, IsRemote

LEMMA PlaceIs ==
  ASSUME NEW p \in Places
  PROVE  p.file \in Files /\ p.name \in Names /\ p.name \in STRING /\ p.name # "--"
         /\ Sanitize[p.name] \in Bases
<1>1. p.file \in Files /\ p.name \in Names /\ p.name # "--"
  BY AttachDetachAssumption
<1>2. p.name \in STRING
  BY <1>1, ClientEntryAssumption
<1>3. QED
  BY <1>1, <1>2 DEF Bases

LEMMA NoRoutesIs == NoRoutes \in Tables /\ Tidy(NoRoutes)
<1>1. NoRoutes \in Tables
  BY DEF NoRoutes, Tables
<1>2. \A b \in Bases, n \in 1 .. MaxRoutes : NoRoutes[<<b, n>>] = None
  BY DEF NoRoutes, Routes
<1>3. QED
  BY <1>1, <1>2 DEF Tidy

LEMMA InitTyped == Init => TypeInv
<1> SUFFICES ASSUME Init PROVE TypeInv
  OBVIOUS
<1>1. \A e \in UserEntries : e \in Entries
  BY UsersIs
<1>2. disk \in [Places -> Entries] /\ mine \in [Places -> UserEntries]
  BY <1>1 DEF Init
<1>3. NoRoutes \in Tables
  BY NoRoutesIs
<1>4. plan \in [Cmds -> [Places -> Entries]]
  BY NothingIs DEF Init
<1>5. pc \in [Cmds -> Phases] /\ \A c \in Cmds : pc[c] = "idle"
  BY DEF Init, Phases
<1>6. table \in Tables /\ gw \in Tables /\ mem \in [Cmds -> Tables]
  BY <1>3 DEF Init
<1>7. QED
  BY <1>2, <1>4, <1>5, <1>6 DEF Init, TypeInv

LEMMA LoadedTyped == ASSUME TypeInv PROVE Loaded \in Tables
  BY NoRoutesIs DEF TypeInv, Loaded

LEMMA StartTyped ==
  ASSUME TypeInv, NEW c \in Cmds, NEW j \in Jobs, Start(c, j) PROVE TypeInv'
<1>1. mem' \in [Cmds -> Tables]
  BY LoadedTyped DEF TypeInv, Start
<1>2. pc' \in [Cmds -> Phases]
  BY DEF TypeInv, Start, Phases
<1>3. job' \in [Cmds -> Jobs \cup {NoJob}] /\ \A d \in Cmds : pc'[d] # "idle" => job'[d] \in Jobs
  BY DEF TypeInv, Start
<1>4. (IF j.target = All THEN Files ELSE {j.target}) \in SUBSET Files
  BY DEF Jobs
<1>5. todo' \in [Cmds -> SUBSET Files]
  BY <1>4 DEF TypeInv, Start
<1>6. QED
  BY <1>1, <1>2, <1>3, <1>5 DEF TypeInv, Start, fileVars, tableVars

LEMMA ReadFileTyped ==
  ASSUME TypeInv, NEW c \in Cmds, NEW f \in Files, ReadFile(c, f) PROVE TypeInv'
<1>1. todo' \in [Cmds -> SUBSET Files] /\ failed' \in [Cmds -> BOOLEAN]
  BY DEF TypeInv, ReadFile
<1>2. {p \in In(f) : disk[p] # Nothing} \in SUBSET Places
  BY DEF In
<1>3. left' \in [Cmds -> SUBSET Places]
  BY <1>2 DEF TypeInv, ReadFile
<1>4. [p \in Places |-> IF p \in In(f) /\ health[f] = "ok" THEN disk[p] ELSE plan[c][p]]
        \in [Places -> Entries]
  BY DEF TypeInv
<1>5. plan' \in [Cmds -> [Places -> Entries]]
  BY <1>4 DEF TypeInv, ReadFile
<1>6. QED
  BY <1>1, <1>3, <1>5 DEF TypeInv, ReadFile, fileVars, tableVars

\* What one entry is transformed into, and where.
LEMMA PlannedTyped ==
  ASSUME TypeInv, NEW c \in Cmds, NEW p \in Places, NEW e \in Entries, PlanFor(c, p, e)
  PROVE  plan' \in [Cmds -> [Places -> Entries]] /\ changed' \in [Cmds -> SUBSET Files]
<1>1. p.file \in Files
  BY PlaceIs
<1>2. changed' \in [Cmds -> SUBSET Files]
  BY <1>1 DEF TypeInv, PlanFor
<1>3. [plan[c] EXCEPT ![p] = e] \in [Places -> Entries]
  BY DEF TypeInv
<1>4. plan' = [plan EXCEPT ![c] = [plan[c] EXCEPT ![p] = e]]
  BY DEF PlanFor
<1>5. plan' \in [Cmds -> [Places -> Entries]]
  BY <1>3, <1>4 DEF TypeInv
<1>6. QED
  BY <1>2, <1>5

LEMMA EntryTyped ==
  ASSUME TypeInv, NEW c \in Cmds, NEW p \in Places, Entry(c, p),
         plan' \in [Cmds -> [Places -> Entries]], changed' \in [Cmds -> SUBSET Files],
         mem' \in [Cmds -> Tables], grown' \in [Cmds -> BOOLEAN]
  PROVE  TypeInv'
<1>1. left' \in [Cmds -> SUBSET Places]
  BY DEF TypeInv, Entry
<1>2. QED
  BY <1>1 DEF TypeInv, Entry, fileVars, tableVars

LEMMA AttachStdioTyped ==
  ASSUME TypeInv, NEW c \in Cmds, NEW p \in Places, AttachStdioEntry(c, p) PROVE TypeInv'
<1>1. plan[c][p] \in Entries /\ ToWrap(plan[c][p])
  BY DEF TypeInv, AttachStdioEntry
<1>2. Wrapped(p.name, plan[c][p]) \in Entries
  BY <1>1, WrappedIs, PlaceIs
<1>3. plan' \in [Cmds -> [Places -> Entries]] /\ changed' \in [Cmds -> SUBSET Files]
  BY <1>2, PlannedTyped DEF AttachStdioEntry
<1>4. mem' \in [Cmds -> Tables] /\ grown' \in [Cmds -> BOOLEAN]
  BY DEF TypeInv, AttachStdioEntry
<1>5. QED
  BY <1>3, <1>4, EntryTyped DEF AttachStdioEntry

\* What the route of a remote entry is, and what becomes of the table in memory.
LEMMA RouteGiven ==
  ASSUME TypeInv, RoutesInv, NEW c \in Cmds, NEW p \in Places, AttachUrlEntry(c, p)
  PROVE  LET e == plan[c][p]
             r == AllocateRoute(mem[c], Sanitize[p.name], e.url)
             u == [mem[c] EXCEPT ![r] = e.url]
         IN  /\ e \in Entries /\ ToRoute(e) /\ job[c].port \in Ports
             /\ r \in Routes /\ u \in Tables /\ u[r] = e.url
             /\ Keeps(mem[c], u) /\ Tidy(u) /\ mem' = [mem EXCEPT ![c] = u]
             /\ (mem[c][r] = e.url => u = mem[c])
             /\ PlanFor(c, p, Routed(e, job[c].port, r))
<1> DEFINE e == plan[c][p]
<1> DEFINE r == AllocateRoute(mem[c], Sanitize[p.name], e.url)
<1> DEFINE u == [mem[c] EXCEPT ![r] = e.url]
<1>1. e \in Entries /\ ToRoute(e)
  BY DEF TypeInv, AttachUrlEntry
<1>2. e.url \in Urls
  BY <1>1, EntryIs DEF ToRoute, IsRemote
<1>3. job[c].port \in Ports
  <2>1. job[c] \in Jobs
    BY DEF TypeInv, AttachUrlEntry, Entry
  <2>2. QED
    BY <2>1 DEF Jobs
<1>4. mem[c] \in Tables /\ Tidy(mem[c]) /\ HasRoute(mem[c], Sanitize[p.name], e.url)
  BY DEF TypeInv, RoutesInv, AttachUrlEntry
<1>5. r \in Routes /\ u \in Tables /\ u[r] = e.url /\ Keeps(mem[c], u) /\ Tidy(u)
  BY <1>2, <1>4, Allocated, PlaceIs
<1>6. mem' = [mem EXCEPT ![c] = u]
  BY DEF AttachUrlEntry
<1>7. mem[c][r] = e.url => u = mem[c]
  BY <1>4 DEF Tables
<1>8. PlanFor(c, p, Routed(e, job[c].port, r))
  BY DEF AttachUrlEntry
<1> HIDE DEF r, u, e
<1>9. QED
  BY <1>1, <1>3, <1>5, <1>6, <1>7, <1>8 DEF r, u, e

LEMMA AttachUrlTyped ==
  ASSUME TypeInv, RoutesInv, NEW c \in Cmds, NEW p \in Places, AttachUrlEntry(c, p)
  PROVE  TypeInv'
<1> DEFINE e == plan[c][p]
<1> DEFINE r == AllocateRoute(mem[c], Sanitize[p.name], e.url)
<1> DEFINE u == [mem[c] EXCEPT ![r] = e.url]
<1> DEFINE w == Routed(e, job[c].port, r)
<1>1. /\ e \in Entries /\ ToRoute(e) /\ job[c].port \in Ports
      /\ r \in Routes /\ u \in Tables /\ u[r] = e.url
      /\ mem' = [mem EXCEPT ![c] = u] /\ PlanFor(c, p, w)
  BY RouteGiven
<1>2. Entry(c, p) /\ grown' = [grown EXCEPT ![c] = @ \/ mem[c][r] # e.url]
  BY DEF AttachUrlEntry
<1> HIDE DEF e, r, u
<1>3. w \in Entries
  BY <1>1, RoutedIs
<1> HIDE DEF w
<1>4. plan' \in [Cmds -> [Places -> Entries]] /\ changed' \in [Cmds -> SUBSET Files]
  BY <1>1, <1>3, PlannedTyped
<1>5. mem' \in [Cmds -> Tables] /\ grown' \in [Cmds -> BOOLEAN]
  BY <1>1, <1>2 DEF TypeInv
<1>6. QED
  BY <1>2, <1>4, <1>5, EntryTyped

LEMMA DetachTyped ==
  ASSUME TypeInv, NEW c \in Cmds, NEW p \in Places, DetachEntry(c, p) PROVE TypeInv'
<1>1. plan[c][p] \in Entries /\ mem[c] \in Tables
  BY DEF TypeInv
<1>2. Detached(plan[c][p], mem[c]) \in Entries
  BY <1>1, DetachedTyped
<1>3. plan' \in [Cmds -> [Places -> Entries]] /\ changed' \in [Cmds -> SUBSET Files]
  BY <1>2, PlannedTyped DEF DetachEntry
<1>4. mem' \in [Cmds -> Tables] /\ grown' \in [Cmds -> BOOLEAN]
  BY DEF TypeInv, DetachEntry
<1>5. QED
  BY <1>3, <1>4, EntryTyped DEF DetachEntry

LEMMA SkipTyped ==
  ASSUME TypeInv, NEW c \in Cmds, NEW p \in Places, SkipEntry(c, p) PROVE TypeInv'
<1>1. /\ plan' \in [Cmds -> [Places -> Entries]] /\ changed' \in [Cmds -> SUBSET Files]
      /\ mem' \in [Cmds -> Tables] /\ grown' \in [Cmds -> BOOLEAN]
  BY DEF TypeInv, SkipEntry
<1>2. QED
  BY <1>1, EntryTyped DEF SkipEntry

LEMMA SavedTyped ==
  ASSUME TypeInv, NEW c \in Cmds, NothingToSave(c) \/ Save(c) PROVE TypeInv'
<1>1. pc' \in [Cmds -> Phases] /\ \A d \in Cmds : pc'[d] # "idle" => pc[d] # "idle"
  BY DEF TypeInv, NothingToSave, Save, Transformed, Phases
<1>2. table' \in Tables /\ damaged' \in BOOLEAN
  <2>1. table \in Tables /\ damaged \in BOOLEAN /\ mem[c] \in Tables
    BY DEF TypeInv
  <2>2. CASE NothingToSave(c)
    BY <2>1, <2>2 DEF NothingToSave, tableVars
  <2>3. CASE Save(c)
    BY <2>1, <2>3 DEF Save
  <2>4. QED
    BY <2>2, <2>3
<1>3. QED
  BY <1>1, <1>2 DEF TypeInv, NothingToSave, Save, fileVars, planVars

LEMMA EndedTyped ==
  ASSUME TypeInv, NEW c \in Cmds, Ended(c), UNCHANGED <<fileVars, tableVars>>
  PROVE  TypeInv'
<1>1. pc' \in [Cmds -> Phases] /\ job' \in [Cmds -> Jobs \cup {NoJob}]
      /\ \A d \in Cmds : pc'[d] # "idle" => job'[d] \in Jobs
  BY DEF TypeInv, Ended, Phases
<1>2. todo' \in [Cmds -> SUBSET Files] /\ left' \in [Cmds -> SUBSET Places]
      /\ changed' \in [Cmds -> SUBSET Files]
  BY DEF TypeInv, Ended
<1>3. plan' \in [Cmds -> [Places -> Entries]] /\ mem' \in [Cmds -> Tables]
  BY NothingIs, NoRoutesIs DEF TypeInv, Ended
<1>4. grown' \in [Cmds -> BOOLEAN] /\ failed' \in [Cmds -> BOOLEAN]
  BY DEF TypeInv, Ended
<1>5. QED
  BY <1>1, <1>2, <1>3, <1>4 DEF TypeInv, Ended, fileVars, tableVars

LEMMA CommitTyped ==
  ASSUME TypeInv, NEW c \in Cmds, NEW f \in Files, CommitFile(c, f) PROVE TypeInv'
<1>1. disk' \in [Places -> Entries]
  BY DEF TypeInv, CommitFile
<1>2. backed' \subseteq Places
  BY DEF TypeInv, CommitFile, BackUp, In
<1>3. changed' \in [Cmds -> SUBSET Files]
  BY DEF TypeInv, CommitFile
<1>4. QED
  BY <1>1, <1>2, <1>3 DEF TypeInv, CommitFile, tableVars

LEMMA CommitFailsTyped ==
  ASSUME TypeInv, NEW c \in Cmds, NEW f \in Files, CommitFails(c, f) PROVE TypeInv'
<1>1. backed' \subseteq Places
  BY DEF TypeInv, CommitFails, BackUp, In
<1>2. changed' \in [Cmds -> SUBSET Files] /\ failed' \in [Cmds -> BOOLEAN]
  BY DEF TypeInv, CommitFails
<1>3. QED
  BY <1>1, <1>2 DEF TypeInv, CommitFails, tableVars

LEMMA UserTyped ==
  ASSUME TypeInv, NEW p \in Places, NEW e \in UserEntries, UserWrites(p, e) PROVE TypeInv'
<1>1. disk' \in [Places -> Entries] /\ mine' \in [Places -> UserEntries]
  BY UsersIs DEF TypeInv, UserWrites
<1>2. QED
  BY <1>1 DEF TypeInv, UserWrites, tableVars, cmdVars, planVars

LEMMA AroundTyped == ASSUME TypeInv, Damage \/ GatewayStarts PROVE TypeInv'
<1>1. gw' \in Tables /\ damaged' \in BOOLEAN /\ table' \in Tables
  BY LoadedTyped DEF TypeInv, Damage, GatewayStarts, tableVars
<1>2. QED
  BY <1>1 DEF TypeInv, Damage, GatewayStarts, fileVars, cmdVars, planVars

LEMMA EndsWith ==
  ASSUME NEW c \in Cmds, SaveFails(c) \/ Exit(c) \/ Kill(c)
  PROVE  Ended(c) /\ UNCHANGED <<fileVars, tableVars>> /\ pc[c] # "idle"
BY DEF SaveFails, Exit, Kill, Transformed, Done

LEMMA StaysTyped == ASSUME TypeInv, RoutesInv, [Next]_vars PROVE TypeInv'
<1>1. ASSUME NEW c \in Cmds, NEW j \in Jobs, Start(c, j) PROVE TypeInv'
  BY <1>1, StartTyped
<1>2. ASSUME NEW c \in Cmds, NEW f \in Files,
             ReadFile(c, f) \/ CommitFile(c, f) \/ CommitFails(c, f)
      PROVE  TypeInv'
  BY <1>2, ReadFileTyped, CommitTyped, CommitFailsTyped
<1>3. ASSUME NEW c \in Cmds, NEW p \in Places,
             \/ AttachStdioEntry(c, p) \/ AttachUrlEntry(c, p)
             \/ DetachEntry(c, p) \/ SkipEntry(c, p)
      PROVE  TypeInv'
  BY <1>3, AttachStdioTyped, AttachUrlTyped, DetachTyped, SkipTyped
<1>4. ASSUME NEW c \in Cmds,
             NothingToSave(c) \/ Save(c) \/ SaveFails(c) \/ Exit(c) \/ Kill(c)
      PROVE  TypeInv'
  BY <1>4, SavedTyped, EndsWith, EndedTyped
<1>5. ASSUME NEW p \in Places, NEW e \in UserEntries, UserWrites(p, e) PROVE TypeInv'
  BY <1>5, UserTyped
<1>6. ASSUME Damage \/ GatewayStarts PROVE TypeInv'
  BY <1>6, AroundTyped
<1>7. CASE UNCHANGED vars
  BY <1>7 DEF TypeInv, vars, fileVars, tableVars, cmdVars, planVars
<1>8. QED
  BY <1>1, <1>2, <1>3, <1>4, <1>5, <1>6, <1>7 DEF Next

-----------------------------------------------------------------------------
(* Whatever overlaps: the backups and the routes.                          *)

LEMMA StaysSafe == ASSUME TypeInv, SafeInv, [Next]_vars PROVE SafeInv'
<1>1. ASSUME UNCHANGED <<disk, mine, backed>> PROVE SafeInv'
  BY <1>1 DEF SafeInv
<1>2. ASSUME NEW c \in Cmds, NEW f \in Files, CommitFile(c, f) PROVE SafeInv'
  <2>1. mine' = mine /\ backed' = backed \cup {p \in In(f) : disk[p] = mine[p]}
    BY <1>2 DEF CommitFile, BackUp
  <2>2. ASSUME NEW p \in Places PROVE disk'[p] = mine'[p] \/ p \in backed'
    <3>1. CASE p \in In(f)
      BY <3>1, <2>1 DEF SafeInv
    <3>2. CASE p \notin In(f)
      BY <3>2, <1>2, <2>1 DEF SafeInv, CommitFile
    <3>3. QED
      BY <3>1, <3>2
  <2>3. QED
    BY <2>2 DEF SafeInv
<1>3. ASSUME NEW c \in Cmds, NEW f \in Files, CommitFails(c, f) PROVE SafeInv'
  <2>1. disk' = disk /\ mine' = mine /\ backed \subseteq backed'
    BY <1>3 DEF CommitFails, BackUp
  <2>2. QED
    BY <2>1 DEF SafeInv
<1>4. ASSUME NEW q \in Places, NEW e \in UserEntries, UserWrites(q, e) PROVE SafeInv'
  <2>1. ASSUME NEW p \in Places PROVE disk'[p] = mine'[p] \/ p \in backed'
    BY <1>4 DEF SafeInv, TypeInv, UserWrites
  <2>2. QED
    BY <2>1 DEF SafeInv
<1>5. ASSUME NEW c \in Cmds, NEW j \in Jobs, Start(c, j) PROVE UNCHANGED <<disk, mine, backed>>
  BY <1>5 DEF Start, fileVars
<1>6. ASSUME NEW c \in Cmds, NEW f \in Files, ReadFile(c, f) PROVE UNCHANGED <<disk, mine, backed>>
  BY <1>6 DEF ReadFile, fileVars
<1>7. ASSUME NEW c \in Cmds, NEW p \in Places,
             \/ AttachStdioEntry(c, p) \/ AttachUrlEntry(c, p)
             \/ DetachEntry(c, p) \/ SkipEntry(c, p)
      PROVE  UNCHANGED <<disk, mine, backed>>
  BY <1>7 DEF AttachStdioEntry, AttachUrlEntry, DetachEntry, SkipEntry, Entry, fileVars
<1>8. ASSUME NEW c \in Cmds,
             NothingToSave(c) \/ Save(c) \/ SaveFails(c) \/ Exit(c) \/ Kill(c)
      PROVE  UNCHANGED <<disk, mine, backed>>
  BY <1>8, EndsWith DEF NothingToSave, Save, fileVars
<1>9. ASSUME Damage \/ GatewayStarts \/ UNCHANGED vars PROVE UNCHANGED <<disk, mine, backed>>
  BY <1>9 DEF Damage, GatewayStarts, vars, fileVars
<1>10. QED
  BY <1>1, <1>2, <1>3, <1>4, <1>5, <1>6, <1>7, <1>8, <1>9 DEF Next

\* The tables of all commands but c stay as they are.
LEMMA OneTable ==
  ASSUME TypeInv, RoutesInv, NEW c \in Cmds, NEW u, Tidy(u), mem' = [mem EXCEPT ![c] = u],
         Tidy(table')
  PROVE  RoutesInv'
<1>1. \A d \in Cmds : mem'[d] = IF d = c THEN u ELSE mem[d]
  BY DEF TypeInv
<1>2. \A d \in Cmds : Tidy(mem'[d])
  BY <1>1 DEF RoutesInv
<1>3. Tidy(table)'
  BY DEF Tidy
<1>4. \A d \in Cmds : Tidy(mem[d])'
  BY <1>2 DEF Tidy
<1>5. QED
  BY <1>3, <1>4 DEF RoutesInv

LEMMA StaysRouted == ASSUME TypeInv, RoutesInv, [Next]_vars PROVE RoutesInv'
<1>1. ASSUME UNCHANGED <<table, mem>> PROVE RoutesInv'
  BY <1>1 DEF RoutesInv, Tidy
<1>2. ASSUME NEW c \in Cmds, NEW j \in Jobs, Start(c, j) PROVE RoutesInv'
  <2>1. Tidy(Loaded)
    BY NoRoutesIs DEF Loaded, RoutesInv
  <2>2. table' = table /\ mem' = [mem EXCEPT ![c] = Loaded]
    BY <1>2 DEF Start, tableVars
  <2>3. Tidy(table')
    BY <2>2 DEF RoutesInv
  <2>4. QED
    BY <2>1, <2>2, <2>3, OneTable
<1>3. ASSUME NEW c \in Cmds, NEW p \in Places, AttachUrlEntry(c, p) PROVE RoutesInv'
  <2>1. \E u : Tidy(u) /\ mem' = [mem EXCEPT ![c] = u]
    BY <1>3, RouteGiven
  <2>2. table' = table
    BY <1>3 DEF AttachUrlEntry, Entry, tableVars
  <2>3. Tidy(table')
    BY <2>2 DEF RoutesInv
  <2>4. QED
    BY <2>1, <2>3, OneTable
<1>4. ASSUME NEW c \in Cmds, Save(c) PROVE RoutesInv'
  <2>1. table' = mem[c] /\ mem' = mem /\ mem' = [mem EXCEPT ![c] = mem[c]]
    BY <1>4 DEF Save, planVars, TypeInv
  <2>2. Tidy(mem[c]) /\ Tidy(table')
    BY <2>1 DEF RoutesInv
  <2>3. QED
    BY <2>1, <2>2, OneTable
<1>5. ASSUME NEW c \in Cmds, SaveFails(c) \/ Exit(c) \/ Kill(c) PROVE RoutesInv'
  <2>1. table' = table /\ mem' = [mem EXCEPT ![c] = NoRoutes]
    BY <1>5, EndsWith DEF Ended, tableVars
  <2>2. Tidy(table')
    BY <2>1 DEF RoutesInv
  <2>3. QED
    BY <2>1, <2>2, NoRoutesIs, OneTable
<1>6. ASSUME NEW c \in Cmds, NEW f \in Files,
             ReadFile(c, f) \/ CommitFile(c, f) \/ CommitFails(c, f)
      PROVE  UNCHANGED <<table, mem>>
  BY <1>6 DEF ReadFile, CommitFile, CommitFails, tableVars
<1>7. ASSUME NEW c \in Cmds, NEW p \in Places,
             AttachStdioEntry(c, p) \/ DetachEntry(c, p) \/ SkipEntry(c, p)
      PROVE  UNCHANGED <<table, mem>>
  BY <1>7 DEF AttachStdioEntry, DetachEntry, SkipEntry, Entry, tableVars
<1>8. ASSUME NEW c \in Cmds, NothingToSave(c) PROVE UNCHANGED <<table, mem>>
  BY <1>8 DEF NothingToSave, tableVars, planVars
<1>9. ASSUME NEW p \in Places, NEW e \in UserEntries, UserWrites(p, e)
      PROVE  UNCHANGED <<table, mem>>
  BY <1>9 DEF UserWrites, tableVars, cmdVars, planVars
<1>10. ASSUME Damage \/ GatewayStarts \/ UNCHANGED vars PROVE UNCHANGED <<table, mem>>
  BY <1>10 DEF Damage, GatewayStarts, vars, tableVars, cmdVars, planVars
<1>11. QED
  BY <1>1, <1>2, <1>3, <1>4, <1>5, <1>6, <1>7, <1>8, <1>9, <1>10 DEF Next

-----------------------------------------------------------------------------
(* The specification, whatever overlaps.                                   *)

SharedInv == TypeInv /\ SafeInv /\ RoutesInv

LEMMA InitShared == Init => SharedInv
<1> SUFFICES ASSUME Init PROVE SharedInv
  OBVIOUS
<1>1. TypeInv
  BY InitTyped
<1>2. SafeInv
  BY DEF Init, SafeInv
<1>3. Tidy(NoRoutes) /\ table = NoRoutes /\ mem = [c \in Cmds |-> NoRoutes]
  BY NoRoutesIs DEF Init
<1>4. RoutesInv
  BY <1>3 DEF RoutesInv
<1>5. QED
  BY <1>1, <1>2, <1>4 DEF SharedInv

LEMMA StaysShared == SharedInv /\ [Next]_vars => SharedInv'
BY StaysTyped, StaysSafe, StaysRouted DEF SharedInv

LEMMA AlwaysShared == Spec => []SharedInv
<1>1. QED
  BY InitShared, StaysShared, PTL DEF Spec

LEMMA SharedRecovers == SharedInv => Recoverable
<1> SUFFICES ASSUME SharedInv, NEW p \in Places
             PROVE  Detached(disk[p], table) = mine[p] \/ p \in backed
  BY DEF Recoverable
<1>1. mine[p] \in UserEntries
  BY DEF SharedInv, TypeInv
<1>2. Detached(mine[p], table) = mine[p]
  BY <1>1, UsersIs, DetachedNotOurs
<1>3. QED
  BY <1>2 DEF SharedInv, SafeInv

\* Whatever overlaps, is killed or fails to write, and whatever becomes of gateway.toml: an
\* entry that detach would not restore is in a backup (clients.rs, run and back_up).
THEOREM AlwaysRecoverable == Spec => []Recoverable
<1>1. QED
  BY AlwaysShared, SharedRecovers, PTL

LEMMA TidyIsOne == SharedInv => OneRoutePerUpstream
<1> SUFFICES ASSUME SharedInv, NEW r \in Routes, NEW s \in Routes,
                    r[1] = s[1], table[r] = table[s], table[r] # None
             PROVE  r = s
  BY DEF OneRoutePerUpstream
<1>1. PICK b \in Bases, n \in 1 .. MaxRoutes : r = <<b, n>>
  BY DEF Routes
<1>2. PICK c \in Bases, m \in 1 .. MaxRoutes : s = <<c, m>>
  BY DEF Routes
<1>3. b = c /\ r[1] = b
  BY <1>1, <1>2
<1>4. n = m
  BY <1>1, <1>2, <1>3 DEF SharedInv, RoutesInv, Tidy
<1>5. QED
  BY <1>1, <1>2, <1>3, <1>4

-----------------------------------------------------------------------------
(* One command at a time.                                                  *)

OrderlySpec == Init /\ [][Next /\ Orderly']_vars

AloneInv == Orderly /\ FilesInv /\ CommandsInv

LEMMA OthersIdle ==
  ASSUME Orderly, NEW c \in Cmds, pc[c] # "idle", NEW d \in Cmds, d # c
  PROVE  pc[d] = "idle"
BY DEF Orderly

\* What a step of c must show of the commands: c itself, the others being idle.
LEMMA OthersStay ==
  ASSUME TypeInv, CommandsInv, NEW c \in Cmds,
         \A d \in Cmds : d # c => /\ pc[d] = "idle" /\ pc'[d] = pc[d] /\ left'[d] = left[d]
                                  /\ changed'[d] = changed[d] /\ grown'[d] = grown[d]
                                  /\ failed'[d] = failed[d] /\ plan'[d] = plan[d],
         IF pc'[c] = "idle" THEN IdleInv(c)' ELSE BusyInv(c)'
  PROVE  CommandsInv'
<1>1. ASSUME NEW d \in Cmds, d # c PROVE pc'[d] = "idle" /\ IdleInv(d)'
  BY <1>1 DEF CommandsInv, IdleInv
<1>2. QED
  BY <1>1 DEF CommandsInv

LEMMA StartAlone ==
  ASSUME TypeInv, AloneInv, NEW c \in Cmds, NEW j \in Jobs, Start(c, j), Orderly'
  PROVE  FilesInv' /\ CommandsInv'
<1>1. FilesInv'
  BY DEF AloneInv, FilesInv, Restorable, Keeps, Start, fileVars, tableVars
<1>2. /\ pc'[c] = "transform" /\ job'[c] = j /\ todo'[c] = Targets(j) /\ mem'[c] = table
      /\ left'[c] = {} /\ changed'[c] = {} /\ ~failed'[c] /\ table' = table
      /\ plan'[c] = [p \in Places |-> Nothing]
  BY DEF AloneInv, Orderly, CommandsInv, IdleInv, TypeInv, Start, Loaded, Targets, tableVars
<1>3. ReadBy(c)' = {}
  BY <1>2 DEF ReadBy, Targets
<1>4. BusyInv(c)'
  <2>1. Keeps(table, mem[c])' /\ (mem[c] = table)'
    BY <1>2 DEF Keeps
  <2>2. (todo[c] \subseteq Targets(job[c]))'
    BY <1>2 DEF Targets
  <2>3. \A p \in Places : plan'[c][p] = Nothing
    BY <1>2
  <2>4. QED
    BY <1>2, <1>3, <2>1, <2>2, <2>3 DEF BusyInv
<1>5. \A d \in Cmds : d # c => /\ pc[d] = "idle" /\ pc'[d] = pc[d] /\ left'[d] = left[d]
                               /\ changed'[d] = changed[d] /\ grown'[d] = grown[d]
                               /\ failed'[d] = failed[d] /\ plan'[d] = plan[d]
  BY <1>2 DEF Orderly, TypeInv, Start
<1>6. QED
  BY <1>1, <1>2, <1>4, <1>5, OthersStay DEF AloneInv

LEMMA BusyIs ==
  ASSUME AloneInv, NEW c \in Cmds, pc[c] # "idle"
  PROVE  BusyInv(c) /\ \A d \in Cmds : d # c => pc[d] = "idle"
BY OthersIdle DEF AloneInv, CommandsInv

\* What is restored is what the user wrote, and so not ours.
LEMMA RestoredLater ==
  ASSUME TypeInv, NEW e \in Entries, NEW p \in Places, NEW t \in Tables, NEW u, Keeps(t, u),
         Detached(e, t) = mine[p]
  PROVE  Detached(e, u) = mine[p]
<1>1. ~IsOurs(mine[p])
  BY UsersIs DEF TypeInv
<1>2. QED
  BY <1>1, Monotone

LEMMA FileIs == ASSUME NEW p \in Places, NEW f PROVE p \in In(f) <=> p.file = f
BY DEF In

LEMMA ReadFileAlone ==
  ASSUME TypeInv, AloneInv, NEW c \in Cmds, NEW f \in Files, ReadFile(c, f)
  PROVE  FilesInv' /\ CommandsInv'
<1>1. FilesInv'
  BY DEF AloneInv, FilesInv, Restorable, Keeps, ReadFile, fileVars, tableVars
<1>2. /\ pc[c] = "transform" /\ left[c] = {} /\ f \in todo[c]
      /\ pc'[c] = pc[c] /\ job'[c] = job[c] /\ todo'[c] = todo[c] \ {f} /\ mem'[c] = mem[c]
      /\ left'[c] = {p \in In(f) : disk[p] # Nothing} /\ changed'[c] = changed[c]
      /\ grown'[c] = grown[c] /\ (~failed'[c] => ~failed[c])
      /\ table' = table /\ disk' = disk /\ mine' = mine /\ health' = health
  BY DEF TypeInv, ReadFile, fileVars, tableVars
<1>3. BusyInv(c) /\ \A d \in Cmds : d # c => pc[d] = "idle"
  BY <1>2, BusyIs
<1>4. f \in Targets(job[c]) /\ f \notin ReadBy(c)
  BY <1>2, <1>3 DEF BusyInv, ReadBy
<1>5. ReadBy(c)' = ReadBy(c) \cup {f}
  BY <1>2, <1>4 DEF ReadBy, Targets
<1>6. \A p \in Places : plan'[c][p] = IF p.file = f THEN disk[p] ELSE plan[c][p]
  <2>1. \A p \in Places :
          plan'[c][p] = IF p.file = f /\ health[f] = "ok" THEN disk[p] ELSE plan[c][p]
    BY FileIs DEF TypeInv, ReadFile
  <2>2. \A p \in Places : p.file = f => plan[c][p] = Nothing
    BY <1>3, <1>4 DEF BusyInv
  <2>3. \A p \in Places : p.file = f /\ health[f] # "ok" => disk[p] = Nothing
    BY DEF AloneInv, FilesInv
  <2>4. QED
    BY <2>1, <2>2, <2>3
<1>7. \A p \in left'[c] : p \in Places /\ p.file = f /\ health[f] = "ok"
  BY <1>2 DEF In, AloneInv, FilesInv
<1>8. \A p \in Places : Detached(disk[p], mem[c]) = mine[p]
  BY <1>3, RestoredLater DEF AloneInv, FilesInv, Restorable, TypeInv, BusyInv
<1>9. ASSUME NEW p \in Places, p.file \in ReadBy(c)'
      PROVE  /\ Detached(plan'[c][p], mem'[c]) = mine'[p]
             /\ (p.file \notin changed'[c] /\ ~failed'[c] => plan'[c][p] = disk'[p])
             /\ (job'[c].op = "attach" /\ p \notin left'[c] =>
                   ~ToWrap(plan'[c][p]) /\ ~ToRoute(plan'[c][p]))
  <2>1. CASE p.file = f
    <3>1. plan'[c][p] = disk[p]
      BY <1>6, <2>1
    <3>2. p \notin left'[c] => disk[p] = Nothing
      BY <1>2, <2>1, FileIs
    <3>3. QED
      BY <1>2, <1>8, <3>1, <3>2, NothingIs
  <2>2. CASE p.file # f
    <3>1. plan'[c][p] = plan[c][p] /\ p.file \in ReadBy(c) /\ p \notin left[c]
      BY <1>2, <1>5, <1>6, <1>9, <2>2
    <3>2. QED
      BY <1>2, <1>3, <3>1 DEF BusyInv
  <2>3. QED
    BY <2>1, <2>2
<1>10. BusyInv(c)'
  <2>1. Keeps(table, mem[c])' /\ (~grown[c] => mem[c] = table)'
    BY <1>2, <1>3 DEF BusyInv, Keeps
  <2>2. (todo[c] \subseteq Targets(job[c]))' /\ (changed[c] \subseteq ReadBy(c))'
    BY <1>2, <1>3, <1>5 DEF BusyInv, Targets
  <2>3. \A p \in left'[c] : p.file \in ReadBy(c)' /\ health'[p.file] = "ok"
    BY <1>2, <1>5, <1>7
  <2>4. \A g \in changed'[c] : health'[g] = "ok"
    BY <1>2, <1>3 DEF BusyInv
  <2>5. \A p \in Places : p.file \notin ReadBy(c)' => plan'[c][p] = Nothing
    BY <1>3, <1>5, <1>6 DEF BusyInv
  <2>6. pc'[c] # "commit"
    BY <1>2
  <2>7. QED
    BY <1>9, <2>1, <2>2, <2>3, <2>4, <2>5, <2>6 DEF BusyInv
<1>11. \A d \in Cmds : d # c => /\ pc[d] = "idle" /\ pc'[d] = pc[d] /\ left'[d] = left[d]
                                /\ changed'[d] = changed[d] /\ grown'[d] = grown[d]
                                /\ failed'[d] = failed[d] /\ plan'[d] = plan[d]
  BY <1>3 DEF TypeInv, ReadFile
<1>12. QED
  BY <1>1, <1>2, <1>10, <1>11, OthersStay DEF AloneInv

\* A step that transforms, or passes, one entry and may add a route in memory.
LEMMA EntryAlone ==
  ASSUME TypeInv, AloneInv, NEW c \in Cmds, NEW p \in Places, Entry(c, p),
         NEW e \in Entries, NEW u \in Tables,
         mem' = [mem EXCEPT ![c] = u], Keeps(mem[c], u),
         grown' \in [Cmds -> BOOLEAN], \A d \in Cmds : d # c => grown'[d] = grown[d],
         ~grown'[c] => ~grown[c] /\ u = mem[c],
         PlanFor(c, p, e) \/ (e = plan[c][p] /\ UNCHANGED <<plan, changed>>),
         Detached(e, u) = mine[p], job[c].op = "attach" => ~ToWrap(e) /\ ~ToRoute(e)
  PROVE  FilesInv' /\ CommandsInv'
<1>1. FilesInv'
  BY DEF AloneInv, FilesInv, Restorable, Keeps, Entry, fileVars, tableVars
<1>2. /\ pc[c] = "transform" /\ p \in left[c]
      /\ pc'[c] = pc[c] /\ job'[c] = job[c] /\ todo'[c] = todo[c]
      /\ left'[c] = left[c] \ {p} /\ failed'[c] = failed[c] /\ mem'[c] = u
      /\ table' = table /\ disk' = disk /\ mine' = mine /\ health' = health
  BY DEF TypeInv, Entry, fileVars, tableVars
<1>3. BusyInv(c) /\ \A d \in Cmds : d # c => pc[d] = "idle"
  BY <1>2, BusyIs
<1>4. p.file \in ReadBy(c) /\ health[p.file] = "ok"
  BY <1>2, <1>3 DEF BusyInv
<1>5. ReadBy(c)' = ReadBy(c)
  BY <1>2 DEF ReadBy, Targets
<1>6. /\ \A q \in Places : plan'[c][q] = IF q = p THEN e ELSE plan[c][q]
      /\ changed[c] \subseteq changed'[c] /\ changed'[c] \subseteq changed[c] \cup {p.file}
      /\ (p.file \notin changed'[c] => e = plan[c][p])
  <2>1. CASE PlanFor(c, p, e)
    BY <2>1 DEF PlanFor, TypeInv
  <2>2. CASE e = plan[c][p] /\ UNCHANGED <<plan, changed>>
    BY <2>2
  <2>3. QED
    BY <2>1, <2>2
<1>7. ASSUME NEW q \in Places, q.file \in ReadBy(c)'
      PROVE  /\ Detached(plan'[c][q], mem'[c]) = mine'[q]
             /\ (q.file \notin changed'[c] /\ ~failed'[c] => plan'[c][q] = disk'[q])
             /\ (job'[c].op = "attach" /\ q \notin left'[c] =>
                   ~ToWrap(plan'[c][q]) /\ ~ToRoute(plan'[c][q]))
  <2>1. /\ Detached(plan[c][q], mem[c]) = mine[q]
        /\ (q.file \notin changed[c] /\ ~failed[c] => plan[c][q] = disk[q])
        /\ (job[c].op = "attach" /\ q \notin left[c] =>
              ~ToWrap(plan[c][q]) /\ ~ToRoute(plan[c][q]))
    BY <1>3, <1>5, <1>7 DEF BusyInv
  <2>2. CASE q = p
    BY <1>2, <1>6, <2>1, <2>2
  <2>3. CASE q # p
    <3>1. plan'[c][q] = plan[c][q] /\ (q \notin left'[c] => q \notin left[c])
      BY <1>2, <1>6, <2>3
    <3>2. plan[c][q] \in Entries /\ mem[c] \in Tables
      BY DEF TypeInv
    <3>3. Detached(plan[c][q], u) = mine[q]
      BY <2>1, <3>2, RestoredLater
    <3>4. QED
      BY <1>2, <1>6, <2>1, <3>1, <3>3
  <2>4. QED
    BY <2>2, <2>3
<1>8. BusyInv(c)'
  <2>1. Keeps(table, u)
    BY <1>3, KeepsAll DEF BusyInv
  <2>2. Keeps(table, mem[c])' /\ (~grown[c] => mem[c] = table)'
    BY <1>2, <1>3, <2>1 DEF BusyInv, Keeps
  <2>3. (todo[c] \subseteq Targets(job[c]))' /\ (changed[c] \subseteq ReadBy(c))'
    BY <1>2, <1>3, <1>4, <1>5, <1>6 DEF BusyInv, Targets
  <2>4. \A q \in left'[c] : q.file \in ReadBy(c)' /\ health'[q.file] = "ok"
    BY <1>2, <1>3, <1>5 DEF BusyInv
  <2>5. \A g \in changed'[c] : health'[g] = "ok"
    BY <1>2, <1>3, <1>4, <1>6 DEF BusyInv
  <2>6. \A q \in Places : q.file \notin ReadBy(c)' => plan'[c][q] = Nothing
    BY <1>3, <1>4, <1>5, <1>6 DEF BusyInv
  <2>7. pc'[c] # "commit"
    BY <1>2
  <2>8. QED
    BY <1>7, <2>2, <2>3, <2>4, <2>5, <2>6, <2>7 DEF BusyInv
<1>9. \A d \in Cmds : d # c => /\ pc[d] = "idle" /\ pc'[d] = pc[d] /\ left'[d] = left[d]
                               /\ changed'[d] = changed[d] /\ grown'[d] = grown[d]
                               /\ failed'[d] = failed[d] /\ plan'[d] = plan[d]
  <2>1. \A d \in Cmds : d # c => changed'[d] = changed[d] /\ plan'[d] = plan[d]
    BY DEF PlanFor, TypeInv
  <2>2. QED
    BY <1>3, <2>1 DEF TypeInv, Entry
<1>10. QED
  BY <1>1, <1>2, <1>8, <1>9, OthersStay DEF AloneInv

\* An entry in hand: what it is to be restored to; and, if attach transforms it, it is that.
LEMMA EntryInHand ==
  ASSUME TypeInv, AloneInv, NEW c \in Cmds, NEW p \in Places, Entry(c, p)
  PROVE  /\ plan[c][p] \in Entries /\ mine[p] \in UserEntries /\ mem[c] \in Tables
         /\ Detached(plan[c][p], mem[c]) = mine[p]
         /\ (~IsOurs(plan[c][p]) => plan[c][p] = mine[p])
<1>1. plan[c][p] \in Entries /\ mine[p] \in UserEntries /\ mem[c] \in Tables
  BY DEF TypeInv
<1>2. BusyInv(c) /\ p \in left[c]
  BY BusyIs DEF Entry
<1>3. Detached(plan[c][p], mem[c]) = mine[p]
  BY <1>2 DEF BusyInv
<1>4. QED
  BY <1>1, <1>3, DetachedNotOurs

LEMMA AttachStdioAlone ==
  ASSUME TypeInv, AloneInv, NEW c \in Cmds, NEW p \in Places, AttachStdioEntry(c, p)
  PROVE  FilesInv' /\ CommandsInv'
<1> DEFINE e == plan[c][p]
<1> DEFINE w == Wrapped(p.name, e)
<1>1. Entry(c, p) /\ ToWrap(e) /\ PlanFor(c, p, w) /\ UNCHANGED <<mem, grown>>
  BY DEF AttachStdioEntry
<1>2. e \in Entries /\ e = mine[p] /\ mem[c] \in Tables /\ e.args # <<>>
  BY <1>1, EntryInHand, UsersIs DEF ToWrap
<1> HIDE DEF e
<1>3. w \in Entries /\ IsOurs(w) /\ Detached(w, mem[c]) = mine[p]
  BY <1>1, <1>2, PlaceIs, WrappedIs, WrapRestored
<1> HIDE DEF w
<1>4. ~ToWrap(w) /\ ~ToRoute(w)
  BY <1>3 DEF ToWrap, ToRoute
<1>5. mem' = [mem EXCEPT ![c] = mem[c]] /\ Keeps(mem[c], mem[c])
  BY <1>1 DEF TypeInv, Keeps
<1>6. grown' \in [Cmds -> BOOLEAN] /\ \A d \in Cmds : grown'[d] = grown[d]
  BY <1>1 DEF TypeInv
<1>7. QED
  BY <1>1, <1>2, <1>3, <1>4, <1>5, <1>6, EntryAlone

LEMMA AttachUrlAlone ==
  ASSUME TypeInv, RoutesInv, AloneInv, NEW c \in Cmds, NEW p \in Places, AttachUrlEntry(c, p)
  PROVE  FilesInv' /\ CommandsInv'
<1> DEFINE e == plan[c][p]
<1> DEFINE r == AllocateRoute(mem[c], Sanitize[p.name], e.url)
<1> DEFINE u == [mem[c] EXCEPT ![r] = e.url]
<1> DEFINE w == Routed(e, job[c].port, r)
<1>1. /\ e \in Entries /\ ToRoute(e) /\ job[c].port \in Ports
      /\ r \in Routes /\ u \in Tables /\ u[r] = e.url /\ Keeps(mem[c], u)
      /\ mem' = [mem EXCEPT ![c] = u] /\ (mem[c][r] = e.url => u = mem[c])
      /\ PlanFor(c, p, w)
  BY RouteGiven
<1>2. Entry(c, p) /\ grown' = [grown EXCEPT ![c] = @ \/ mem[c][r] # e.url]
  BY DEF AttachUrlEntry
<1>3. e = mine[p]
  BY <1>1, <1>2, EntryInHand DEF ToRoute
<1> HIDE DEF e, r, u
<1>4. w \in Entries /\ IsOurs(w) /\ Detached(w, u) = mine[p]
  BY <1>1, <1>3, RoutedIs
<1> HIDE DEF w
<1>5. ~ToWrap(w) /\ ~ToRoute(w)
  BY <1>4 DEF ToWrap, ToRoute
<1>6. /\ grown' \in [Cmds -> BOOLEAN] /\ \A d \in Cmds : d # c => grown'[d] = grown[d]
      /\ (~grown'[c] => ~grown[c] /\ u = mem[c])
  BY <1>1, <1>2 DEF TypeInv
<1>7. QED
  BY <1>1, <1>2, <1>4, <1>5, <1>6, EntryAlone

LEMMA DetachAlone ==
  ASSUME TypeInv, AloneInv, NEW c \in Cmds, NEW p \in Places, DetachEntry(c, p)
  PROVE  FilesInv' /\ CommandsInv'
<1>1. Entry(c, p) /\ job[c].op = "detach" /\ PlanFor(c, p, Detached(plan[c][p], mem[c]))
      /\ UNCHANGED <<mem, grown>>
  BY DEF DetachEntry
<1>2. Detached(plan[c][p], mem[c]) = mine[p] /\ mine[p] \in UserEntries /\ mem[c] \in Tables
  BY <1>1, EntryInHand
<1>3. mine[p] \in Entries /\ Detached(mine[p], mem[c]) = mine[p] /\ PlanFor(c, p, mine[p])
  BY <1>1, <1>2, UsersIs, DetachedNotOurs
<1>4. mem' = [mem EXCEPT ![c] = mem[c]] /\ Keeps(mem[c], mem[c])
  BY <1>1 DEF TypeInv, Keeps
<1>5. grown' \in [Cmds -> BOOLEAN] /\ \A d \in Cmds : grown'[d] = grown[d]
  BY <1>1 DEF TypeInv
<1>6. job[c].op # "attach"
  BY <1>1
<1>7. QED
  BY <1>1, <1>2, <1>3, <1>4, <1>5, <1>6, EntryAlone

LEMMA SkipAlone ==
  ASSUME TypeInv, AloneInv, NEW c \in Cmds, NEW p \in Places, SkipEntry(c, p)
  PROVE  FilesInv' /\ CommandsInv'
<1> DEFINE e == plan[c][p]
<1>1. Entry(c, p) /\ UNCHANGED <<plan, changed, mem, grown>>
      /\ (job[c].op = "attach" => ~ToWrap(e) /\ ~ToRoute(e))
  BY DEF SkipEntry
<1>2. e \in Entries /\ Detached(e, mem[c]) = mine[p] /\ mem[c] \in Tables
  BY <1>1, EntryInHand
<1>3. mem' = [mem EXCEPT ![c] = mem[c]] /\ Keeps(mem[c], mem[c])
  BY <1>1 DEF TypeInv, Keeps
<1>4. grown' \in [Cmds -> BOOLEAN] /\ \A d \in Cmds : grown'[d] = grown[d]
  BY <1>1 DEF TypeInv
<1>5. e = plan[c][p] /\ UNCHANGED <<plan, changed>>
  BY <1>1
<1> HIDE DEF e
<1>6. QED
  BY <1>1, <1>2, <1>3, <1>4, <1>5, EntryAlone

\* A command that turns to the files has its table on disk, unless it is a dry run.
LEMMA SavedAlone ==
  ASSUME TypeInv, AloneInv, NEW c \in Cmds, NothingToSave(c) \/ Save(c)
  PROVE  FilesInv' /\ CommandsInv'
<1>1. /\ pc[c] = "transform" /\ todo[c] = {} /\ left[c] = {} /\ pc'[c] = "commit"
      /\ UNCHANGED <<disk, health, mine, gw, job, todo, left, plan, changed, mem, grown, failed>>
      /\ \A d \in Cmds : d # c => pc'[d] = pc[d]
  BY DEF NothingToSave, Save, Transformed, TypeInv, fileVars, planVars
<1>2. BusyInv(c) /\ \A d \in Cmds : d # c => pc[d] = "idle"
  BY <1>1, BusyIs
<1>3. /\ Keeps(table, table') /\ Keeps(table', mem[c])
      /\ (~job[c].dry => mem[c] = table') /\ (~grown[c] => mem[c] = table')
  <2>1. CASE NothingToSave(c)
    BY <2>1, <1>2 DEF NothingToSave, BusyInv, Keeps, tableVars
  <2>2. CASE Save(c)
    BY <2>2, <1>2 DEF Save, BusyInv, Keeps
  <2>3. QED
    BY <2>1, <2>2
<1>4. FilesInv'
  <2>1. \A p \in Places : Detached(disk[p], table') = mine[p]
    BY <1>3, RestoredLater DEF AloneInv, FilesInv, Restorable, TypeInv
  <2>2. Keeps(gw, table')
    BY <1>3, KeepsAll DEF AloneInv, FilesInv
  <2>3. QED
    BY <1>1, <2>1, <2>2 DEF AloneInv, FilesInv, Restorable, Keeps
<1>5. ReadBy(c)' = ReadBy(c)
  BY <1>1 DEF ReadBy, Targets
<1>6. BusyInv(c)'
  <2>1. Keeps(table, mem[c])'
    BY <1>1, <1>3 DEF Keeps
  <2>2. (todo[c] \subseteq Targets(job[c]))' /\ (changed[c] \subseteq ReadBy(c))'
    BY <1>1, <1>2, <1>5 DEF BusyInv, Targets
  <2>3. \A p \in Places : p.file \in ReadBy(c)' =>
          /\ Detached(plan'[c][p], mem'[c]) = mine'[p]
          /\ (p.file \notin changed'[c] /\ ~failed'[c] => plan'[c][p] = disk'[p])
          /\ (job'[c].op = "attach" /\ p \notin left'[c] =>
                ~ToWrap(plan'[c][p]) /\ ~ToRoute(plan'[c][p]))
    BY <1>1, <1>2, <1>5 DEF BusyInv
  <2>4. \A p \in Places : p.file \notin ReadBy(c)' => plan'[c][p] = Nothing
    BY <1>1, <1>2, <1>5 DEF BusyInv
  <2>5. \A g \in changed'[c] : health'[g] = "ok"
    BY <1>1, <1>2 DEF BusyInv
  <2>6. QED
    BY <1>1, <1>3, <2>1, <2>2, <2>3, <2>4, <2>5 DEF BusyInv
<1>7. QED
  BY <1>1, <1>2, <1>4, <1>6, OthersStay DEF AloneInv

LEMMA EndedAlone ==
  ASSUME TypeInv, AloneInv, NEW c \in Cmds, pc[c] # "idle", Ended(c),
         UNCHANGED <<fileVars, tableVars>>
  PROVE  FilesInv' /\ CommandsInv'
<1>1. FilesInv'
  BY DEF AloneInv, FilesInv, Restorable, Keeps, Ended, fileVars, tableVars
<1>2. pc'[c] = "idle" /\ IdleInv(c)'
  BY DEF TypeInv, Ended, IdleInv
<1>3. \A d \in Cmds : d # c => /\ pc[d] = "idle" /\ pc'[d] = pc[d] /\ left'[d] = left[d]
                               /\ changed'[d] = changed[d] /\ grown'[d] = grown[d]
                               /\ failed'[d] = failed[d] /\ plan'[d] = plan[d]
  BY BusyIs DEF TypeInv, Ended
<1>4. QED
  BY <1>1, <1>2, <1>3, OthersStay DEF AloneInv

\* A client file is replaced by what the table on disk restores.
LEMMA CommitAlone ==
  ASSUME TypeInv, AloneInv, NEW c \in Cmds, NEW f \in Files,
         CommitFile(c, f) \/ CommitFails(c, f)
  PROVE  FilesInv' /\ CommandsInv'
<1>1. /\ pc[c] = "commit" /\ ~job[c].dry /\ f \in changed[c]
      /\ changed' = [changed EXCEPT ![c] = @ \ {f}]
      /\ UNCHANGED <<health, mine, table, damaged, gw, pc, job, todo, left, plan, mem, grown>>
      /\ \A d \in Cmds : d # c => failed'[d] = failed[d]
      /\ (~failed'[c] => ~failed[c])
  BY DEF CommitFile, CommitFails, TypeInv, tableVars
<1>2. BusyInv(c) /\ \A d \in Cmds : d # c => pc[d] = "idle"
  BY <1>1, BusyIs
<1>3. todo[c] = {} /\ left[c] = {} /\ mem[c] = table /\ f \in ReadBy(c) /\ health[f] = "ok"
  BY <1>1, <1>2 DEF BusyInv
<1>4. \/ \A p \in Places : disk'[p] = IF p.file = f THEN plan[c][p] ELSE disk[p]
      \/ failed'[c] /\ disk' = disk
  <2>1. CASE CommitFile(c, f)
    BY <2>1, FileIs DEF CommitFile
  <2>2. CASE CommitFails(c, f)
    BY <2>2 DEF CommitFails, TypeInv
  <2>3. QED
    BY <2>1, <2>2
<1>5. \A p \in Places : p.file = f => Detached(plan[c][p], table) = mine[p]
  BY <1>2, <1>3 DEF BusyInv
<1>6. FilesInv'
  <2>1. \A p \in Places : Detached(disk'[p], table) = mine[p]
    BY <1>4, <1>5 DEF AloneInv, FilesInv, Restorable
  <2>2. \A p \in Places : health[p.file] # "ok" => disk'[p] = Nothing
    BY <1>3, <1>4 DEF AloneInv, FilesInv
  <2>3. Keeps(gw, table)'
    BY <1>1 DEF AloneInv, FilesInv, Keeps
  <2>4. QED
    BY <1>1, <2>1, <2>2, <2>3 DEF FilesInv, Restorable
<1>7. ReadBy(c)' = ReadBy(c)
  BY <1>1 DEF ReadBy, Targets
<1>8. changed'[c] = changed[c] \ {f} /\ \A d \in Cmds : d # c => changed'[d] = changed[d]
  BY <1>1 DEF TypeInv
<1>9. ASSUME NEW p \in Places, p.file \in ReadBy(c)'
      PROVE  /\ Detached(plan'[c][p], mem'[c]) = mine'[p]
             /\ (p.file \notin changed'[c] /\ ~failed'[c] => plan'[c][p] = disk'[p])
             /\ (job'[c].op = "attach" /\ p \notin left'[c] =>
                   ~ToWrap(plan'[c][p]) /\ ~ToRoute(plan'[c][p]))
  <2>1. /\ Detached(plan[c][p], mem[c]) = mine[p]
        /\ (p.file \notin changed[c] /\ ~failed[c] => plan[c][p] = disk[p])
        /\ (job[c].op = "attach" /\ p \notin left[c] =>
              ~ToWrap(plan[c][p]) /\ ~ToRoute(plan[c][p]))
    BY <1>2, <1>7, <1>9 DEF BusyInv
  <2>2. p.file \notin changed'[c] /\ ~failed'[c] => plan[c][p] = disk'[p]
    BY <1>1, <1>4, <1>8, <2>1
  <2>3. QED
    BY <1>1, <2>1, <2>2
<1>10. BusyInv(c)'
  <2>1. Keeps(table, mem[c])'
    BY <1>1, <1>2 DEF BusyInv, Keeps
  <2>2. (todo[c] \subseteq Targets(job[c]))' /\ (changed[c] \subseteq ReadBy(c))'
    BY <1>1, <1>2, <1>7, <1>8 DEF BusyInv, Targets
  <2>3. \A p \in Places : p.file \notin ReadBy(c)' => plan'[c][p] = Nothing
    BY <1>1, <1>2, <1>7 DEF BusyInv
  <2>4. \A g \in changed'[c] : health'[g] = "ok"
    BY <1>1, <1>2, <1>8 DEF BusyInv
  <2>5. QED
    BY <1>1, <1>3, <1>9, <2>1, <2>2, <2>3, <2>4 DEF BusyInv
<1>11. QED
  BY <1>1, <1>2, <1>6, <1>8, <1>10, OthersStay DEF AloneInv

LEMMA UserAlone ==
  ASSUME TypeInv, AloneInv, NEW p \in Places, NEW e \in UserEntries, UserWrites(p, e)
  PROVE  FilesInv' /\ CommandsInv'
<1>1. \A q \in Places : /\ disk'[q] = IF q = p THEN e ELSE disk[q]
                        /\ mine'[q] = IF q = p THEN e ELSE mine[q]
  BY DEF TypeInv, UserWrites
<1>2. table' = table /\ gw' = gw /\ health' = health /\ health[p.file] = "ok"
  BY DEF UserWrites, tableVars
<1>3. Detached(e, table) = e
  BY UsersIs, DetachedNotOurs
<1>4. \A q \in Places : Detached(disk'[q], table) = mine'[q]
  BY <1>1, <1>3 DEF AloneInv, FilesInv, Restorable
<1>5. FilesInv'
  BY <1>1, <1>2, <1>4 DEF AloneInv, FilesInv, Restorable, Keeps
<1>6. \A c \in Cmds : pc[c] = "idle"
  BY DEF UserWrites
<1>7. CommandsInv'
  BY <1>6 DEF AloneInv, CommandsInv, IdleInv, UserWrites, cmdVars, planVars
<1>8. QED
  BY <1>5, <1>7

LEMMA GatewayAlone ==
  ASSUME TypeInv, AloneInv, GatewayStarts \/ UNCHANGED vars
  PROVE  FilesInv' /\ CommandsInv'
<1>1. UNCHANGED <<fileVars, tableVars, cmdVars>> /\ gw' \in {gw, table}
  BY DEF AloneInv, Orderly, GatewayStarts, Loaded, vars
<1>2. Keeps(gw, table)'
  BY <1>1 DEF AloneInv, FilesInv, Keeps, tableVars
<1>3. FilesInv'
  BY <1>1, <1>2 DEF AloneInv, FilesInv, Restorable, fileVars, tableVars
<1>4. /\ UNCHANGED <<disk, health, mine, table, pc, job, todo, left, plan, changed, mem>>
      /\ UNCHANGED <<grown, failed>>
  BY <1>1 DEF fileVars, tableVars, cmdVars, planVars
<1>5. CommandsInv'
  <2>1. ASSUME NEW c \in Cmds PROVE IF pc'[c] = "idle" THEN IdleInv(c)' ELSE BusyInv(c)'
    <3>1. IF pc[c] = "idle" THEN IdleInv(c) ELSE BusyInv(c)
      BY DEF AloneInv, CommandsInv
    <3>2. IdleInv(c)' = IdleInv(c)
      BY <1>4 DEF IdleInv
    <3>3. BusyInv(c)' = BusyInv(c)
      BY <1>4 DEF BusyInv, Keeps, ReadBy, Targets
    <3>4. QED
      BY <1>4, <3>1, <3>2, <3>3
  <2>2. QED
    BY <2>1 DEF CommandsInv
<1>6. QED
  BY <1>3, <1>5

LEMMA StaysAlone ==
  ASSUME TypeInv, RoutesInv, AloneInv, [Next]_vars, Orderly' PROVE AloneInv'
<1> DEFINE Kept == FilesInv' /\ CommandsInv'
<1>1. ASSUME NEW c \in Cmds, NEW j \in Jobs, Start(c, j) PROVE Kept
  BY <1>1, StartAlone
<1>2. ASSUME NEW c \in Cmds, NEW f \in Files,
             ReadFile(c, f) \/ CommitFile(c, f) \/ CommitFails(c, f)
      PROVE  Kept
  BY <1>2, ReadFileAlone, CommitAlone
<1>3. ASSUME NEW c \in Cmds, NEW p \in Places,
             \/ AttachStdioEntry(c, p) \/ AttachUrlEntry(c, p)
             \/ DetachEntry(c, p) \/ SkipEntry(c, p)
      PROVE  Kept
  BY <1>3, AttachStdioAlone, AttachUrlAlone, DetachAlone, SkipAlone
<1>4. ASSUME NEW c \in Cmds,
             NothingToSave(c) \/ Save(c) \/ SaveFails(c) \/ Exit(c) \/ Kill(c)
      PROVE  Kept
  BY <1>4, SavedAlone, EndsWith, EndedAlone
<1>5. ASSUME NEW p \in Places, NEW e \in UserEntries, UserWrites(p, e) PROVE Kept
  BY <1>5, UserAlone
<1>6. ~Damage
  BY DEF Damage, Orderly
<1>7. ASSUME GatewayStarts \/ UNCHANGED vars PROVE Kept
  BY <1>7, GatewayAlone
<1>8. Kept
  BY <1>1, <1>2, <1>3, <1>4, <1>5, <1>6, <1>7 DEF Next
<1>9. QED
  BY <1>8 DEF AloneInv

LEMMA InitAlone == Init => AloneInv
<1> SUFFICES ASSUME Init PROVE AloneInv
  OBVIOUS
<1>1. Orderly
  BY DEF Init, Orderly
<1>2. \A p \in Places : disk[p] \in UserEntries /\ mine[p] = disk[p]
  BY DEF Init
<1>3. Restorable
  BY <1>2, UsersIs, DetachedNotOurs DEF Restorable
<1>4. Keeps(gw, table)
  BY DEF Init, Keeps
<1>5. FilesInv
  BY <1>3, <1>4 DEF Init, FilesInv
<1>6. CommandsInv
  BY DEF Init, CommandsInv, IdleInv
<1>7. QED
  BY <1>1, <1>5, <1>6 DEF AloneInv

LEMMA AloneForwardsHome == ASSUME TypeInv, AloneInv PROVE ForwardsHome
<1> SUFFICES ASSUME NEW p \in Places, IsRemote(disk[p]), IsOurs(disk[p]),
                    gw[disk[p].url.route] # None
             PROVE  gw[disk[p].url.route] = mine[p].url
  BY DEF ForwardsHome
<1> DEFINE e == disk[p]
<1> DEFINE r == e.url.route
<1>1. e \in Entries /\ table \in Tables
  BY DEF TypeInv
<1>2. r \in Routes
  BY <1>1, RouteIs
<1>3. table[r] = gw[r] /\ table[r] # None
  BY <1>2 DEF AloneInv, FilesInv, Keeps
<1>4. ~IsStdio(e) /\ mine[p] = Detached(e, table)
  BY DEF IsRemote, IsStdio, AloneInv, FilesInv, Restorable
<1>5. mine[p] = [e EXCEPT !.url = table[r]]
  BY <1>3, <1>4 DEF Detached
<1> DEFINE v == table[r]
<1>6. mine[p] = [command |-> e.command, args |-> e.args, url |-> v]
  BY <1>1, <1>5, EntryIs
<1> HIDE DEF v
<1>7. mine[p].url = v
  BY <1>6
<1>8. QED
  BY <1>3, <1>7 DEF v

LEMMA AloneExitMeansDone == ASSUME TypeInv, AloneInv PROVE ExitMeansDone
<1> SUFFICES ASSUME NEW c \in Cmds, Done(c), job[c].op = "attach", ~job[c].dry, ~failed[c],
                    NEW p \in Places, p.file = job[c].target \/ job[c].target = All
             PROVE  ~ToWrap(disk[p]) /\ ~ToRoute(disk[p])
  BY DEF ExitMeansDone
<1>1. BusyInv(c) /\ pc[c] = "commit" /\ changed[c] = {}
  BY BusyIs DEF Done
<1>2. p.file \in Targets(job[c])
  BY PlaceIs DEF Targets
<1>3. p.file \in ReadBy(c) /\ p \notin left[c] /\ p.file \notin changed[c]
  BY <1>1, <1>2 DEF BusyInv, ReadBy
<1>4. QED
  BY <1>1, <1>3 DEF BusyInv

\* A route of the table on disk is never given to another URL.
LEMMA AloneKeepsRoutes ==
  ASSUME TypeInv, AloneInv, [Next]_vars
  PROVE  \A r \in Routes : table[r] # None => table'[r] = table[r]
<1>1. ASSUME NEW c \in Cmds, Save(c) PROVE Keeps(table, table')
  <2>1. pc[c] # "idle" /\ table' = mem[c]
    BY <1>1 DEF Save, Transformed
  <2>2. QED
    BY <2>1, BusyIs DEF BusyInv
<1>2. ASSUME table' = table PROVE Keeps(table, table')
  BY <1>2 DEF Keeps
<1>3. ASSUME NEW c \in Cmds, NEW j \in Jobs, Start(c, j) PROVE table' = table
  BY <1>3 DEF Start, tableVars
<1>4. ASSUME NEW c \in Cmds, NEW f \in Files,
             ReadFile(c, f) \/ CommitFile(c, f) \/ CommitFails(c, f)
      PROVE  table' = table
  BY <1>4 DEF ReadFile, CommitFile, CommitFails, tableVars
<1>5. ASSUME NEW c \in Cmds, NEW p \in Places,
             \/ AttachStdioEntry(c, p) \/ AttachUrlEntry(c, p)
             \/ DetachEntry(c, p) \/ SkipEntry(c, p)
      PROVE  table' = table
  BY <1>5 DEF AttachStdioEntry, AttachUrlEntry, DetachEntry, SkipEntry, Entry, tableVars
<1>6. ASSUME NEW c \in Cmds, NothingToSave(c) \/ SaveFails(c) \/ Exit(c) \/ Kill(c)
      PROVE  table' = table
  BY <1>6, EndsWith DEF NothingToSave, tableVars
<1>7. ASSUME NEW p \in Places, NEW e \in UserEntries, UserWrites(p, e) PROVE table' = table
  BY <1>7 DEF UserWrites, tableVars
<1>8. ASSUME Damage \/ GatewayStarts \/ UNCHANGED vars PROVE table' = table
  BY <1>8 DEF Damage, GatewayStarts, vars, tableVars
<1>9. Keeps(table, table')
  BY <1>1, <1>2, <1>3, <1>4, <1>5, <1>6, <1>7, <1>8 DEF Next
<1>10. QED
  BY <1>9 DEF Keeps

LEMMA SharedOrderly == SharedInv /\ AloneInv /\ [Next /\ Orderly']_vars => SharedInv' /\ AloneInv'
<1> SUFFICES ASSUME SharedInv, AloneInv, [Next /\ Orderly']_vars PROVE SharedInv' /\ AloneInv'
  OBVIOUS
<1>1. [Next]_vars /\ Orderly'
  BY DEF AloneInv, Orderly, vars, tableVars, cmdVars
<1>2. QED
  BY <1>1, StaysShared, StaysAlone DEF SharedInv

\* For any places, servers, names and commands: if one command runs at a time and
\* gateway.toml stays readable, detach restores what attach found, an attached client
\* reaches its own server, and an attach that reports success is complete (clients.rs, run).
THEOREM OneAtATimeKeepsItsWord ==
  OrderlySpec => [](Restorable /\ ForwardsHome /\ ExitMeansDone)
<1>1. Init => SharedInv /\ AloneInv
  BY InitShared, InitAlone
<1>2. SharedInv /\ AloneInv => Restorable /\ ForwardsHome /\ ExitMeansDone
  BY AloneForwardsHome, AloneExitMeansDone DEF SharedInv, AloneInv, FilesInv
<1>3. QED
  BY <1>1, <1>2, SharedOrderly, PTL DEF OrderlySpec

-----------------------------------------------------------------------------
(* The worlds of the run.                                                  *)

WorldsInv == SharedInv /\ (world = "alone" => AloneInv)

LEMMA WorldSteps ==
  ASSUME [MCNext]_<<world, vars>>
  PROVE  [Next]_vars /\ world' = world /\ (world = "alone" => [Next /\ Orderly']_vars)
<1>1. CASE MCNext
  BY <1>1 DEF MCNext, Alone, Orderly
<1>2. CASE UNCHANGED <<world, vars>>
  BY <1>2
<1>3. QED
  BY <1>1, <1>2

LEMMA AlwaysWorlds == MCSpec => []WorldsInv
<1>1. MCInit => WorldsInv
  BY InitShared, InitAlone DEF MCInit, WorldsInv
<1>2. WorldsInv /\ [MCNext]_<<world, vars>> => WorldsInv'
  BY WorldSteps, StaysShared, SharedOrderly DEF WorldsInv
<1>3. QED
  BY <1>1, <1>2, PTL DEF MCSpec

\* The same of the run's specification, whose second world leaves the claim out: there
\* commands overlap and gateway.toml may be lost.
THEOREM AlwaysKeepsItsWord == MCSpec => []KeepsItsWord
<1>1. WorldsInv => KeepsItsWord
  BY AloneForwardsHome, AloneExitMeansDone
     DEF WorldsInv, SharedInv, AloneInv, FilesInv, KeepsItsWord
<1>2. QED
  BY <1>1, AlwaysWorlds, PTL

\* And of it too: a backup holds what detach cannot restore, in either world.
THEOREM WorldsRecoverable == MCSpec => []Recoverable
<1>1. WorldsInv => Recoverable
  BY SharedRecovers DEF WorldsInv
<1>2. QED
  BY <1>1, AlwaysWorlds, PTL

\* No step gives an upstream a second route of its name, whatever overlaps, and none
\* changes a recorded route while one command runs at a time (gateway_config.rs,
\* allocate_route and save).
THEOREM RoutesStayStable == MCSpec => RoutesStable
<1> DEFINE OneRoute == OneRoutePerUpstream'
<1> DEFINE Stays == world = "alone" /\ table' # table =>
                      \A r \in Routes : table[r] # None => table'[r] = table[r]
<1>1. WorldsInv /\ WorldsInv' /\ [MCNext]_<<world, vars>> => [OneRoute]_vars
  <2>1. SharedInv' => OneRoutePerUpstream'
    BY TidyIsOne, PTL
  <2>2. QED
    BY <2>1 DEF WorldsInv
<1>2. WorldsInv /\ WorldsInv' /\ [MCNext]_<<world, vars>> => [Stays]_vars
  BY WorldSteps, AloneKeepsRoutes DEF WorldsInv, SharedInv
<1>3. QED
  BY <1>1, <1>2, AlwaysWorlds, PTL DEF MCSpec, RoutesStable

-----------------------------------------------------------------------------
(* The child.                                                              *)

\* There is none before it is spawned nor in a replay over HTTP, and the way out of
\* the exchange is through the teardown.
ChildInv ==
  /\ child \in {"none", "running", "exited", "reaped"}
  /\ phase \in {"lookup", "spawn", "delete"} \cup HttpExchange => child = "none"
  /\ ChildReaped

LEMMA ChildStep == ChildInv /\ [ReplayNext]_exchangeVars => ChildInv'
<1> SUFFICES ASSUME ChildInv, [ReplayNext]_exchangeVars PROVE ChildInv'
  OBVIOUS
<1> USE DEF ChildInv, ChildReaped, HttpExchange, StdioExchange, To, Return
<1>1. CASE LookUp \/ Timeout \/ Leave
  BY <1>1 DEF LookUp, Timeout, Leave
<1>2. CASE Spawn \/ Teardown
  BY <1>2 DEF Spawn, Teardown
<1>3. CASE WriteInit \/ WriteInitialized \/ WriteRaw
  BY <1>3 DEF WriteInit, WriteInitialized, WriteRaw, Write
<1>4. CASE ReadInit \/ ReadAnswer
  BY <1>4 DEF ReadInit, ReadAnswer
<1>5. CASE ConnectionFails \/ GotInit \/ GotInitialized \/ GotRaw
  BY <1>5 DEF ConnectionFails, GotInit, GotInitialized, GotRaw
<1>6. CASE ReadEvent \/ SseEnds \/ Delete
  BY <1>6 DEF ReadEvent, SseEnds, Delete
<1>7. CASE ServerReads \/ ServerAnswers \/ ServerSpeaks
  BY <1>7 DEF ServerReads, ServerAnswers, ServerSpeaks, replayVars
<1>8. CASE ServerExits
  BY <1>8 DEF ServerExits
<1>9. CASE \E status \in {"2xx", "error"}, sse \in BOOLEAN : Upstream(status, sse)
  BY <1>9 DEF Upstream, replayVars
<1>10. CASE UNCHANGED exchangeVars
  BY <1>10 DEF exchangeVars, replayVars
<1>11. QED
  BY <1>1, <1>2, <1>3, <1>4, <1>5, <1>6, <1>7, <1>8, <1>9, <1>10 DEF ReplayNext, ReplayStep

\* A replay that has ended leaves no server process behind, for every message, every
\* server and every bound (replay_stdio's kill on every way out of the exchange).
THEOREM ChildAlwaysReaped == ReplaySpec => []ChildReaped
<1>1. ReplayInit => ChildInv
  BY DEF ReplayInit, ChildInv, ChildReaped, HttpExchange
<1>2. ChildInv => ChildReaped
  BY DEF ChildInv
<1>3. QED
  BY <1>1, <1>2, ChildStep, PTL DEF ReplaySpec

-----------------------------------------------------------------------------
(* The result.                                                             *)

\* With an answer in hand replay is on its way out.
KeptInv == outcome.kind = "ok" => phase \in {"teardown", "delete", "done", "gone"}

LEMMA KeptStep ==
  KeptInv /\ [ReplayNext]_exchangeVars => KeptInv' /\ (outcome.kind = "ok" => outcome' = outcome)
<1> SUFFICES ASSUME KeptInv, [ReplayNext]_exchangeVars
             PROVE  KeptInv' /\ (outcome.kind = "ok" => outcome' = outcome)
  OBVIOUS
<1> USE DEF KeptInv, HttpExchange, StdioExchange, To, Return, Error, Ok
<1>1. CASE LookUp \/ Timeout \/ Leave
  BY <1>1 DEF LookUp, Timeout, Leave
<1>2. CASE Spawn \/ Teardown
  BY <1>2 DEF Spawn, Teardown
<1>3. CASE WriteInit \/ WriteInitialized \/ WriteRaw
  BY <1>3 DEF WriteInit, WriteInitialized, WriteRaw, Write
<1>4. CASE ReadInit \/ ReadAnswer
  BY <1>4 DEF ReadInit, ReadAnswer
<1>5. CASE ConnectionFails \/ GotInit \/ GotInitialized \/ GotRaw
  BY <1>5 DEF ConnectionFails, GotInit, GotInitialized, GotRaw
<1>6. CASE ReadEvent \/ SseEnds \/ Delete
  BY <1>6 DEF ReadEvent, SseEnds, Delete
<1>7. CASE ServerReads \/ ServerAnswers \/ ServerSpeaks \/ ServerExits
  BY <1>7 DEF ServerReads, ServerAnswers, ServerSpeaks, ServerExits, replayVars
<1>8. CASE \E status \in {"2xx", "error"}, sse \in BOOLEAN : Upstream(status, sse)
  BY <1>8 DEF Upstream, replayVars
<1>9. CASE UNCHANGED exchangeVars
  BY <1>9 DEF exchangeVars, replayVars
<1>10. QED
  BY <1>1, <1>2, <1>3, <1>4, <1>5, <1>6, <1>7, <1>8, <1>9 DEF ReplayNext, ReplayStep

\* An answer that replay has read is what it returns: no timer, failure or DELETE
\* replaces it, whatever the server and the network do (replay_http).
THEOREM AnswerSticks == ReplaySpec => AnswerIsKept
<1>1. ReplayInit => KeptInv
  BY DEF ReplayInit, KeptInv, Pending
<1>2. KeptInv /\ [ReplayNext]_exchangeVars => KeptInv'
  BY KeptStep
<1>3. KeptInv /\ [ReplayNext]_exchangeVars => [outcome.kind = "ok" => outcome' = outcome]_exchangeVars
  BY KeptStep
<1>4. QED
  BY <1>1, <1>2, <1>3, PTL DEF ReplaySpec, AnswerIsKept

-----------------------------------------------------------------------------
(* The conversation.                                                       *)

Frames == [kind : {"response", "notification", "request"},
           to : {Handshake, "initialized", "raw", "none"}, id : Nat]

\* A frame on the way to replay is an answer that was given or was sent unasked.
KnownFrame(frame) ==
  \/ \E r \in answered : frame = Answer(r, IF r = "raw" THEN row.id ELSE 0)
  \/ frame = Unasked("notification", 0)
  \/ \E i \in OwnIds : frame = Unasked("request", i)

ReplayTypeInv ==
  /\ row \in Rows
  /\ stdin \in Seq({Handshake, "initialized", "raw"})
  /\ stdout \in Seq(Frames)
  /\ seen \subseteq {Handshake, "initialized", "raw"}
  /\ answered \subseteq seen

StreamInv == \A i \in DOMAIN stdout : KnownFrame(stdout[i])

LEMMA ReplayTypeStep ==
  ReplayTypeInv /\ StreamInv /\ [ReplayNext]_exchangeVars => ReplayTypeInv' /\ StreamInv'
<1> SUFFICES ASSUME ReplayTypeInv, StreamInv, [ReplayNext]_exchangeVars
    PROVE  ReplayTypeInv' /\ StreamInv'
  OBVIOUS
<1> USE DEF ReplayTypeInv, StreamInv, KnownFrame, Handshake
<1>1. CASE UNCHANGED <<row, stdin, stdout, seen, answered>>
  BY <1>1
<1>2. CASE WriteInit \/ WriteInitialized \/ WriteRaw
  <2>1. /\ UNCHANGED <<row, stdout, seen, answered>>
        /\ \/ UNCHANGED stdin
           \/ \E f \in {"initialize", "initialized", "raw"} : stdin' = Append(stdin, f)
    BY <1>2 DEF WriteInit, WriteInitialized, WriteRaw, Write
  <2> DEFINE Sent == {Handshake, "initialized", "raw"}
  <2>2. stdin \in Seq(Sent) /\ "initialize" \in Sent /\ "initialized" \in Sent /\ "raw" \in Sent
    OBVIOUS
  <2> HIDE DEF Sent
  <2>3. stdin' \in Seq(Sent)
    <3>1. ASSUME NEW f \in Sent, stdin' = Append(stdin, f) PROVE stdin' \in Seq(Sent)
      BY <2>2, <3>1, AppendProperties
    <3>2. QED
      BY <2>1, <2>2, <3>1
  <2>4. QED
    BY <2>1, <2>3 DEF Sent
<1>3. CASE ReadInit \/ ReadAnswer \/ ReadEvent
  <2>1. /\ UNCHANGED <<row, stdin, seen, answered>>
        /\ UNCHANGED stdout \/ (stdout # <<>> /\ stdout' = Tail(stdout))
    BY <1>3 DEF ReadInit, ReadAnswer, ReadEvent
  <2>2. CASE stdout # <<>> /\ stdout' = Tail(stdout)
    <3>1. /\ stdout' \in Seq(Frames)
          /\ \A i \in DOMAIN stdout' : i + 1 \in DOMAIN stdout /\ stdout'[i] = stdout[i + 1]
      BY <2>2
    <3>2. QED
      BY <2>1, <3>1
  <2>3. QED
    BY <1>1, <2>1, <2>2
<1>4. CASE GotInit \/ GotInitialized \/ GotRaw \/ Delete
  BY <1>1, <1>4 DEF GotInit, GotInitialized, GotRaw, Delete
<1>5. CASE ServerReads
  <2>1. /\ UNCHANGED <<row, stdout, answered>> /\ stdin # <<>>
        /\ seen' = seen \cup {Head(stdin)} /\ stdin' = Tail(stdin)
    BY <1>5 DEF ServerReads, replayVars
  <2>2. /\ Head(stdin) \in {Handshake, "initialized", "raw"}
        /\ stdin' \in Seq({Handshake, "initialized", "raw"})
    BY <2>1
  <2>3. QED
    BY <2>1, <2>2
<1>6. CASE ServerAnswers
  <2>1. PICK r \in (seen \cap {Handshake, "raw"}) \ answered :
          /\ stdout' = Append(stdout, Answer(r, IF r = "raw" THEN row.id ELSE 0))
          /\ answered' = answered \cup {r}
    BY <1>6 DEF ServerAnswers, Says
  <2>2. UNCHANGED <<row, stdin, seen>>
    BY <1>6 DEF ServerAnswers, replayVars
  <2>3. Answer(r, IF r = "raw" THEN row.id ELSE 0) \in Frames
    BY <2>1, ReplayAssumption DEF Answer, Frames
  <2>4. QED
    BY <2>1, <2>2, <2>3
<1>7. CASE ServerSpeaks
  <2>1. PICK f \in {Unasked("notification", 0)} \cup {Unasked("request", i) : i \in OwnIds} :
          stdout' = Append(stdout, f)
    BY <1>7 DEF ServerSpeaks, Says
  <2>2. UNCHANGED <<row, stdin, seen, answered>>
    BY <1>7 DEF ServerSpeaks, replayVars
  <2>3. f \in Frames
    BY <2>1, ReplayAssumption DEF Unasked, Frames
  <2>4. QED
    BY <2>1, <2>2, <2>3
<1>8. CASE \E status \in {"2xx", "error"}, sse \in BOOLEAN : Upstream(status, sse)
  <2>1. UNCHANGED <<row, stdin, stdout>> /\ answered \subseteq answered'
    BY <1>8 DEF Upstream, replayVars
  <2>2. /\ seen' = seen \cup {Asked}
        /\ answered' \in {answered, answered \cup {Asked}}
    BY <1>8 DEF Upstream
  <2>3. Asked \in {Handshake, "initialized", "raw"}
    BY DEF Asked
  <2>4. QED
    BY <2>1, <2>2, <2>3
<1>9. CASE LookUp \/ Timeout \/ Leave \/ Spawn \/ Teardown \/ ConnectionFails \/ SseEnds
          \/ ServerExits \/ UNCHANGED exchangeVars
  BY <1>1, <1>9 DEF LookUp, Timeout, Leave, Spawn, Teardown, ConnectionFails,
     SseEnds, ServerExits, exchangeVars, replayVars, serverVars
<1>10. QED
  BY <1>2, <1>3, <1>4, <1>5, <1>6, <1>7, <1>8, <1>9 DEF ReplayNext, ReplayStep

LEMMA ReplayTypeStart == ReplayInit => ReplayTypeInv /\ StreamInv
  BY DEF ReplayInit, ReplayTypeInv, StreamInv, Frames

\* What an Append leaves in a pipe.
LEMMA Appended ==
  ASSUME NEW S, NEW s \in Seq(S), NEW e \in S, NEW t, t = Append(s, e)
  PROVE  /\ t \in Seq(S) /\ Len(t) = Len(s) + 1
         /\ \A k \in DOMAIN t :
              (k \in 1 .. Len(s) /\ t[k] = s[k]) \/ (k = Len(s) + 1 /\ t[k] = e)
OBVIOUS

\* Replay is past the handshake.
Shaken == {"write_initialized", "write_raw", "await", "post_initialized", "post_raw", "sse"}

\* A server that is quiet until it has answered initialize has answered it as soon as
\* anything of its can be read.
HandshakeInv ==
  /\ HandshakeFirst
  /\ stdout # <<>> => Handshake \in answered
  /\ phase = "lookup" => reply = NoReply
  /\ phase = "post_init" /\ reply.status = "2xx" => Handshake \in answered
  /\ phase \in Shaken => Handshake \in answered

LEMMA HandshakeStep ==
  ASSUME ~Chatty, ReplayTypeInv, HandshakeInv, [ReplayNext]_exchangeVars PROVE HandshakeInv'
<1> USE DEF HandshakeInv, HandshakeFirst, Handshake, Shaken, To, Return
<1>1. CASE LookUp \/ Timeout \/ Leave \/ Spawn \/ Teardown
  <2>1. UNCHANGED <<stdin, stdout, seen, answered, reply>>
    BY <1>1 DEF LookUp, Timeout, Leave, Spawn, Teardown, serverVars
  <2>2. phase' \notin Shaken \cup {"lookup"} /\ (phase' = "post_init" => phase = "lookup")
    BY <1>1 DEF LookUp, Timeout, Leave, Spawn, Teardown
  <2>3. QED
    BY <2>1, <2>2 DEF NoReply
<1>2. CASE WriteInit \/ WriteInitialized \/ WriteRaw
  <2>1. /\ UNCHANGED <<stdout, seen, answered, reply>>
        /\ phase' \in Shaken => Handshake \in answered
        /\ phase' \notin {"lookup", "post_init"}
    BY <1>2 DEF WriteInit, WriteInitialized, WriteRaw, Write
  <2>2. \/ UNCHANGED stdin
        \/ \E f \in {Handshake, "initialized", "raw"} :
             stdin' = Append(stdin, f) /\ (f = "raw" => Handshake \in answered)
    BY <1>2 DEF WriteInit, WriteInitialized, WriteRaw, Write
  <2>3. \A i \in DOMAIN stdin' : stdin'[i] = "raw" =>
          Handshake \in answered \/ \E j \in DOMAIN stdin : stdin[j] = "raw"
    <3>1. CASE UNCHANGED stdin
      BY <3>1
    <3>2. ASSUME NEW f \in {Handshake, "initialized", "raw"}, stdin' = Append(stdin, f),
                 f = "raw" => Handshake \in answered,
                 NEW i \in DOMAIN stdin', stdin'[i] = "raw"
          PROVE  Handshake \in answered \/ \E j \in DOMAIN stdin : stdin[j] = "raw"
      <4>1. stdin \in Seq({Handshake, "initialized", "raw"})
        BY DEF ReplayTypeInv
      <4>2. \A k \in DOMAIN stdin' :
              \/ k \in 1 .. Len(stdin) /\ stdin'[k] = stdin[k]
              \/ k = Len(stdin) + 1 /\ stdin'[k] = f
        BY <3>2, <4>1, Appended
      <4>3. DOMAIN stdin = 1 .. Len(stdin)
        BY <4>1, LenProperties
      <4>4. QED
        BY <3>2, <4>2, <4>3
    <3>3. QED
      BY <2>2, <3>1, <3>2
  <2>4. HandshakeFirst'
    BY <2>1, <2>3
  <2>5. QED
    BY <2>1, <2>4
<1>3. CASE ReadInit \/ ReadAnswer \/ ReadEvent
  BY <1>3 DEF ReadInit, ReadAnswer, ReadEvent, ReplayTypeInv
<1>4. CASE GotInit \/ GotInitialized \/ GotRaw
  BY <1>4 DEF GotInit, GotInitialized, GotRaw
<1>5. CASE ConnectionFails \/ SseEnds \/ Delete \/ ServerExits
  BY <1>5 DEF ConnectionFails, SseEnds, Delete, ServerExits, serverVars
<1>6. CASE ServerReads
  BY <1>6 DEF ServerReads, ReplayTypeInv, replayVars
<1>7. CASE ServerAnswers
  BY <1>7 DEF ServerAnswers, Says, ReplayTypeInv, replayVars
<1>8. CASE ServerSpeaks
  BY <1>8 DEF ServerSpeaks, Says, ReplayTypeInv, replayVars
<1>9. CASE \E status \in {"2xx", "error"}, sse \in BOOLEAN :
             (sse => phase = "post_raw") /\ Upstream(status, sse)
  BY <1>9 DEF Upstream, Asked, HttpExchange, replayVars
<1>10. CASE UNCHANGED exchangeVars
  BY <1>10 DEF exchangeVars, replayVars, serverVars
<1>11. QED
  BY <1>1, <1>2, <1>3, <1>4, <1>5, <1>6, <1>7, <1>8, <1>9, <1>10 DEF ReplayNext, ReplayStep

\* If servers are quiet until they have answered initialize, no recorded request ever
\* comes to one, or lies in its pipe, before (stdio_exchange, http_exchange).
THEOREM HandshakeAlwaysFirst == ASSUME ~Chatty PROVE ReplaySpec => []HandshakeFirst
<1>1. ReplayInit => HandshakeInv
  BY DEF ReplayInit, HandshakeInv, HandshakeFirst, Shaken, NoReply
<1>2. HandshakeInv => HandshakeFirst
  BY DEF HandshakeInv
<1>3. ReplayTypeInv /\ StreamInv /\ HandshakeInv /\ [ReplayNext]_exchangeVars => HandshakeInv'
  BY HandshakeStep
<1>4. QED
  BY <1>1, <1>2, <1>3, ReplayTypeStart, ReplayTypeStep, PTL DEF ReplaySpec

\* What is being replayed has an id, and an upstream that has answered the request
\* with a body has answered it.
ResultInv ==
  /\ AnswerIsOurs
  /\ phase \in StdioExchange \cup HttpExchange \cup {"spawn"} => row.id # 0
  /\ phase = "post_raw" /\ reply.status = "2xx" /\ ~reply.sse => "raw" \in answered

IdsApart == \A m \in Rows : m.id \notin OwnIds

LEMMA FrameIsOurs ==
  ASSUME IdsApart, ReplayTypeInv, StreamInv, row.id # 0, stdout # <<>>, Matches(Head(stdout))
  PROVE  LET f == Head(stdout) IN f.kind = "response" /\ f.to = "raw" /\ "raw" \in answered
<1>1. 1 \in DOMAIN stdout /\ Head(stdout) = stdout[1]
  BY DEF ReplayTypeInv
<1>2. KnownFrame(Head(stdout))
  BY <1>1 DEF StreamInv
<1>3. Head(stdout).id = row.id /\ row.id \notin OwnIds
  BY DEF Matches, IdsApart, ReplayTypeInv
<1>4. QED
  BY <1>2, <1>3 DEF KnownFrame, Answer, Unasked

LEMMA ResultStep ==
  ASSUME IdsApart, ReplayTypeInv, StreamInv, ResultInv, [ReplayNext]_exchangeVars
  PROVE  ResultInv'
<1> USE DEF ResultInv, AnswerIsOurs, StdioExchange, HttpExchange, To, Return, Ok,
   Error
<1>1. CASE LookUp \/ Timeout \/ Leave \/ Spawn \/ Teardown
  <2>1. UNCHANGED <<row, answered, reply>>
    BY <1>1 DEF LookUp, Timeout, Leave, Spawn, Teardown, serverVars
  <2>2. outcome' = outcome \/ outcome'.kind # "ok"
    BY <1>1 DEF LookUp, Timeout, Leave, Spawn, Teardown
  <2>3. phase' \in StdioExchange \cup HttpExchange \cup {"spawn"} => row.id # 0
    BY <1>1 DEF LookUp, Timeout, Leave, Spawn, Teardown, Replayable
  <2>4. phase' # "post_raw"
    BY <1>1 DEF LookUp, Timeout, Leave, Spawn, Teardown
  <2>5. QED
    BY <2>1, <2>2, <2>3, <2>4
<1>2. CASE WriteInit \/ WriteInitialized \/ WriteRaw
  BY <1>2 DEF WriteInit, WriteInitialized, WriteRaw, Write
<1>3. CASE ReadInit
  BY <1>3 DEF ReadInit
<1>4. CASE ReadAnswer
  BY <1>4, FrameIsOurs DEF ReadAnswer
<1>5. CASE ReadEvent
  BY <1>5, FrameIsOurs DEF ReadEvent
<1>6. CASE GotInit \/ GotInitialized
  BY <1>6 DEF GotInit, GotInitialized, NoReply
<1>7. CASE GotRaw
  BY <1>7 DEF GotRaw, NoReply, Answer
<1>8. CASE ConnectionFails \/ SseEnds \/ Delete
  BY <1>8 DEF ConnectionFails, SseEnds, Delete, serverVars
<1>9. CASE ServerReads \/ ServerSpeaks \/ ServerExits
  BY <1>9 DEF ServerReads, ServerSpeaks, ServerExits, replayVars, serverVars
<1>10. CASE ServerAnswers
  BY <1>10 DEF ServerAnswers, replayVars
<1>11. CASE \E status \in {"2xx", "error"}, sse \in BOOLEAN : Upstream(status, sse)
  BY <1>11 DEF Upstream, Asked, replayVars
<1>12. CASE UNCHANGED exchangeVars
  BY <1>12 DEF exchangeVars, replayVars, serverVars
<1>13. QED
  BY <1>1, <1>2, <1>3, <1>4, <1>5, <1>6, <1>7, <1>8, <1>9, <1>10, <1>11, <1>12
  DEF ReplayNext, ReplayStep

\* If no server gives a request of its own the id of the replayed one, a result with a
\* frame in it has the server's answer to the request (stdio_exchange, GotRaw's body,
\* first_matching_event).
THEOREM AnswerAlwaysOurs == ASSUME IdsApart PROVE ReplaySpec => []AnswerIsOurs
<1>1. ReplayInit => ResultInv
  BY DEF ReplayInit, ResultInv, AnswerIsOurs, Pending, StdioExchange, HttpExchange
<1>2. ResultInv => AnswerIsOurs
  BY DEF ResultInv
<1>3. ReplayTypeInv /\ StreamInv /\ ResultInv /\ [ReplayNext]_exchangeVars => ResultInv'
  BY ResultStep
<1>4. QED
  BY <1>1, <1>2, <1>3, ReplayTypeStart, ReplayTypeStep, PTL DEF ReplaySpec

\* Against servers that keep to the protocol, a replay does: it asks after the handshake,
\* returns the answer to its request, and leaves no child (replay_stdio,
\* stdio_exchange, replay_http).
THEOREM AlwaysOrderly == ASSUME ~Chatty, IdsApart PROVE ReplaySpec => []ReplayIsOrderly
<1>1. AnswerIsOurs /\ HandshakeFirst /\ ChildReaped => ReplayIsOrderly
  BY DEF ReplayIsOrderly
<1>2. QED
  BY <1>1, AnswerAlwaysOurs, HandshakeAlwaysFirst, ChildAlwaysReaped, PTL

-----------------------------------------------------------------------------
(* The page.                                                               *)

\* The requests a hook listens to.
Heard(hook) == {r \in flight : r.hook = hook /\ ~r.aborted}

Request(r) ==
  /\ r = [hook |-> r.hook, of |-> r.of, aborted |-> r.aborted, at |-> r.at,
          answer |-> r.answer]
  /\ r.hook \in Hooks /\ r.at \in {"sent", "served"}

PageTypeInv ==
  /\ begun \in Nat /\ db \subseteq 1 .. begun /\ asked \in 0 .. begun
  /\ list = [data |-> list.data, loading |-> list.loading, error |-> list.error]
  /\ page = [data |-> page.data, loading |-> page.loading, error |-> page.error]
  /\ list.data \subseteq 1 .. begun
  /\ \A r \in flight : Request(r)

\* The page is waited for by the session that is rendered.
PageInv ==
  /\ \A r \in Heard("page") : r.of = route /\ (r.at = "served" => r.answer = {r.of})
  /\ StaleRowsPass

\* One list is waited for, and its answer has every session that is shown and is left.
ListInv ==
  /\ \A r, q \in Heard("list") : r = q
  /\ \A r \in Heard("list") : r.at = "served" =>
       /\ r.answer \subseteq 1 .. begun
       /\ list.data \cap db \subseteq r.answer

\* Nor does it lack the session that was chosen.
ChoiceInv == browser.prompt /\ ~browser.links =>
  /\ KeptChoice
  /\ asked # 0 /\ asked \in db =>
       /\ list.data = {} \/ asked \in list.data
       /\ \A r \in Heard("list") : r.at = "served" => asked \in r.answer

ShownInv == PageTypeInv /\ PageInv /\ ListInv /\ ChoiceInv

LEMMA InvStart == ASSUME ViewerInit PROVE ShownInv
<1>1. \A r \in flight : r = Fetch("list", 0) \/ (r = Fetch("page", route) /\ route # 0)
  BY DEF ViewerInit
<1>2. \A r \in flight : /\ r.at = "sent" /\ (r.hook = "page" => r.of = route)
                        /\ (r.hook = "list" => r = Fetch("list", 0))
  BY <1>1 DEF Fetch
<1>3. begun \in Nat /\ db = 1 .. begun /\ list = Loading(Cleared) /\ list.data = {}
  BY DEF ViewerInit, Loading, Cleared, NoData
<1>4. page = [data |-> {}, loading |-> route # 0, error |-> FALSE]
  BY DEF ViewerInit, Loading, Cleared, NoData
<1>5. asked = (IF hash \in db THEN hash ELSE 0) /\ route = hash
  BY DEF ViewerInit
<1>6. PageTypeInv
  <2>1. \A r \in flight : Request(r)
    BY <1>1 DEF Fetch, Request, Hooks
  <2>2. list = [data |-> {}, loading |-> TRUE, error |-> FALSE]
    BY <1>3 DEF Loading, Cleared, NoData
  <2>3. asked \in 0 .. begun
    BY <1>3, <1>5
  <2>4. QED
    BY <1>3, <1>4, <2>1, <2>2, <2>3 DEF PageTypeInv
<1>7. PageInv
  <2>1. route # 0 => Fetch("page", route) \in flight
    BY DEF ViewerInit
  <2>2. Fetch("page", route).hook = "page" /\ Fetch("page", route).of = route
        /\ ~Fetch("page", route).aborted
    BY DEF Fetch
  <2>3. StaleRowsPass
    BY <2>1, <2>2 DEF StaleRowsPass
  <2>4. QED
    BY <1>2, <2>3 DEF PageInv, Heard
<1>8. ListInv
  BY <1>2 DEF ListInv, Heard
<1>9. ChoiceInv
  BY <1>2, <1>3, <1>5 DEF ChoiceInv, KeptChoice, Heard
<1>10. QED
  BY <1>6, <1>7, <1>8, <1>9 DEF ShownInv

\* What an abort, and a new request after it, leave to be heard.
LEMMA AbortedAre ==
  ASSUME NEW hook, NEW fs, \A r \in fs : Request(r)
  PROVE  \A r \in Aborted(fs, hook) :
           Request(r) /\ (r.aborted \/ (r \in fs /\ r.hook # hook))
<1>1. ASSUME NEW r \in Aborted(fs, hook)
      PROVE  (r \in fs /\ r.hook # hook) \/ \E q \in fs : r = [q EXCEPT !.aborted = TRUE]
  BY DEF Aborted
<1>2. ASSUME NEW q \in fs, NEW r, r = [q EXCEPT !.aborted = TRUE]
      PROVE  Request(r) /\ r.aborted
  <2>1. /\ q = [hook |-> q.hook, of |-> q.of, aborted |-> q.aborted, at |-> q.at,
                answer |-> q.answer]
        /\ q.hook \in Hooks /\ q.at \in {"sent", "served"}
    BY DEF Request
  <2>2. r = [hook |-> q.hook, of |-> q.of, aborted |-> TRUE, at |-> q.at,
             answer |-> q.answer]
    BY <1>2, <2>1
  <2>3. QED
    BY <2>1, <2>2 DEF Request
<1>3. QED
  BY <1>1, <1>2

LEMMA RestartedAre ==
  ASSUME NEW hook \in Hooks, NEW of, NEW fs, \A r \in fs : Request(r)
  PROVE  \A r \in Restarted(fs, hook, of) :
           /\ Request(r)
           /\ r.aborted \/ (r \in fs /\ r.hook # hook) \/ r = Fetch(hook, of)
<1>1. Request(Fetch(hook, of))
  BY DEF Request, Fetch
<1>2. QED
  BY <1>1, AbortedAre DEF Restarted

-----------------------------------------------------------------------------
(* The server and the user: the requests stand still, or one is answered.  *)

LEMMA ServeStep == ASSUME ShownInv, NEW r \in flight, Serve(r) PROVE ShownInv'
<1> DEFINE a == IF r.hook = "list" THEN db ELSE {r.of}
           n == [r EXCEPT !.at = "served", !.answer = a]
<1>1. /\ r.at = "sent" /\ flight' = (flight \ {r}) \cup {n}
      /\ UNCHANGED <<browser, db, begun, hash, route, asked, list, page>>
  BY DEF Serve
<1>2. /\ Request(n) /\ n.hook = r.hook /\ n.of = r.of /\ n.aborted = r.aborted
      /\ n.at = "served" /\ n.answer = a
  <2>1. r = [hook |-> r.hook, of |-> r.of, aborted |-> r.aborted, at |-> r.at,
             answer |-> r.answer]
    BY DEF ShownInv, PageTypeInv, Request
  <2> HIDE DEF a
  <2>2. n = [hook |-> r.hook, of |-> r.of, aborted |-> r.aborted, at |-> "served", answer |-> a]
    <3> DEFINE F == {"hook", "of", "aborted", "at", "answer"}
    <3>1. DOMAIN r = F
      BY <2>1
    <3>2. n = [f \in F |-> IF f = "answer" THEN a ELSE IF f = "at" THEN "served" ELSE r[f]]
      BY <3>1
    <3>3. QED
      BY <3>2
  <2>3. QED
    BY <2>2 DEF ShownInv, PageTypeInv, Request
<1> HIDE DEF n
<1>3. PageTypeInv'
  BY <1>1, <1>2 DEF ShownInv, PageTypeInv
<1>4. \A q \in flight' : q \in flight \/ q = n
  BY <1>1
<1>5. PageInv'
  <2>1. \A q \in Heard("page")' : q.of = route /\ (q.at = "served" => q.answer = {q.of})
    BY <1>2, <1>4 DEF ShownInv, PageInv, Heard
  <2>2. \A q \in flight : (q \in flight' \/ q = r) /\ n \in flight'
    BY <1>1
  <2>3. StaleRowsPass'
    BY <1>1, <1>2, <2>2 DEF ShownInv, PageInv, StaleRowsPass
  <2>4. QED
    BY <1>1, <2>1, <2>3 DEF PageInv
<1>6. ListInv'
  <2>1. \A q, o \in Heard("list")' : q = o
    BY <1>1, <1>2 DEF ShownInv, ListInv, Heard
  <2>2. \A q \in Heard("list")' : q.at = "served" =>
          q.answer \subseteq 1 .. begun /\ list.data \cap db \subseteq q.answer
    BY <1>2, <1>4 DEF ShownInv, ListInv, PageTypeInv, Heard
  <2>3. QED
    BY <1>1, <2>1, <2>2 DEF ListInv
<1>7. ChoiceInv'
  BY <1>1, <1>2, <1>4 DEF ShownInv, ChoiceInv, KeptChoice, Heard
<1>8. QED
  BY <1>3, <1>5, <1>6, <1>7 DEF ShownInv

\* A request that nobody listens to any more is gone.
LEMMA ForgetStep == ASSUME ShownInv, NEW r \in flight, Forget(r) PROVE ShownInv'
<1>1. /\ flight' \subseteq flight
      /\ UNCHANGED <<browser, db, begun, hash, route, asked, list, page>>
      /\ \A q \in flight : q \in flight' \/ q.aborted
  BY DEF Forget
<1>2. StaleRowsPass'
  BY <1>1 DEF ShownInv, PageInv, StaleRowsPass
<1>3. PageTypeInv' /\ PageInv' /\ ListInv' /\ ChoiceInv'
  BY <1>1, <1>2 DEF ShownInv, PageTypeInv, PageInv, ListInv, ChoiceInv, KeptChoice, Heard
<1>4. QED
  BY <1>3 DEF ShownInv

\* Sessions come under new ids, and go.
LEMMA SessionStep ==
  ASSUME ShownInv, BeginSession \/ \E id \in Ids : Vanish(id) PROVE ShownInv'
<1>1. /\ begun' \in {begun, begun + 1} /\ begun \in Nat
      /\ db' \subseteq db \cup (begun + 1) .. begun'
      /\ UNCHANGED <<browser, hash, route, asked, list, page, flight>>
  BY DEF BeginSession, Vanish, ShownInv, PageTypeInv
<1>2. 1 .. begun \subseteq 1 .. begun' /\ (begun + 1) .. begun' \subseteq 1 .. begun'
  BY <1>1
<1>3. \A id \in 1 .. begun : id \in db' => id \in db
  BY <1>1
<1>4. PageTypeInv'
  <2>1. asked \in 0 .. begun'
    BY <1>1 DEF ShownInv, PageTypeInv
  <2>2. QED
    BY <1>1, <1>2, <2>1 DEF ShownInv, PageTypeInv
<1>5. PageInv'
  BY <1>1 DEF ShownInv, PageInv, StaleRowsPass, Heard
<1>6. ListInv'
  BY <1>1, <1>2, <1>3 DEF ShownInv, ListInv, PageTypeInv, Heard
<1>7. ChoiceInv'
  <2>1. asked # 0 /\ asked \in db' => asked \in db
    BY <1>1, <1>3 DEF ShownInv, PageTypeInv
  <2>2. QED
    BY <1>1, <2>1 DEF ShownInv, ChoiceInv, KeptChoice, Heard
<1>8. QED
  BY <1>4, <1>5, <1>6, <1>7 DEF ShownInv

\* Who picks from the list picks what the next list has, unless it is deleted.
LEMMA PickStep ==
  ASSUME ShownInv, NEW id \in Ids, Select(id) \/ Follow(id) PROVE ShownInv'
<1>1. /\ asked' = id /\ hash' = id
      /\ UNCHANGED <<browser, db, begun, route, list, page, flight>>
      /\ id \in list.data \/ (browser.links /\ id \in db)
  BY DEF Select, Follow
<1>2. PageTypeInv' /\ PageInv' /\ ListInv'
  BY <1>1 DEF ShownInv, PageTypeInv, PageInv, ListInv, StaleRowsPass, Heard
<1>3. ChoiceInv'
  BY <1>1 DEF ShownInv, ListInv, ChoiceInv, KeptChoice, Heard
<1>4. QED
  BY <1>2, <1>3 DEF ShownInv

-----------------------------------------------------------------------------
(* The hooks.                                                              *)

LEMMA LoadingIs ==
  ASSUME NEW api, api = [data |-> api.data, loading |-> api.loading, error |-> api.error]
  PROVE  Loading(api) = [data |-> api.data, loading |-> TRUE, error |-> FALSE]
<1>1. DOMAIN api = {"data", "loading", "error"}
  OBVIOUS
<1>2. Loading(api) = [f \in {"data", "loading", "error"} |->
        IF f = "error" THEN FALSE ELSE IF f = "loading" THEN TRUE ELSE api[f]]
  BY <1>1 DEF Loading
<1>3. QED
  BY <1>2

\* A list that is asked for again, and perhaps the page too.
LEMMA RefetchStep ==
  ASSUME ShownInv, UNCHANGED <<browser, begun, hash, route, asked>>, db' \subseteq db,
         list' = Loading(list),
         \/ page' = page /\ flight' = Restarted(flight, "list", 0)
         \/ /\ page' = Loading(page)
            /\ flight' = Restarted(Restarted(flight, "list", 0), "page", route)
  PROVE  ShownInv'
<1>1. list' = [data |-> list.data, loading |-> TRUE, error |-> FALSE]
  BY LoadingIs DEF ShownInv, PageTypeInv
<1>2. \A r \in flight' : /\ Request(r)
                         /\ \/ r.aborted \/ (r \in flight /\ r.hook = "page")
                            \/ r = Fetch("list", 0) \/ r = Fetch("page", route)
  <2> DEFINE fs == Restarted(flight, "list", 0)
  <2>1. \A r \in fs : Request(r) /\ (r.aborted \/ (r \in flight /\ r.hook # "list")
                                     \/ r = Fetch("list", 0))
    BY RestartedAre DEF ShownInv, PageTypeInv, Hooks
  <2> HIDE DEF fs
  <2>2. \A r \in Restarted(fs, "page", route) :
          Request(r) /\ (r.aborted \/ r \in fs \/ r = Fetch("page", route))
    BY <2>1, RestartedAre DEF Hooks
  <2>3. flight' = fs \/ flight' = Restarted(fs, "page", route)
    BY DEF fs
  <2>4. QED
    BY <2>1, <2>2, <2>3 DEF Request, Hooks
<1>3. page' = page \/ page' = [data |-> page.data, loading |-> TRUE, error |-> FALSE]
  BY LoadingIs DEF ShownInv, PageTypeInv
<1>4. PageTypeInv'
  BY <1>1, <1>2, <1>3 DEF ShownInv, PageTypeInv
<1>5. /\ Fetch("page", route).of = route /\ Fetch("page", route).hook = "page"
      /\ Fetch("page", route).at = "sent" /\ Fetch("list", 0).at = "sent"
      /\ Fetch("list", 0).hook = "list"
  BY DEF Fetch
<1>6. PageInv'
  <2>1. \A r \in Heard("page")' : r.of = route /\ (r.at = "served" => r.answer = {r.of})
    BY <1>2, <1>5 DEF ShownInv, PageInv, Heard
  <2>2. CASE page' = page /\ flight' = Restarted(flight, "list", 0)
    <3>1. \A q \in flight : q.hook = "page" => q \in flight'
      BY <2>2 DEF Restarted, Aborted
    <3>2. StaleRowsPass'
      BY <2>2, <3>1 DEF ShownInv, PageInv, StaleRowsPass
    <3>3. QED
      BY <2>1, <3>2 DEF PageInv
  <2>3. CASE flight' = Restarted(Restarted(flight, "list", 0), "page", route)
    <3>1. Fetch("page", route) \in flight' /\ ~Fetch("page", route).aborted
      BY <2>3 DEF Restarted, Fetch
    <3>2. StaleRowsPass'
      BY <1>5, <3>1 DEF StaleRowsPass
    <3>3. QED
      BY <2>1, <3>2 DEF PageInv
  <2>4. QED
    BY <2>2, <2>3
<1>7. ListInv' /\ ChoiceInv'
  <2>1. \A r \in Heard("list")' : r = Fetch("list", 0)
    BY <1>2, <1>5 DEF Heard
  <2>2. QED
    BY <1>1, <1>5, <2>1 DEF ShownInv, ListInv, ChoiceInv, KeptChoice
<1>8. QED
  BY <1>4, <1>6, <1>7 DEF ShownInv

\* The route follows the hash, and no list moves it from what was chosen.
LEMMA HashStep == ASSUME ShownInv, HashChange PROVE ShownInv'
<1>1. /\ route' = hash /\ UNCHANGED <<browser, db, begun, asked, list>>
      /\ hash' = Healed(list.data, hash, hash)
      /\ \/ hash = 0 /\ page' = Cleared /\ flight' = Aborted(flight, "page")
         \/ page' = Loading(page) /\ flight' = Restarted(flight, "page", hash)
  BY DEF HashChange
<1>2. \A r \in flight' : /\ Request(r)
                         /\ \/ r.aborted \/ (r \in flight /\ r.hook = "list")
                            \/ r = Fetch("page", hash)
  BY <1>1, AbortedAre, RestartedAre DEF ShownInv, PageTypeInv, Hooks, Request
<1>3. \/ hash = 0 /\ page' = [data |-> {}, loading |-> FALSE, error |-> FALSE]
      \/ page' = [data |-> page.data, loading |-> TRUE, error |-> FALSE]
  BY <1>1, LoadingIs DEF ShownInv, PageTypeInv, Cleared, NoData
<1>4. PageTypeInv'
  BY <1>1, <1>2, <1>3 DEF ShownInv, PageTypeInv
<1>5. /\ Fetch("page", hash).of = hash /\ Fetch("page", hash).hook = "page"
      /\ Fetch("page", hash).at = "sent"
  BY DEF Fetch
<1>6. PageInv'
  <2>1. \A r \in Heard("page")' : r.of = hash /\ r.at = "sent"
    BY <1>2, <1>5 DEF Heard
  <2>2. hash # 0 => Fetch("page", hash) \in flight' /\ ~Fetch("page", hash).aborted
    BY <1>1 DEF Restarted, Fetch
  <2>3. StaleRowsPass'
    BY <1>1, <1>5, <2>2 DEF StaleRowsPass
  <2>4. QED
    BY <1>1, <2>1, <2>3 DEF PageInv
<1>7. \A r \in Heard("list")' : r \in Heard("list")
  BY <1>2, <1>5 DEF Heard
<1>8. ListInv'
  BY <1>1, <1>7 DEF ShownInv, ListInv
<1>9. ChoiceInv'
  <2> SUFFICES ASSUME browser.prompt, ~browser.links, asked # 0, asked \in db
      PROVE  /\ hash' = asked
             /\ list.data = {} \/ asked \in list.data
             /\ \A r \in Heard("list") : r.at = "served" => asked \in r.answer
    BY <1>1, <1>7 DEF ChoiceInv, KeptChoice
  <2>1. hash = asked /\ (list.data = {} \/ asked \in list.data)
    BY DEF ShownInv, ChoiceInv, KeptChoice
  <2>2. QED
    BY <1>1, <2>1 DEF ShownInv, ChoiceInv, Healed, NoData
<1>10. QED
  BY <1>4, <1>6, <1>8, <1>9 DEF ShownInv

\* A request that is heard comes back, or fails.
LEMMA ArriveStep == ASSUME ShownInv, NEW r \in flight, Arrive(r) PROVE ShownInv'
<1>1. /\ flight' = flight \ {r} /\ Turn /\ r.at = "served" /\ ~r.aborted
      /\ UNCHANGED <<browser, db, begun, route, asked>>
  BY DEF Arrive
<1>2. \A hook \in Hooks : Heard(hook)' \subseteq Heard(hook)
  BY <1>1 DEF Heard
<1>3. CASE r.hook = "list"
  <2>1. /\ list' = [data |-> r.answer, loading |-> FALSE, error |-> FALSE]
        /\ hash' = Healed(r.answer, route, hash) /\ page' = page
    BY <1>3 DEF Arrive
  <2>2. r \in Heard("list") /\ Heard("list")' = {} /\ r.answer \subseteq 1 .. begun
    BY <1>1, <1>3 DEF Heard, ShownInv, ListInv
  <2>3. PageTypeInv'
    BY <1>1, <2>1, <2>2 DEF ShownInv, PageTypeInv
  <2>4. PageInv'
    <3>1. StaleRowsPass'
      BY <1>1, <1>3, <2>1 DEF ShownInv, PageInv, StaleRowsPass
    <3>2. QED
      BY <1>1, <1>2, <3>1 DEF ShownInv, PageInv, Hooks
  <2>5. ListInv'
    BY <2>2 DEF ListInv
  <2>6. ChoiceInv'
    <3> SUFFICES ASSUME browser.prompt, ~browser.links, asked # 0, asked \in db
        PROVE  hash' = asked /\ asked \in list'.data
      BY <1>1, <2>2 DEF ChoiceInv, KeptChoice
    <3>1. asked \in r.answer /\ hash = asked /\ hash = route
      BY <1>1, <2>2 DEF ShownInv, ChoiceInv, KeptChoice, Turn
    <3>2. QED
      BY <2>1, <3>1 DEF Healed
  <2>7. QED
    BY <2>3, <2>4, <2>5, <2>6 DEF ShownInv
<1>4. CASE r.hook # "list"
  <2>1. /\ page' = [data |-> r.answer, loading |-> FALSE, error |-> FALSE]
        /\ list' = list /\ hash' = hash
    BY <1>4 DEF Arrive
  <2>2. r.answer = {route}
    BY <1>1, <1>4 DEF ShownInv, PageTypeInv, PageInv, Heard, Request, Hooks
  <2>3. PageTypeInv'
    BY <1>1, <2>1 DEF ShownInv, PageTypeInv
  <2>4. PageInv' /\ ListInv' /\ ChoiceInv'
    BY <1>1, <1>2, <2>1, <2>2
    DEF ShownInv, PageInv, StaleRowsPass, ListInv, ChoiceInv, KeptChoice, Hooks
  <2>5. QED
    BY <2>3, <2>4 DEF ShownInv
<1>5. QED
  BY <1>3, <1>4

LEMMA FailStep == ASSUME ShownInv, NEW r \in flight, Fail(r) PROVE ShownInv'
<1>1. /\ flight' \subseteq flight /\ UNCHANGED <<browser, db, begun, hash, route, asked>>
      /\ \/ page' = page
            /\ list' = [list EXCEPT !.loading = FALSE, !.error = TRUE]
         \/ list' = list
            /\ page' = [page EXCEPT !.loading = FALSE, !.error = TRUE]
  BY DEF Fail
<1>2. \/ page' = page /\ list' = [data |-> list.data, loading |-> FALSE, error |-> TRUE]
      \/ list' = list /\ page' = [data |-> page.data, loading |-> FALSE, error |-> TRUE]
  BY <1>1 DEF ShownInv, PageTypeInv
<1>3. list'.data = list.data /\ \A hook \in Hooks : Heard(hook)' \subseteq Heard(hook)
  BY <1>1, <1>2 DEF Heard
<1>4. PageTypeInv'
  BY <1>1, <1>2 DEF ShownInv, PageTypeInv
<1>5. StaleRowsPass'
  <2>1. CASE r.hook = "list"
    <3>1. page' = page /\ \A q \in flight : q \in flight' \/ q = r
      BY <2>1 DEF Fail
    <3>2. QED
      BY <1>1, <2>1, <3>1 DEF ShownInv, PageInv, StaleRowsPass
  <2>2. CASE r.hook # "list"
    <3>1. page' = [page EXCEPT !.loading = FALSE, !.error = TRUE]
      BY <2>2 DEF Fail
    <3>2. page'.error
      BY <3>1 DEF ShownInv, PageTypeInv
    <3>3. QED
      BY <3>2 DEF StaleRowsPass
  <2>3. QED
    BY <2>1, <2>2
<1>6. PageInv' /\ ListInv' /\ ChoiceInv'
  BY <1>1, <1>2, <1>3, <1>5 DEF ShownInv, PageInv, ListInv, ChoiceInv, KeptChoice, Hooks
<1>7. QED
  BY <1>4, <1>6 DEF ShownInv

-----------------------------------------------------------------------------
\* Rows of another session than the selected one are only there while the answer for the
\* selected one is awaited, or its failure is told; and in a browser that renders a
\* changed hash at once, the session its user picked from the list stays selected while
\* it exists, whatever is polled, aborted, begun or deleted (useApi, and the effect of
\* App.tsx that heals the selection).
THEOREM ShownStaysChosen == ViewerSpec => []ShownIsChosen
<1>1. ShownInv /\ [ViewerNext]_viewerVars => ShownInv'
  <2> SUFFICES ASSUME ShownInv, [ViewerNext]_viewerVars PROVE ShownInv'
    OBVIOUS
  <2>1. CASE UNCHANGED viewerVars
    <3>1. PageTypeInv' /\ PageInv' /\ ListInv' /\ ChoiceInv'
      BY <2>1 DEF viewerVars, ShownInv, PageTypeInv, PageInv, ListInv, ChoiceInv, KeptChoice,
                  StaleRowsPass, Heard
    <3>2. QED
      BY <3>1 DEF ShownInv
  <2>2. CASE Tick \/ \E id \in Ids : DeleteSession(id)
    BY <2>2, RefetchStep DEF Tick, DeleteSession
  <2>3. QED
    BY <2>1, <2>2, ServeStep, ForgetStep, SessionStep, PickStep, HashStep, ArriveStep,
       FailStep DEF ViewerNext
<1>2. ShownInv => ShownIsChosen
  BY DEF ShownInv, PageInv, ChoiceInv, ShownIsChosen, ChoiceKept
<1>3. ViewerInit => ShownInv
  BY InvStart
<1>4. QED
  BY <1>1, <1>2, <1>3, PTL DEF ViewerSpec
=============================================================================
