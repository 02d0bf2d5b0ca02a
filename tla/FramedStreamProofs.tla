-------------------------- MODULE FramedStreamProofs --------------------------
(***************************************************************************)
(* The two newline splitters, for every stream, cap and way of cutting the *)
(* stream into reads.  The argument follows the loop over the newlines of  *)
(* a read: what was made of the bytes up to the last newline passed is     *)
(* right at every position of the loop.                                    *)
(***************************************************************************)
EXTENDS MCFramedStream, SequenceTheorems, WellFoundedInduction, TLAPS

Bytes == Byte \cup Symbol \cup {NL}  \* of either kind of stream
Chunks == [t : {"frame", "raw", "rem"}, b : Seq(Bytes)]

-----------------------------------------------------------------------------
(* What a recursive function computes: induction over its argument.        *)

LEMMA ByInduction ==
  ASSUME NEW G, 0 \in G, \A n \in Nat : n \in G => n + 1 \in G
  PROVE  \A n \in Nat : n \in G
<1> DEFINE K == Nat \ G
<1> SUFFICES ASSUME K # {} PROVE FALSE
  OBVIOUS
<1>1. PICK k \in K : \A n \in K : ~ (<<n, k>> \in OpToRel(<, Nat))
  BY NatLessThanWellFounded, WFMin
<1>2. k # 0 /\ k - 1 \in Nat
  OBVIOUS
<1>3. k - 1 \in G
  <2>1. ASSUME k - 1 \in K PROVE FALSE
    <3>1. ~ (k - 1 < k)
      BY <1>1, <1>2, <2>1 DEF OpToRel
    <3>2. QED
      BY <1>2, <3>1
  <2>2. QED
    BY <1>2, <2>1
<1>4. k - 1 + 1 = k
  BY <1>2
<1>5. QED
  BY <1>2, <1>3, <1>4

\* One step of the recursions of the model, by what they are for: the chunks written,
\* the frames tapped, the newlines that each splitter passes, and the values that are
\* joined (s is a stream and some of its lines) and the payloads told (s is a stream and
\* a cap).
Stepped(what, s, n, x) ==
  IF what = "written" THEN x \o s[n]
  ELSE IF what = "tapped" THEN (IF s[n].t = "frame" THEN Append(x, s[n].b) ELSE x)
  ELSE IF what = "framed" THEN (IF s[n] = NL THEN AtNewline(x, HeadAt(s, n)) ELSE x)
  ELSE IF what = "split" THEN (IF s[n] = NL THEN SplitAtNewline(x, HeadAt(s, n)) ELSE x)
  ELSE IF what = "ended" THEN (IF s[n] = NL THEN Sse!EndLine(x, Sse!HeadAt(s, n)) ELSE x)
  ELSE IF what = "joined"
       THEN (IF n \notin s[2] THEN x
             ELSE IF \E j \in s[2] : j < n
                  THEN Append(x, NL) \o Sse!Value(Sse!Line(s[1], n))
             ELSE Sse!Value(Sse!Line(s[1], n)))
  ELSE IF Sse!Tells(s[1], n, s[2])
       THEN Append(x, Sse!Joined(s[1], Sse!DataLines(s[1], n))) ELSE x

\* m is the function that starts at l with z and takes these steps up to k.
Fits(m, what, s, z, l, k) ==
  m = [n \in l .. k |-> IF n = l THEN z ELSE Stepped(what, s, n, m[n - 1])]

Steps(m, what, s, z, l, k) ==
  /\ m[l] = z
  /\ \A n \in Nat : l <= n /\ n + 1 <= k => m[n + 1] = Stepped(what, s, n + 1, m[n])

LEMMA FitsIs ==
  ASSUME NEW m, NEW what, NEW s, NEW z, NEW l \in Nat, NEW k \in Nat, l <= k,
         Fits(m, what, s, z, l, k)
  PROVE  Steps(m, what, s, z, l, k)
<1> DEFINE St(n, x) == Stepped(what, s, n, x)
<1> DEFINE g == [n \in l .. k |-> IF n = l THEN z ELSE St(n, m[n - 1])]
<1>2. m = g
  BY DEF Fits
<1> HIDE DEF St
<1>3. \A n \in l .. k : g[n] = IF n = l THEN z ELSE St(n, m[n - 1])
  OBVIOUS
<1> HIDE DEF g
<1>1. m[l] = z
  BY <1>2, <1>3
<1>4. ASSUME NEW n \in Nat, l <= n, n + 1 <= k PROVE m[n + 1] = St(n + 1, m[n])
  <2>1. n + 1 \in l .. k /\ n + 1 # l /\ n + 1 - 1 = n
    BY <1>4
  <2>2. g[n + 1] = IF n + 1 = l THEN z ELSE St(n + 1, m[n + 1 - 1])
    BY <1>3, <2>1
  <2>3. QED
    BY <1>2, <2>1, <2>2
<1>5. QED
  BY <1>1, <1>4 DEF St, Steps

LEMMA FitsExist ==
  ASSUME NEW what, NEW s, NEW z, NEW l \in Nat, NEW k \in Nat
  PROVE  \E m : Fits(m, what, s, z, l, l + k)
<1> DEFINE G == {n \in Nat : \E m : Fits(m, what, s, z, l, l + n)}
<1> DEFINE St(n, x) == Stepped(what, s, n, x)
<1>1. 0 \in G
  <2> HIDE DEF St
  <2> DEFINE m == [i \in l .. l + 0 |-> z]
  <2>1. \A i \in l .. l + 0 : m[i] = IF i = l THEN z ELSE St(i, m[i - 1])
    OBVIOUS
  <2>2. m = [i \in l .. l + 0 |-> IF i = l THEN z ELSE St(i, m[i - 1])]
    BY <2>1
  <2>3. Fits(m, what, s, z, l, l + 0)
    <3> HIDE DEF m
    <3>1. QED
      BY <2>2 DEF Fits, St
  <2>4. QED
    BY <2>3
<1>2. ASSUME NEW n \in Nat, n \in G PROVE n + 1 \in G
  <2>1. PICK m : Fits(m, what, s, z, l, l + n)
    BY <1>2
  <2>2. m[l] = z /\ \A i \in Nat : l <= i /\ i + 1 <= l + n => m[i + 1] = St(i + 1, m[i])
    <3> DEFINE e == l + n
    <3>1. e \in Nat /\ l <= e
      OBVIOUS
    <3>2. Fits(m, what, s, z, l, e)
      BY <2>1
    <3> HIDE DEF e, St
    <3>3. Steps(m, what, s, z, l, e)
      BY <3>1, <3>2, FitsIs
    <3>4. QED
      BY <3>3 DEF e, St, Steps
  <2> DEFINE g == [i \in l .. l + (n + 1) |->
                     IF i <= l + n THEN m[i] ELSE St(l + (n + 1), m[l + n])]
  <2> HIDE DEF St
  <2>3. ASSUME NEW i \in l .. l + (n + 1)
        PROVE  g[i] = IF i = l THEN z ELSE St(i, g[i - 1])
    <3>1. CASE i = l
      BY <2>2, <3>1
    <3>2. CASE i # l /\ i <= l + n
      <4>1. i - 1 \in Nat /\ l <= i - 1 /\ i - 1 + 1 = i /\ i - 1 <= l + n
            /\ i - 1 \in l .. l + (n + 1)
        BY <3>2
      <4>2. m[i] = St(i, m[i - 1])
        BY <2>2, <3>2, <4>1
      <4>3. QED
        BY <3>2, <4>1, <4>2
    <3>3. CASE i = l + (n + 1)
      <4>1. g[l + (n + 1)] = St(l + (n + 1), m[l + n]) /\ g[l + n] = m[l + n]
            /\ l + (n + 1) - 1 = l + n /\ l + (n + 1) # l
        OBVIOUS
      <4>2. QED
        BY <3>3, <4>1
    <3>4. QED
      BY <3>1, <3>2, <3>3
  <2>4. Fits(g, what, s, z, l, l + (n + 1))
    <3>1. g = [i \in l .. l + (n + 1) |-> IF i = l THEN z ELSE St(i, g[i - 1])]
      BY <2>3
    <3> HIDE DEF g
    <3>2. QED
      BY <3>1 DEF Fits, St
  <2>5. QED
    BY <2>4
<1>3. \A n \in Nat : n \in G
  <2> HIDE DEF G
  <2>1. QED
    BY <1>1, <1>2, ByInduction
<1>4. QED
  BY <1>3

\* What is made of the first elements does not depend on those that follow.
LEMMA FitsAgree ==
  ASSUME NEW what, NEW s, NEW t, NEW z, NEW l \in Nat, NEW k \in Nat, NEW j \in Nat,
         l <= k, k <= j, NEW m, NEW q, what \in {"written", "tapped"},
         Fits(m, what, s, z, l, k), Fits(q, what, t, z, l, j),
         \A i \in l .. k : s[i] = t[i]
  PROVE  m[k] = q[k]
<1> DEFINE G == {n \in Nat : l + n <= k => m[l + n] = q[l + n]}
<1>0. l <= j
  OBVIOUS
<1>1. Steps(m, what, s, z, l, k) /\ Steps(q, what, t, z, l, j)
  BY <1>0, FitsIs
<1>2. 0 \in G
  BY <1>1 DEF Steps
<1>3. ASSUME NEW n \in Nat, n \in G PROVE n + 1 \in G
  <2>1. CASE l + (n + 1) <= k
    <3>1. m[l + n] = q[l + n] /\ l + n \in Nat /\ l <= l + n /\ l + n + 1 <= k
          /\ l + n + 1 <= j /\ l + n + 1 = l + (n + 1) /\ l + (n + 1) \in l .. k
      BY <1>3, <2>1
    <3>2. s[l + (n + 1)] = t[l + (n + 1)]
      BY <3>1
    <3> DEFINE i == l + n
    <3>5. l + (n + 1) = i + 1
      OBVIOUS
    <3>6. i \in Nat /\ l <= i /\ i + 1 <= k /\ i + 1 <= j
      BY <3>1
    <3> HIDE DEF i
    <3>7. m[i + 1] = Stepped(what, s, i + 1, m[i])
      BY <1>1, <3>6 DEF Steps
    <3>8. q[i + 1] = Stepped(what, t, i + 1, q[i])
      BY <1>1, <3>6 DEF Steps
    <3>9. m[l + (n + 1)] = q[l + (n + 1)]
      BY <3>1, <3>2, <3>7, <3>8, <3>5 DEF Stepped, i
    <3>10. QED
      BY <3>9
  <2>2. CASE ~(l + (n + 1) <= k)
    BY <2>2
  <2>3. QED
    BY <2>1, <2>2
<1>4. k - l \in G
  <2>1. k - l \in Nat
    OBVIOUS
  <2> HIDE DEF G
  <2>2. QED
    BY <1>2, <1>3, <2>1, ByInduction
<1>5. QED
  BY <1>4

\* The function a recursion of the model stands for exists, so CHOOSE finds it.
LEMMA FitsChosen ==
  ASSUME NEW what, NEW s, NEW z, NEW l \in Nat, NEW k \in Nat, l <= k
  PROVE  \E m : Fits(m, what, s, z, l, k)
<1>1. k - l \in Nat /\ l + (k - l) = k
  OBVIOUS
<1>2. \E m : Fits(m, what, s, z, l, l + (k - l))
  BY <1>1, FitsExist
<1>3. QED
  BY <1>1, <1>2

LEMMA Regroup ==
  \A x, y, z \in Seq(Bytes) : (x \o y) \o z = x \o (y \o z)
<1> SUFFICES ASSUME NEW T PROVE \A x, y, z \in Seq(T) : (x \o y) \o z = x \o (y \o z)
  OBVIOUS
<1>1. QED
  BY ConcatAssociative

-----------------------------------------------------------------------------
(* What is written for a sequence of chunks, and what is tapped of it.     *)

Wires(out) == [i \in DOMAIN out |-> Wire(out[i])]
Written(out) == FlattenSeq(Wires(out))

LEMMA FlattenFits ==
  ASSUME NEW T, NEW w \in Seq(T), Len(w) # 0
  PROVE  \E m : Fits(m, "written", w, w[1], 1, Len(w)) /\ FlattenSeq(w) = m[Len(w)]
<1>1. Len(w) \in Nat /\ 1 <= Len(w)
  BY LenProperties
<1> DEFINE k == Len(w)
<1> DEFINE P(f) == f = [i \in 1 .. Len(w) |-> IF i = 1 THEN w[i] ELSE f[i - 1] \o w[i]]
<1>2. \A f : P(f) <=> Fits(f, "written", w, w[1], 1, Len(w))
  <2> SUFFICES ASSUME NEW f
               PROVE  P(f) <=> Fits(f, "written", w, w[1], 1, Len(w))
    OBVIOUS
  <2>1. [i \in 1 .. k |-> IF i = 1 THEN w[i] ELSE f[i - 1] \o w[i]]
          = [i \in 1 .. k |-> IF i = 1 THEN w[1] ELSE Stepped("written", w, i, f[i - 1])]
    <3>1. \A i \in 1 .. k : (IF i = 1 THEN w[i] ELSE f[i - 1] \o w[i])
            = (IF i = 1 THEN w[1] ELSE Stepped("written", w, i, f[i - 1]))
      BY DEF Stepped
    <3>2. QED
      BY <3>1
  <2>2. QED
    BY <2>1 DEF Fits
<1>3. \E f : P(f)
  BY <1>1, <1>2, FitsChosen
<1>4. FlattenSeq(w) = (CHOOSE f : P(f))[Len(w)]
  BY DEF FlattenSeq
<1>5. P(CHOOSE f : P(f))
  <2> HIDE DEF P
  <2>1. QED
    BY <1>3
<1> DEFINE m == CHOOSE f : P(f)
<1>6. Fits(m, "written", w, w[1], 1, Len(w)) /\ FlattenSeq(w) = m[Len(w)]
  <2> HIDE DEF P
  <2>1. QED
    BY <1>2, <1>4, <1>5
<1>7. QED
  BY <1>6

LEMMA FlattenAppend ==
  ASSUME NEW T, NEW w \in Seq(Seq(T)), NEW v \in Seq(T), FlattenSeq(w) \in Seq(T)
  PROVE  FlattenSeq(Append(w, v)) = FlattenSeq(w) \o v
<1> DEFINE u == Append(w, v)
<1>1. /\ u \in Seq(Seq(T)) /\ Len(u) = Len(w) + 1 /\ u[Len(w) + 1] = v
      /\ \A i \in 1 .. Len(w) : u[i] = w[i]
      /\ Len(w) \in Nat
  BY AppendProperties, LenProperties
<1> HIDE DEF u
<1>2. PICK q : Fits(q, "written", u, u[1], 1, Len(u)) /\ FlattenSeq(u) = q[Len(u)]
  <2>1. Len(u) # 0
    BY <1>1
  <2>2. u \in Seq(Seq(T))
    BY <1>1
  <2>3. QED
    BY <2>1, <2>2, FlattenFits
<1>3. CASE Len(w) = 0
  <2>1. FlattenSeq(w) = w /\ w = <<>>
    BY <1>3, EmptySeq DEF FlattenSeq
  <2>2. Steps(q, "written", u, u[1], 1, Len(u))
    BY <1>1, <1>2, <1>3, FitsIs
  <2>3. FlattenSeq(u) = v
    BY <1>1, <1>2, <1>3, <2>2 DEF Steps
  <2>4. <<>> \o v = v
    BY ConcatEmptySeq
  <2>5. QED
    BY <2>1, <2>3, <2>4 DEF u
<1>4. CASE Len(w) # 0
  <2>1. PICK m : Fits(m, "written", w, w[1], 1, Len(w)) /\ FlattenSeq(w) = m[Len(w)]
    BY <1>4, FlattenFits
  <2> DEFINE k == Len(w)
  <2>2. k \in Nat /\ 1 <= k /\ k + 1 \in Nat /\ k <= k + 1 /\ 1 <= k + 1 /\ u[1] = w[1]
    BY <1>1, <1>4
  <2>3. Fits(q, "written", u, w[1], 1, k + 1) /\ Fits(m, "written", w, w[1], 1, k)
    BY <1>1, <1>2, <2>1, <2>2
  <2>4. \A i \in 1 .. k : w[i] = u[i]
    BY <1>1
  <2>5. u[k + 1] = v /\ FlattenSeq(w) = m[k] /\ FlattenSeq(u) = q[k + 1]
    BY <1>1, <1>2, <2>1
  <2> HIDE DEF k
  <2>6. m[k] = q[k]
    BY <2>2, <2>3, <2>4, FitsAgree
  <2>7. Steps(q, "written", u, w[1], 1, k + 1)
    BY <2>2, <2>3, FitsIs
  <2>8. q[k + 1] = Stepped("written", u, k + 1, q[k])
    <3>1. \A n \in Nat : 1 <= n /\ n + 1 <= k + 1 =>
            q[n + 1] = Stepped("written", u, n + 1, q[n])
      BY <2>7 DEF Steps
    <3>2. k \in Nat /\ 1 <= k /\ k + 1 <= k + 1
      BY <2>2
    <3>3. QED
      BY <3>1, <3>2
  <2>9. QED
    BY <2>5, <2>6, <2>8 DEF Stepped, u
<1>5. QED
  BY <1>3, <1>4

LEMMA WireTyped ==
  ASSUME NEW c \in Chunks
  PROVE  Wire(c) \in Seq(Bytes) /\ c.b \in Seq(Bytes) /\ c.t \in {"frame", "raw", "rem"}
<1>1. c.b \in Seq(Bytes) /\ NL \in Bytes /\ c.t \in {"frame", "raw", "rem"}
  BY DEF Chunks, Bytes
<1>2. Append(c.b, NL) \in Seq(Bytes)
  BY <1>1, AppendProperties
<1>3. QED
  BY <1>1, <1>2 DEF Wire

LEMMA WrittenNone == Written(<<>>) = <<>>
<1>1. Wires(<<>>) = <<>>
  BY DEF Wires
<1>2. QED
  BY <1>1 DEF Written, FlattenSeq

LEMMA WrittenGrows ==
  ASSUME NEW out \in Seq(Chunks), NEW c \in Chunks, Written(out) \in Seq(Bytes)
  PROVE  /\ Written(Append(out, c)) = Written(out) \o Wire(c)
         /\ Written(Append(out, c)) \in Seq(Bytes)
<1>1. /\ Append(out, c) \in Seq(Chunks) /\ Len(Append(out, c)) = Len(out) + 1
      /\ Append(out, c)[Len(out) + 1] = c
      /\ \A i \in 1 .. Len(out) : Append(out, c)[i] = out[i]
      /\ Len(out) \in Nat /\ DOMAIN out = 1 .. Len(out)
      /\ DOMAIN Append(out, c) = 1 .. Len(out) + 1
  BY AppendProperties, LenProperties
<1>2. \A d \in Chunks : Wire(d) \in Seq(Bytes)
  BY WireTyped
<1>3. Wires(out) \in Seq(Seq(Bytes)) /\ Len(Wires(out)) = Len(out)
  <2>1. Wires(out) \in [1 .. Len(out) -> Seq(Bytes)]
    <3>1. \A i \in 1 .. Len(out) : out[i] \in Chunks
      BY ElementOfSeq
    <3>2. QED
      BY <1>1, <1>2, <3>1 DEF Wires
  <2>2. QED
    BY <1>1, <2>1
<1>4. Wires(Append(out, c)) = Append(Wires(out), Wire(c))
  <2> DEFINE x == Wires(Append(out, c))
  <2> DEFINE y == Append(Wires(out), Wire(c))
  <2>1. x = [i \in 1 .. Len(out) + 1 |-> Wire(Append(out, c)[i])]
    BY <1>1 DEF Wires
  <2>2. y \in Seq(Seq(Bytes)) /\ Len(y) = Len(out) + 1 /\ y[Len(out) + 1] = Wire(c)
        /\ \A i \in 1 .. Len(out) : y[i] = Wires(out)[i]
    BY <1>2, <1>3, AppendProperties
  <2>3. y = [i \in 1 .. Len(out) + 1 |-> y[i]]
    <3> HIDE DEF y
    <3>1. y \in [1 .. Len(out) + 1 -> Seq(Bytes)]
      BY <2>2, LenProperties
    <3>2. QED
      BY <3>1
  <2>4. ASSUME NEW i \in 1 .. Len(out) + 1 PROVE Wire(Append(out, c)[i]) = y[i]
    <3> HIDE DEF x, y
    <3>1. CASE i = Len(out) + 1
      BY <1>1, <2>2, <3>1
    <3>2. CASE i \in 1 .. Len(out)
      <4>1. y[i] = Wires(out)[i] /\ Append(out, c)[i] = out[i]
        BY <1>1, <2>2, <3>2
      <4>2. Wires(out)[i] = Wire(out[i])
        BY <1>1, <3>2 DEF Wires
      <4>3. QED
        BY <4>1, <4>2
    <3>3. i = Len(out) + 1 \/ i \in 1 .. Len(out)
      BY <1>1
    <3>4. QED
      BY <3>1, <3>2, <3>3
  <2>5. QED
    BY <2>1, <2>3, <2>4
<1>5. Wire(c) \in Seq(Bytes)
  BY <1>2
<1>6. Written(Append(out, c)) = Written(out) \o Wire(c)
  BY <1>3, <1>4, <1>5, FlattenAppend DEF Written
<1>7. QED
  BY <1>5, <1>6, ConcatProperties

\* The frames among the chunks, as Mirrors names them.
Tapped(out) ==
  LET frames[n \in 0..Len(out)] ==
        IF n = 0 THEN <<>>
        ELSE IF out[n].t = "frame" THEN Append(frames[n - 1], out[n].b)
        ELSE frames[n - 1]
  IN  frames[Len(out)]

LEMMA TappedFits ==
  ASSUME NEW out \in Seq(Chunks)
  PROVE  \E m : Fits(m, "tapped", out, <<>>, 0, Len(out)) /\ Tapped(out) = m[Len(out)]
<1>1. Len(out) \in Nat /\ 0 <= Len(out)
  BY LenProperties
<1> DEFINE P(f) == f = [n \in 0 .. Len(out) |->
                          IF n = 0 THEN <<>>
                          ELSE IF out[n].t = "frame" THEN Append(f[n - 1], out[n].b)
                          ELSE f[n - 1]]
<1>2. \A f : P(f) <=> Fits(f, "tapped", out, <<>>, 0, Len(out))
  <2> SUFFICES ASSUME NEW f
               PROVE  P(f) <=> Fits(f, "tapped", out, <<>>, 0, Len(out))
    OBVIOUS
  <2>1. QED
    BY DEF Fits, Stepped
<1>3. \E f : P(f)
  BY <1>1, <1>2, FitsChosen
<1>4. Tapped(out) = (CHOOSE f : P(f))[Len(out)]
  BY DEF Tapped
<1>5. P(CHOOSE f : P(f))
  <2> HIDE DEF P
  <2>1. QED
    BY <1>3
<1> DEFINE m == CHOOSE f : P(f)
<1>6. Fits(m, "tapped", out, <<>>, 0, Len(out)) /\ Tapped(out) = m[Len(out)]
  <2> HIDE DEF P
  <2>1. QED
    BY <1>2, <1>4, <1>5
<1>7. QED
  BY <1>6

LEMMA TappedNone == Tapped(<<>>) = <<>>
<1>1. <<>> \in Seq(Chunks) /\ Len(<<>>) = 0
  BY EmptySeq
<1>2. PICK m : Fits(m, "tapped", <<>>, <<>>, 0, 0) /\ Tapped(<<>>) = m[0]
  BY <1>1, TappedFits
<1>3. Steps(m, "tapped", <<>>, <<>>, 0, 0)
  BY <1>2, FitsIs
<1>4. QED
  BY <1>2, <1>3 DEF Steps

LEMMA TappedGrows ==
  ASSUME NEW out \in Seq(Chunks), NEW c \in Chunks
  PROVE  Tapped(Append(out, c))
           = IF c.t = "frame" THEN Append(Tapped(out), c.b) ELSE Tapped(out)
<1> DEFINE u == Append(out, c)
<1> DEFINE k == Len(out)
<1>1. /\ u \in Seq(Chunks) /\ Len(u) = k + 1 /\ u[k + 1] = c /\ k \in Nat
      /\ \A i \in 1 .. k : u[i] = out[i]
  BY AppendProperties, LenProperties
<1>2. PICK m : Fits(m, "tapped", out, <<>>, 0, k) /\ Tapped(out) = m[k]
  BY TappedFits
<1> HIDE DEF u
<1>3. PICK q : Fits(q, "tapped", u, <<>>, 0, k + 1) /\ Tapped(u) = q[k + 1]
  BY <1>1, TappedFits
<1> HIDE DEF k
<1>4. 0 <= k /\ k <= k + 1 /\ 0 <= k + 1 /\ k + 1 \in Nat
  BY <1>1
<1>5. Steps(m, "tapped", out, <<>>, 0, k) /\ Steps(q, "tapped", u, <<>>, 0, k + 1)
  BY <1>1, <1>2, <1>3, <1>4, FitsIs
<1>6. m[k] = q[k]
  <2> DEFINE G == {n \in Nat : n <= k => m[n] = q[n]}
  <2>1. 0 \in G
    BY <1>5 DEF Steps
  <2>2. ASSUME NEW n \in Nat, n \in G PROVE n + 1 \in G
    <3>1. CASE n + 1 <= k
      <4>1. m[n] = q[n] /\ 0 <= n /\ n + 1 <= k + 1 /\ n + 1 \in 1 .. k
        BY <1>1, <2>2, <3>1
      <4>2. u[n + 1] = out[n + 1]
        BY <1>1, <4>1
      <4>3. m[n + 1] = Stepped("tapped", out, n + 1, m[n])
        BY <1>5, <3>1, <4>1 DEF Steps
      <4>4. q[n + 1] = Stepped("tapped", u, n + 1, q[n])
        BY <1>5, <4>1 DEF Steps
      <4>5. m[n + 1] = q[n + 1]
        BY <4>1, <4>2, <4>3, <4>4 DEF Stepped
      <4>6. QED
        BY <4>5
    <3>2. CASE ~(n + 1 <= k)
      BY <3>2
    <3>3. QED
      BY <3>1, <3>2
  <2>3. k \in G
    <3> HIDE DEF G
    <3>1. QED
      BY <1>1, <2>1, <2>2, ByInduction
  <2>4. QED
    BY <1>1, <2>3
<1>7. q[k + 1] = Stepped("tapped", u, k + 1, q[k])
  BY <1>1, <1>4, <1>5 DEF Steps
<1>8. QED
  BY <1>1, <1>2, <1>3, <1>6, <1>7 DEF Stepped, u

-----------------------------------------------------------------------------
(* The newlines of a read.                                                 *)

LEMMA CutIs ==
  ASSUME NEW data \in Seq(Bytes), NEW n \in 0 .. Len(data)
  PROVE  /\ Cut(data, n) \in 0 .. n
         /\ Cut(data, n) = 0 \/ data[Cut(data, n)] = NL
         /\ \A i \in 1 .. n : data[i] = NL => i <= Cut(data, n)
<1> DEFINE S(k) == {0} \cup {i \in Newlines(data) : i <= k}
<1> DEFINE G == {k \in Nat : k <= Len(data) => \E c \in S(k) : \A y \in S(k) : c >= y}
<1>1. Len(data) \in Nat /\ DOMAIN data = 1 .. Len(data)
  BY LenProperties
<1>2. \A k \in Nat : S(k) = {0} \cup {i \in 1 .. Len(data) : data[i] = NL /\ i <= k}
  BY <1>1 DEF Newlines
<1>3. 0 \in G
  BY <1>2
<1>4. ASSUME NEW k \in Nat, k \in G PROVE k + 1 \in G
  <2>1. CASE k + 1 <= Len(data)
    <3>1. PICK c \in S(k) : \A y \in S(k) : c >= y
      BY <1>1, <1>4, <2>1
    <3>2. c \in Nat /\ c <= k
      BY <1>2, <3>1
    <3>3. CASE data[k + 1] = NL
      <4>1. k + 1 \in S(k + 1) /\ \A y \in S(k + 1) : k + 1 >= y
        BY <1>1, <1>2, <2>1, <3>3
      <4>2. QED
        BY <4>1
    <3>4. CASE data[k + 1] # NL
      <4>1. S(k + 1) = S(k)
        <5>1. \A i \in 1 .. Len(data) : data[i] = NL => (i <= k + 1 <=> i <= k)
          BY <1>1, <3>4
        <5>2. QED
          BY <1>2, <5>1
      <4> HIDE DEF S
      <4>2. QED
        BY <3>1, <4>1
    <3>5. QED
      BY <3>3, <3>4
  <2>2. CASE ~(k + 1 <= Len(data))
    BY <2>2
  <2>3. QED
    BY <2>1, <2>2
<1>5. n \in G
  <2>1. n \in Nat
    BY <1>1
  <2> HIDE DEF G
  <2>2. QED
    BY <1>3, <1>4, <2>1, ByInduction
<1>6. \E c \in S(n) : \A y \in S(n) : c >= y
  BY <1>1, <1>5
<1>7. Cut(data, n) \in S(n) /\ \A y \in S(n) : Cut(data, n) >= y
  <2>1. Cut(data, n) = CHOOSE c \in S(n) : \A y \in S(n) : c >= y
    BY DEF Cut, Max
  <2> HIDE DEF S
  <2>2. QED
    BY <1>6, <2>1
<1>8. n \in Nat /\ n <= Len(data)
  BY <1>1
<1> DEFINE c == Cut(data, n)
<1>9. c \in S(n) /\ \A y \in S(n) : c >= y
  BY <1>7
<1> HIDE DEF c
<1>10. c \in 0 .. n /\ (c = 0 \/ data[c] = NL) /\ \A i \in 1 .. n : data[i] = NL => i <= c
  BY <1>1, <1>2, <1>8, <1>9
<1>11. QED
  BY <1>10 DEF c

LEMMA CutStep ==
  ASSUME NEW data \in Seq(Bytes), NEW n \in 1 .. Len(data)
  PROVE  Cut(data, n) = IF data[n] = NL THEN n ELSE Cut(data, n - 1)
<1>1. Len(data) \in Nat
  BY LenProperties
<1>2. n - 1 \in 0 .. Len(data) /\ n \in 0 .. Len(data)
  BY <1>1
<1> DEFINE c == Cut(data, n)
<1> DEFINE d == Cut(data, n - 1)
<1>3. c \in 0 .. n /\ (c = 0 \/ data[c] = NL) /\ \A i \in 1 .. n : data[i] = NL => i <= c
  BY <1>2, CutIs
<1>4. /\ d \in 0 .. n - 1 /\ (d = 0 \/ data[d] = NL)
      /\ \A i \in 1 .. n - 1 : data[i] = NL => i <= d
  BY <1>2, CutIs
<1> HIDE DEF c, d
<1>5. c = IF data[n] = NL THEN n ELSE d
  BY <1>1, <1>3, <1>4
<1>6. QED
  BY <1>5 DEF c, d

LEMMA NoNewline ==
  ASSUME NEW s \in Seq(Bytes)
  PROVE  Newlines(s) = {} <=> \A i \in 1 .. Len(s) : s[i] # NL
<1>1. DOMAIN s = 1 .. Len(s)
  BY LenProperties
<1>2. QED
  BY <1>1 DEF Newlines

\* The bytes between two positions, the first of which is the last newline before the
\* second.
LEMMA BetweenIs ==
  ASSUME NEW data \in Seq(Bytes), NEW n \in 0 .. Len(data)
  PROVE  LET b == SubSeq(data, 1 + Cut(data, n), n)
         IN  /\ b \in Seq(Bytes) /\ Len(b) <= n /\ Newlines(b) = {}
             /\ SubSeq(data, 1, Cut(data, n)) \in Seq(Bytes)
             /\ SubSeq(data, 1, Cut(data, n)) \o b = SubSeq(data, 1, n)
<1> DEFINE c == Cut(data, n)
<1> DEFINE b == SubSeq(data, 1 + c, n)
<1>1. /\ c \in 0 .. n /\ \A i \in 1 .. n : data[i] = NL => i <= c
  BY CutIs
<1>2. Len(data) \in Nat /\ \A i \in 1 .. Len(data) : data[i] \in Bytes
  BY LenProperties, ElementOfSeq
<1> HIDE DEF c
<1>3. n \in Nat /\ n <= Len(data) /\ 1 + c \in Int /\ n \in Int /\ c \in Int
  BY <1>1, <1>2
<1>4. \A i \in 1 + c .. n : data[i] \in Bytes
  BY <1>1, <1>2, <1>3
<1>5. /\ b \in Seq(Bytes)
      /\ Len(b) = (IF 1 + c <= n THEN n - (1 + c) + 1 ELSE 0)
      /\ \A i \in 1 .. n - (1 + c) + 1 : b[i] = data[1 + c + i - 1]
  BY <1>3, <1>4, SubSeqProperties
<1>6. \A i \in 1 .. c : data[i] \in Bytes
  BY <1>1, <1>2, <1>3
<1>7. SubSeq(data, 1, c) \in Seq(Bytes)
  BY <1>3, <1>6, SubSeqProperties
<1>8. SubSeq(data, 1, c) \o b = SubSeq(data, 1, n)
  <2>1. 1 \in 1 .. Len(data) + 1 /\ c \in 1 - 1 .. Len(data) /\ n \in c .. Len(data)
    BY <1>1, <1>2, <1>3
  <2>2. SubSeq(data, 1, c) \o SubSeq(data, c + 1, n) = SubSeq(data, 1, n)
    BY <2>1, ConcatAdjacentSubSeq
  <2>3. c + 1 = 1 + c
    BY <1>3
  <2>4. QED
    BY <2>2, <2>3
<1> HIDE DEF b
<1>9. Len(b) <= n
  BY <1>1, <1>3, <1>5
<1>10. Newlines(b) = {}
  <2>1. ASSUME NEW i \in 1 .. Len(b) PROVE b[i] # NL
    <3>1. i \in 1 .. n - (1 + c) + 1 /\ c + i \in 1 .. n /\ c + i > c
          /\ 1 + c + i - 1 = c + i
      BY <1>1, <1>3, <1>5
    <3>2. b[i] = data[c + i]
      BY <1>5, <3>1
    <3>3. QED
      BY <1>1, <1>3, <3>1, <3>2
  <2>2. QED
    BY <1>5, <2>1, NoNewline
<1>11. QED
  BY <1>5, <1>7, <1>8, <1>9, <1>10 DEF b, c

LEMMA HeadAtIs ==
  ASSUME NEW data \in Seq(Bytes), NEW n \in 1 .. Len(data), data[n] = NL
  PROVE  /\ HeadAt(data, n) \in Seq(Bytes) /\ Newlines(HeadAt(data, n)) = {}
         /\ Len(HeadAt(data, n)) < Len(data)
         /\ SubSeq(data, 1, Cut(data, n - 1)) \in Seq(Bytes)
         /\ SubSeq(data, 1, Cut(data, n))
              = SubSeq(data, 1, Cut(data, n - 1)) \o Append(HeadAt(data, n), NL)
<1> DEFINE h == HeadAt(data, n)
<1> DEFINE p == SubSeq(data, 1, Cut(data, n - 1))
<1>1. Len(data) \in Nat /\ n \in Nat /\ n - 1 \in 0 .. Len(data) /\ n - 1 < Len(data)
  BY LenProperties
<1>2. h = SubSeq(data, 1 + Cut(data, n - 1), n - 1)
  BY DEF HeadAt
<1>3. /\ h \in Seq(Bytes) /\ Len(h) <= n - 1 /\ Newlines(h) = {}
      /\ p \in Seq(Bytes) /\ p \o h = SubSeq(data, 1, n - 1)
  BY <1>1, <1>2, BetweenIs
<1>4. Cut(data, n) = n
  BY CutStep
<1>5. SubSeq(data, 1, n) = SubSeq(data, 1, n - 1) \o <<NL>>
  <2>1. 1 \in 1 .. Len(data) /\ n \in 1 .. Len(data)
    BY <1>1
  <2>2. QED
    BY <2>1, SubSeqRecursiveSecond
<1> HIDE DEF h, p
<1>6. NL \in Bytes /\ <<NL>> \in Seq(Bytes)
  BY DEF Bytes
<1>7. Append(h, NL) = h \o <<NL>>
  BY <1>3, <1>6, AppendIsConcat
<1>8. (p \o h) \o <<NL>> = p \o (h \o <<NL>>)
  <2> DEFINE v == <<NL>>
  <2>1. v \in Seq(Bytes)
    BY <1>6
  <2> HIDE DEF v
  <2>2. p \in Seq(Bytes) /\ h \in Seq(Bytes)
    BY <1>3
  <2>3. (p \o h) \o v = p \o (h \o v)
    BY <2>1, <2>2, Regroup
  <2>4. QED
    BY <2>3 DEF v
<1>9. SubSeq(data, 1, Cut(data, n)) = p \o Append(h, NL)
  BY <1>3, <1>4, <1>5, <1>7, <1>8
<1>10. Len(h) < Len(data)
  <2>1. Len(h) \in Nat
    BY <1>3, LenProperties
  <2>2. QED
    BY <1>1, <1>3, <2>1
<1>11. QED
  BY <1>3, <1>9, <1>10 DEF h, p

LEMMA RestIs ==
  ASSUME NEW data \in Seq(Bytes)
  PROVE  /\ Rest(data) \in Seq(Bytes) /\ Newlines(Rest(data)) = {}
         /\ SubSeq(data, 1, Cut(data, Len(data))) \in Seq(Bytes)
         /\ SubSeq(data, 1, Cut(data, Len(data))) \o Rest(data) = data
<1>1. Len(data) \in 0 .. Len(data)
  BY LenProperties
<1>2. SubSeq(data, 1, Len(data)) = data
  BY SubSeqFull
<1>3. QED
  BY <1>1, <1>2, BetweenIs DEF Rest

-----------------------------------------------------------------------------
(* The state of FramedStream between two pieces.                           *)

\* The next chunk starts a line.
Whole(out) == out = <<>> \/ LineDone(out[Len(out)])

\* A chunk that may come after what starts a line, or does not.
Suits(fresh, c) ==
  /\ c.t \in {"frame", "rem"} => fresh /\ Newlines(c.b) = {}
  /\ c.t = "raw" =>
       /\ c.b # <<>>
       /\ Newlines(c.b) \subseteq (IF fresh THEN {} ELSE {Len(c.b)})
       /\ fresh => Len(c.b) > Cap
  /\ c.t = "frame" => Len(c.b) < Cap + ReadMax

InLine(out) ==
  \A i \in 1 .. Len(out) : Suits(i = 1 \/ LineDone(out[i - 1]), out[i])

Typed(st) == st \in [buf : Seq(Bytes), over : BOOLEAN, out : Seq(Chunks)]

\* What was made of the stream s: all of it is there, cut as it should be, the part
\* that is held back is within the cap and has no newline, and overflowed is set just
\* when the next byte belongs to a line whose start was returned already.
Framing(st, s) ==
  /\ Typed(st) /\ Written(st.out) \in Seq(Bytes) /\ Written(st.out) \o st.buf = s
  /\ InLine(st.out) /\ \A i \in 1 .. Len(st.out) : st.out[i].t # "rem"
  /\ Newlines(st.buf) = {} /\ Len(st.buf) <= Cap
  /\ st.over => st.buf = <<>>
  /\ st.over <=> ~Whole(st.out)

\* LineSplitter holds what FramedStream holds, and returned its frames.
Twin(f, p) ==
  /\ p = [buf |-> f.buf, over |-> f.over, out |-> Tapped(f.out)]

LEMMA InLineGrows ==
  ASSUME NEW out \in Seq(Chunks), NEW c \in Chunks, InLine(out), Suits(Whole(out), c)
  PROVE  InLine(Append(out, c))
<1> DEFINE u == Append(out, c)
<1> DEFINE k == Len(out)
<1>1. /\ u \in Seq(Chunks) /\ Len(u) = k + 1 /\ u[k + 1] = c /\ k \in Nat
      /\ \A i \in 1 .. k : u[i] = out[i]
  BY AppendProperties, LenProperties
<1>2. out = <<>> <=> k = 0
  BY EmptySeq
<1>3. k = 0 => Suits(TRUE, c)
  BY <1>2 DEF Whole
<1>4. k # 0 => Suits(LineDone(out[k]), c)
  <2>1. k # 0 => (Whole(out) <=> LineDone(out[k]))
    BY <1>2 DEF Whole
  <2>2. LineDone(out[k]) \in BOOLEAN /\ Whole(out) \in BOOLEAN
    BY DEF LineDone, Whole
  <2>3. QED
    BY <2>1, <2>2
<1> HIDE DEF u, k
<1>5. ASSUME NEW i \in 1 .. Len(u) PROVE Suits(i = 1 \/ LineDone(u[i - 1]), u[i])
  <2>1. CASE i \in 1 .. k
    <3>1. u[i] = out[i]
      BY <1>1, <2>1
    <3>2. i # 1 => i - 1 \in 1 .. k /\ u[i - 1] = out[i - 1]
      BY <1>1, <2>1
    <3>3. Suits(i = 1 \/ LineDone(out[i - 1]), out[i])
      BY <2>1 DEF InLine, k
    <3>4. (i = 1 \/ LineDone(out[i - 1])) <=> (i = 1 \/ LineDone(u[i - 1]))
      BY <3>2
    <3>5. (i = 1 \/ LineDone(out[i - 1])) = (i = 1 \/ LineDone(u[i - 1]))
      BY <3>4
    <3>6. QED
      BY <3>1, <3>3, <3>5
  <2>2. CASE i = k + 1 /\ k # 0
    <3>1. i # 1 /\ i - 1 = k /\ u[k] = out[k]
      BY <1>1, <2>2
    <3>2. (i = 1 \/ LineDone(u[i - 1])) = LineDone(out[k])
      BY <3>1 DEF LineDone
    <3>3. QED
      BY <1>1, <1>4, <2>2, <3>2
  <2>3. CASE i = k + 1 /\ k = 0
    <3>1. (i = 1 \/ LineDone(u[i - 1])) = TRUE
      BY <2>3
    <3>2. QED
      BY <1>1, <1>3, <2>3, <3>1
  <2>4. QED
    BY <1>1, <2>1, <2>2, <2>3
<1>6. QED
  BY <1>5 DEF InLine, u

\* A chunk that suits what is there leaves the returned chunks right.
LEMMA ChunkReturned ==
  ASSUME NEW st, NEW s \in Seq(Bytes), Framing(st, s), NEW c \in Chunks,
         Suits(Whole(st.out), c), c.t # "rem"
  PROVE  LET u == Append(st.out, c)
         IN  /\ u \in Seq(Chunks) /\ InLine(u) /\ u # <<>> /\ u[Len(u)] = c
             /\ \A i \in 1 .. Len(u) : u[i].t # "rem"
             /\ Written(u) = Written(st.out) \o Wire(c) /\ Written(u) \in Seq(Bytes)
             /\ Whole(u) <=> LineDone(c)
<1> DEFINE u == Append(st.out, c)
<1>1. st.out \in Seq(Chunks) /\ Written(st.out) \in Seq(Bytes) /\ InLine(st.out)
      /\ \A i \in 1 .. Len(st.out) : st.out[i].t # "rem"
  BY DEF Framing, Typed
<1>2. /\ u \in Seq(Chunks) /\ u # <<>> /\ Len(u) = Len(st.out) + 1
      /\ u[Len(st.out) + 1] = c /\ Len(st.out) \in Nat
      /\ \A i \in 1 .. Len(st.out) : u[i] = st.out[i]
  BY <1>1, AppendProperties, LenProperties
<1>3. InLine(u)
  BY <1>1, InLineGrows
<1>4. Written(u) = Written(st.out) \o Wire(c) /\ Written(u) \in Seq(Bytes)
  BY <1>1, WrittenGrows
<1> HIDE DEF u
<1>5. \A i \in 1 .. Len(u) : u[i].t # "rem"
  <2>1. ASSUME NEW i \in 1 .. Len(u) PROVE u[i].t # "rem"
    <3>1. CASE i \in 1 .. Len(st.out)
      BY <1>1, <1>2, <3>1
    <3>2. CASE i = Len(st.out) + 1
      BY <1>2, <3>2
    <3>3. QED
      BY <1>2, <3>1, <3>2
  <2>2. QED
    BY <2>1
<1>6. Whole(u) <=> LineDone(c)
  BY <1>2 DEF Whole
<1>7. QED
  BY <1>2, <1>3, <1>4, <1>5, <1>6 DEF u

LEMMA NewlineFramed ==
  ASSUME NEW st, NEW s \in Seq(Bytes), Framing(st, s),
         NEW head \in Seq(Bytes), Newlines(head) = {}, Len(head) < ReadMax
  PROVE  /\ Framing(AtNewline(st, head), s \o Append(head, NL))
         /\ s \o Append(head, NL) \in Seq(Bytes)
<1> DEFINE c == IF st.over THEN Raw(Append(head, NL)) ELSE Frame(st.buf \o head)
<1> DEFINE line == Append(head, NL)
<1>1. /\ st.buf \in Seq(Bytes) /\ st.out \in Seq(Chunks) /\ st.over \in BOOLEAN
      /\ Written(st.out) \in Seq(Bytes) /\ Written(st.out) \o st.buf = s
      /\ Newlines(st.buf) = {} /\ Len(st.buf) <= Cap
      /\ (st.over => st.buf = <<>>) /\ (st.over <=> ~Whole(st.out))
  BY DEF Framing, Typed
<1>2. NL \in Bytes /\ Cap \in Nat /\ ReadMax \in Nat
  BY FramedStreamAssumption DEF Bytes
<1>3. /\ line \in Seq(Bytes) /\ line # <<>> /\ Len(line) = Len(head) + 1
      /\ Len(head) \in Nat /\ line[Len(head) + 1] = NL
      /\ \A i \in 1 .. Len(head) : line[i] = head[i]
  BY <1>2, AppendProperties, LenProperties
<1>4. \A i \in 1 .. Len(head) : head[i] # NL
  BY NoNewline
<1>5. \A i \in 1 .. Len(st.buf) : st.buf[i] # NL
  BY <1>1, NoNewline
<1> HIDE DEF line
<1>6. c \in Chunks /\ Suits(Whole(st.out), c) /\ c.t # "rem" /\ LineDone(c)
      /\ Written(st.out) \o Wire(c) = s \o line
  <2>1. CASE st.over
    <3>1. c = Raw(line) /\ c.t = "raw" /\ c.b = line
      BY <2>1 DEF Raw, line
    <3>2. c \in Chunks
      BY <1>3, <3>1 DEF Raw, Chunks
    <3>3. Whole(st.out) = FALSE
      BY <1>1, <2>1 DEF Whole, LineDone
    <3>4. Newlines(line) \subseteq {Len(line)}
      <4>1. DOMAIN line = 1 .. Len(line)
        BY <1>3, LenProperties
      <4>2. ASSUME NEW i \in 1 .. Len(line), line[i] = NL PROVE i = Len(line)
        BY <1>3, <1>4, <4>2
      <4>3. QED
        BY <4>1, <4>2 DEF Newlines
    <3>5. Suits(FALSE, c)
      BY <1>3, <3>1, <3>4 DEF Suits
    <3>6. LineDone(c)
      BY <1>3, <3>1 DEF LineDone, Last
    <3>7. Wire(c) = line
      BY <3>1 DEF Wire
    <3>8. Written(st.out) = s
      BY <1>1, <2>1, ConcatEmptySeq
    <3>9. QED
      BY <3>1, <3>2, <3>3, <3>5, <3>6, <3>7, <3>8
  <2>2. CASE ~st.over
    <3> DEFINE b == st.buf \o head
    <3>1. c = Frame(b) /\ c.t = "frame" /\ c.b = b
      BY <2>2 DEF Frame
    <3>2. /\ b \in Seq(Bytes) /\ Len(b) = Len(st.buf) + Len(head)
          /\ Len(st.buf) \in Nat
          /\ \A i \in 1 .. Len(st.buf) + Len(head) :
               b[i] = IF i <= Len(st.buf) THEN st.buf[i] ELSE head[i - Len(st.buf)]
      BY <1>1, ConcatProperties, LenProperties
    <3>3. Whole(st.out) = TRUE
      BY <1>1, <2>2 DEF Whole, LineDone
    <3>4. Wire(c) = Append(b, NL)
      BY <3>1 DEF Wire
    <3> DEFINE v == <<NL>>
    <3>5. v \in Seq(Bytes)
      BY <1>2
    <3>6. Append(b, NL) = b \o v /\ line = head \o v
      BY <1>2, <3>2, AppendIsConcat DEF line
    <3> HIDE DEF v
    <3>7. b \o v = st.buf \o line
      <4>1. st.buf \in Seq(Bytes)
        BY <1>1
      <4>2. (st.buf \o head) \o v = st.buf \o (head \o v)
        BY <3>5, <4>1, Regroup
      <4>3. QED
        BY <3>6, <4>2
    <3>8. Written(st.out) \o (st.buf \o line) = s \o line
      <4>1. Written(st.out) \in Seq(Bytes) /\ st.buf \in Seq(Bytes) /\ line \in Seq(Bytes)
        BY <1>1, <1>3
      <4>2. (Written(st.out) \o st.buf) \o line = Written(st.out) \o (st.buf \o line)
        BY <4>1, Regroup
      <4>3. QED
        BY <1>1, <4>2
    <3> HIDE DEF b, c
    <3>9. Newlines(b) = {}
      <4>1. ASSUME NEW i \in 1 .. Len(b) PROVE b[i] # NL
        <5>1. CASE i <= Len(st.buf)
          BY <1>5, <3>2, <5>1
        <5>2. CASE ~(i <= Len(st.buf))
          <6>1. i - Len(st.buf) \in 1 .. Len(head)
            BY <1>3, <3>2, <5>2
          <6>2. QED
            BY <1>4, <3>2, <5>2, <6>1
        <5>3. QED
          BY <5>1, <5>2
      <4>2. QED
        BY <3>2, <4>1, NoNewline
    <3>10. Len(b) < Cap + ReadMax
      BY <1>1, <1>2, <1>3, <3>2
    <3>11. c \in Chunks
      BY <3>1, <3>2 DEF Frame, Chunks
    <3>12. Suits(TRUE, c)
      BY <3>1, <3>9, <3>10 DEF Suits
    <3>13. LineDone(c)
      BY <3>1 DEF LineDone
    <3>14. QED
      BY <3>1, <3>3, <3>4, <3>6, <3>7, <3>8, <3>11, <3>12, <3>13
  <2>3. QED
    BY <1>1, <2>1, <2>2
<1> DEFINE u == Append(st.out, c)
<1>7. /\ u \in Seq(Chunks) /\ InLine(u) /\ u # <<>>
      /\ \A i \in 1 .. Len(u) : u[i].t # "rem"
      /\ Written(u) = s \o line /\ Written(u) \in Seq(Bytes)
      /\ Whole(u)
  <2> HIDE DEF c
  <2>1. QED
    BY <1>6, ChunkReturned
<1>8. AtNewline(st, head) = [buf |-> <<>>, over |-> FALSE, out |-> u]
  BY DEF AtNewline
<1> HIDE DEF u, c
<1>9. <<>> \in Seq(Bytes) /\ Len(<<>>) = 0 /\ Newlines(<<>>) = {}
  BY EmptySeq DEF Newlines
<1>10. Written(u) \o <<>> = s \o line
  BY <1>7, ConcatEmptySeq
<1> DEFINE r == [buf |-> <<>>, over |-> FALSE, out |-> u]
<1>11. r.buf = <<>> /\ r.over = FALSE /\ r.out = u /\ Typed(r)
  BY <1>7, <1>9 DEF Typed
<1> HIDE DEF r
<1>12. Framing(r, s \o line)
  <2>1. Typed(r) /\ Written(r.out) \in Seq(Bytes) /\ Written(r.out) \o r.buf = s \o line
    BY <1>7, <1>10, <1>11
  <2>2. InLine(r.out) /\ \A i \in 1 .. Len(r.out) : r.out[i].t # "rem"
    BY <1>7, <1>11
  <2>3. Newlines(r.buf) = {} /\ Len(r.buf) <= Cap
    BY <1>2, <1>9, <1>11
  <2>4. ~r.over /\ Whole(r.out)
    BY <1>7, <1>11
  <2>5. QED
    BY <2>1, <2>2, <2>3, <2>4 DEF Framing
<1>13. QED
  BY <1>7, <1>8, <1>12 DEF r, line

LEMMA Updated ==
  ASSUME NEW st, Typed(st), NEW x
  PROVE  /\ [st EXCEPT !.out = x] = [buf |-> st.buf, over |-> st.over, out |-> x]
         /\ [st EXCEPT !.buf = x] = [buf |-> x, over |-> st.over, out |-> st.out]
  BY DEF Typed

LEMMA RemainderFramed ==
  ASSUME NEW st, NEW s \in Seq(Bytes), Framing(st, s),
         NEW rest \in Seq(Bytes), Newlines(rest) = {}
  PROVE  Framing(AtRest(st, rest), s \o rest)
<1>1. /\ st.buf \in Seq(Bytes) /\ st.out \in Seq(Chunks) /\ st.over \in BOOLEAN
      /\ Written(st.out) \in Seq(Bytes) /\ Written(st.out) \o st.buf = s
      /\ Newlines(st.buf) = {} /\ Len(st.buf) <= Cap
      /\ (st.over => st.buf = <<>>) /\ (st.over <=> ~Whole(st.out))
  BY DEF Framing, Typed
<1>0. Typed(st)
  BY DEF Framing
<1>2. Cap \in Nat
  BY FramedStreamAssumption
<1>3. CASE rest = <<>>
  <2>1. AtRest(st, rest) = st /\ s \o rest = s
    BY <1>3, ConcatEmptySeq DEF AtRest, Remainder
  <2>2. QED
    BY <2>1
<1>4. CASE rest # <<>> /\ st.over
  <2> DEFINE c == Raw(rest)
  <2> DEFINE u == Append(st.out, c)
  <2>1. c.t = "raw" /\ c.b = rest /\ c \in Chunks /\ Wire(c) = rest
    BY DEF Raw, Chunks, Wire
  <2>2. Whole(st.out) = FALSE
    BY <1>1, <1>4 DEF Whole, LineDone
  <2>3. Suits(FALSE, c)
    BY <1>4, <2>1 DEF Suits
  <2>4. ~LineDone(c)
    <3>1. Len(rest) \in 1 .. Len(rest) /\ \A i \in 1 .. Len(rest) : rest[i] # NL
      BY <1>4, EmptySeq, NoNewline
    <3>2. QED
      BY <2>1, <3>1 DEF LineDone, Last
  <2> HIDE DEF c
  <2>5. /\ u \in Seq(Chunks) /\ InLine(u) /\ \A i \in 1 .. Len(u) : u[i].t # "rem"
        /\ Written(u) = Written(st.out) \o rest /\ Written(u) \in Seq(Bytes) /\ ~Whole(u)
    BY <2>1, <2>2, <2>3, <2>4, ChunkReturned
  <2> DEFINE r == [buf |-> st.buf, over |-> st.over, out |-> u]
  <2>6. AtRest(st, rest) = r
    <3>1. [st EXCEPT !.out = Append(@, c)] = r
      BY <1>0, Updated
    <3>2. QED
      BY <1>4, <3>1 DEF AtRest, Remainder, c
  <2> HIDE DEF u
  <2>7. r.buf = <<>> /\ r.over = TRUE /\ r.out = u /\ Typed(r)
    BY <1>1, <1>4, <2>5 DEF Typed
  <2>8. Written(u) \o <<>> = s \o rest
    BY <1>1, <1>4, <2>5, ConcatEmptySeq
  <2> HIDE DEF r
  <2>9. Framing(r, s \o rest)
    <3>1. Typed(r) /\ Written(r.out) \in Seq(Bytes) /\ Written(r.out) \o r.buf = s \o rest
      BY <2>5, <2>7, <2>8
    <3>2. InLine(r.out) /\ \A i \in 1 .. Len(r.out) : r.out[i].t # "rem"
      BY <2>5, <2>7
    <3>3. Newlines(r.buf) = {} /\ Len(r.buf) <= Cap
      BY <1>1, <1>4, <2>7
    <3>4. r.over /\ ~Whole(r.out) /\ r.buf = <<>>
      BY <2>5, <2>7
    <3>5. QED
      BY <3>1, <3>2, <3>3, <3>4 DEF Framing
  <2>10. QED
    BY <2>6, <2>9
<1>5. CASE rest # <<>> /\ ~st.over
  <2> DEFINE b == st.buf \o rest
  <2>1. /\ b \in Seq(Bytes) /\ Len(b) = Len(st.buf) + Len(rest)
        /\ Len(st.buf) \in Nat /\ Len(rest) \in Nat \ {0}
        /\ \A i \in 1 .. Len(st.buf) + Len(rest) :
             b[i] = IF i <= Len(st.buf) THEN st.buf[i] ELSE rest[i - Len(st.buf)]
    BY <1>1, <1>5, ConcatProperties, LenProperties, EmptySeq
  <2>2. Whole(st.out) = TRUE
    BY <1>1, <1>5 DEF Whole, LineDone
  <2>3. Written(st.out) \o (st.buf \o rest) = (Written(st.out) \o st.buf) \o rest
    BY <1>1, Regroup
  <2>4. Written(st.out) \o b = s \o rest
    BY <1>1, <2>3
  <2>5. \A i \in 1 .. Len(st.buf) : st.buf[i] # NL
    BY <1>1, NoNewline
  <2>6. \A i \in 1 .. Len(rest) : rest[i] # NL
    BY NoNewline
  <2> HIDE DEF b
  <2>7. \A i \in 1 .. Len(b) : b[i] # NL
    <3>1. ASSUME NEW i \in 1 .. Len(b) PROVE b[i] # NL
      <4>0. i \in 1 .. Len(st.buf) + Len(rest)
        BY <2>1
      <4>1. CASE i <= Len(st.buf)
        <5>1. i \in 1 .. Len(st.buf) /\ b[i] = st.buf[i]
          BY <2>1, <4>0, <4>1
        <5>2. QED
          BY <2>5, <5>1
      <4>2. CASE ~(i <= Len(st.buf))
        <5>1. i - Len(st.buf) \in 1 .. Len(rest)
          BY <2>1, <4>0, <4>2
        <5>2. b[i] = rest[i - Len(st.buf)]
          BY <2>1, <4>0, <4>2
        <5>3. QED
          BY <2>6, <5>1, <5>2
      <4>3. QED
        BY <4>1, <4>2
    <3>2. QED
      BY <3>1
  <2>8. Newlines(b) = {}
    BY <2>1, <2>7, NoNewline
  <2>9. CASE Len(st.buf) + Len(rest) > Cap
    <3> DEFINE c == Raw(b)
    <3> DEFINE u == Append(st.out, c)
    <3>1. c.t = "raw" /\ c.b = b /\ c \in Chunks /\ Wire(c) = b
      BY <2>1 DEF Raw, Chunks, Wire
    <3>2. b # <<>> /\ Len(b) \in 1 .. Len(b) /\ Len(b) > Cap
      BY <2>1, <2>9, EmptySeq
    <3>3. Suits(TRUE, c)
      BY <2>8, <3>1, <3>2 DEF Suits
    <3>4. ~LineDone(c)
      BY <2>7, <3>1, <3>2 DEF LineDone, Last
    <3> HIDE DEF c
    <3>5. /\ u \in Seq(Chunks) /\ InLine(u) /\ \A i \in 1 .. Len(u) : u[i].t # "rem"
          /\ Written(u) = Written(st.out) \o b /\ Written(u) \in Seq(Bytes) /\ ~Whole(u)
      BY <2>2, <3>1, <3>3, <3>4, ChunkReturned
    <3> DEFINE r == [buf |-> <<>>, over |-> TRUE, out |-> u]
    <3>6. AtRest(st, rest) = r
      BY <1>5, <2>9 DEF AtRest, Remainder, c, b
    <3> HIDE DEF u
    <3>7. r.buf = <<>> /\ r.over = TRUE /\ r.out = u /\ Typed(r)
      BY <3>5, EmptySeq DEF Typed
    <3>8. Written(u) \o <<>> = s \o rest
      BY <2>4, <3>5, ConcatEmptySeq
    <3>9. Newlines(<<>>) = {} /\ Len(<<>>) <= Cap
      BY <1>2, EmptySeq DEF Newlines
    <3> HIDE DEF r
    <3>10. Framing(r, s \o rest)
      <4>1. Typed(r) /\ Written(r.out) \in Seq(Bytes) /\ Written(r.out) \o r.buf = s \o rest
        BY <3>5, <3>7, <3>8
      <4>2. InLine(r.out) /\ \A i \in 1 .. Len(r.out) : r.out[i].t # "rem"
        BY <3>5, <3>7
      <4>3. Newlines(r.buf) = {} /\ Len(r.buf) <= Cap
        BY <3>7, <3>9
      <4>4. r.over /\ ~Whole(r.out) /\ r.buf = <<>>
        BY <3>5, <3>7
      <4>5. QED
        BY <4>1, <4>2, <4>3, <4>4 DEF Framing
    <3>11. QED
      BY <3>6, <3>10
  <2>10. CASE ~(Len(st.buf) + Len(rest) > Cap)
    <3> DEFINE r == [buf |-> b, over |-> st.over, out |-> st.out]
    <3>1. [st EXCEPT !.buf = @ \o rest] = r
      BY <1>0, Updated DEF b
    <3>2. AtRest(st, rest) = r
      BY <1>5, <2>10, <3>1 DEF AtRest, Remainder
    <3>3. r.buf = b /\ r.over = FALSE /\ r.out = st.out /\ Typed(r)
      BY <1>1, <1>5, <2>1 DEF Typed
    <3>4. Len(b) <= Cap
      BY <1>2, <2>1, <2>10
    <3> HIDE DEF r
    <3>5. Framing(r, s \o rest)
      <4>1. Typed(r) /\ Written(r.out) \in Seq(Bytes) /\ Written(r.out) \o r.buf = s \o rest
        BY <1>1, <2>4, <3>3
      <4>2. InLine(r.out) /\ \A i \in 1 .. Len(r.out) : r.out[i].t # "rem"
        BY <3>3 DEF Framing
      <4>3. Newlines(r.buf) = {} /\ Len(r.buf) <= Cap
        BY <2>8, <3>3, <3>4
      <4>4. ~r.over /\ Whole(r.out)
        BY <2>2, <3>3
      <4>5. QED
        BY <4>1, <4>2, <4>3, <4>4 DEF Framing
    <3>6. QED
      BY <3>2, <3>5
  <2>11. QED
    BY <2>9, <2>10
<1>6. QED
  BY <1>1, <1>3, <1>4, <1>5

-----------------------------------------------------------------------------
(* LineSplitter beside FramedStream.                                       *)

LEMMA NewlineTwin ==
  ASSUME NEW f, NEW p, NEW s \in Seq(Bytes), Framing(f, s), Twin(f, p),
         NEW head \in Seq(Bytes)
  PROVE  Twin(AtNewline(f, head), SplitAtNewline(p, head))
<1>1. /\ f.buf \in Seq(Bytes) /\ f.out \in Seq(Chunks) /\ f.over \in BOOLEAN
      /\ p.buf = f.buf /\ p.over = f.over /\ p.out = Tapped(f.out)
  BY DEF Framing, Typed, Twin
<1>2. NL \in Bytes
  BY DEF Bytes
<1> DEFINE c == IF f.over THEN Raw(Append(head, NL)) ELSE Frame(f.buf \o head)
<1>3. CASE f.over
  <2>1. c \in Chunks /\ c.t # "frame"
    BY <1>2, <1>3, AppendProperties DEF Raw, Chunks
  <2>2. Tapped(Append(f.out, c)) = p.out
    <3> HIDE DEF c
    <3>1. QED
      BY <1>1, <2>1, TappedGrows
  <2>3. QED
    BY <1>1, <1>3, <2>2 DEF Twin, AtNewline, SplitAtNewline
<1>4. CASE ~f.over
  <2>1. c \in Chunks /\ c.t = "frame" /\ c.b = f.buf \o head
    BY <1>1, <1>4, ConcatProperties DEF Frame, Chunks
  <2>2. Tapped(Append(f.out, c)) = Append(p.out, f.buf \o head)
    <3> HIDE DEF c
    <3>1. QED
      BY <1>1, <2>1, TappedGrows
  <2>3. QED
    BY <1>1, <1>4, <2>2 DEF Twin, AtNewline, SplitAtNewline
<1>5. QED
  BY <1>1, <1>3, <1>4

LEMMA RemainderTwin ==
  ASSUME NEW f, NEW p, NEW s \in Seq(Bytes), Framing(f, s), Twin(f, p),
         NEW rest \in Seq(Bytes)
  PROVE  Twin(AtRest(f, rest), SplitAtRest(p, rest))
<1>1. /\ f.buf \in Seq(Bytes) /\ f.out \in Seq(Chunks) /\ f.over \in BOOLEAN
      /\ p.buf = f.buf /\ p.over = f.over /\ p.out = Tapped(f.out)
      /\ f = [buf |-> f.buf, over |-> f.over, out |-> f.out]
      /\ p = [buf |-> f.buf, over |-> f.over, out |-> p.out]
      /\ (f.over => f.buf = <<>>)
  BY DEF Framing, Typed, Twin
<1> DEFINE over == Len(f.buf) + Len(rest) > Cap
<1> DEFINE c == IF f.over THEN Raw(rest) ELSE Raw(f.buf \o rest)
<1>2. c \in Chunks /\ c.t # "frame"
  BY <1>1, ConcatProperties DEF Raw, Chunks
<1>3. Tapped(Append(f.out, c)) = p.out
  <2> HIDE DEF c
  <2>1. QED
    BY <1>1, <1>2, TappedGrows
<1> HIDE DEF c
<1>4. CASE rest = <<>>
  BY <1>4 DEF AtRest, Remainder, SplitAtRest
<1>5. CASE rest # <<>> /\ f.over
  <2>1. AtRest(f, rest) = [buf |-> f.buf, over |-> f.over, out |-> Append(f.out, c)]
    BY <1>1, <1>5 DEF AtRest, Remainder, c
  <2>2. SplitAtRest(p, rest) = p
    BY <1>1, <1>5 DEF SplitAtRest
  <2>3. p.out = Tapped(AtRest(f, rest).out)
    BY <1>3, <2>1
  <2>4. QED
    BY <1>1, <2>1, <2>2, <2>3 DEF Twin
<1>6. CASE rest # <<>> /\ ~f.over /\ over
  <2>1. AtRest(f, rest) = [buf |-> <<>>, over |-> TRUE, out |-> Append(f.out, c)]
    BY <1>1, <1>6 DEF AtRest, Remainder, c
  <2>2. SplitAtRest(p, rest) = [buf |-> <<>>, over |-> TRUE, out |-> p.out]
    BY <1>1, <1>6 DEF SplitAtRest
  <2>3. p.out = Tapped(AtRest(f, rest).out)
    BY <1>3, <2>1
  <2>4. QED
    BY <1>1, <2>1, <2>2, <2>3 DEF Twin
<1>7. CASE rest # <<>> /\ ~f.over /\ ~over
  <2>1. AtRest(f, rest) = [buf |-> f.buf \o rest, over |-> f.over, out |-> f.out]
    BY <1>1, <1>7 DEF AtRest, Remainder
  <2>2. SplitAtRest(p, rest) = [buf |-> f.buf \o rest, over |-> f.over, out |-> p.out]
    BY <1>1, <1>7 DEF SplitAtRest
  <2>3. QED
    BY <1>1, <2>1, <2>2 DEF Twin
<1>8. QED
  BY <1>1, <1>4, <1>5, <1>6, <1>7

-----------------------------------------------------------------------------
(* A read: its newlines one after the other, then what follows them.       *)

LEMMA PassedFits ==
  ASSUME NEW data \in Seq(Bytes), NEW st
  PROVE  \E m : Fits(m, "framed", data, st, 0, Len(data)) /\ Passed(st, data) = m[Len(data)]
<1>1. Len(data) \in Nat /\ 0 <= Len(data)
  BY LenProperties
<1> DEFINE P(f) == f = [n \in 0 .. Len(data) |->
                          IF n = 0 THEN st
                          ELSE IF data[n] = NL THEN AtNewline(f[n - 1], HeadAt(data, n))
                          ELSE f[n - 1]]
<1>2. \A f : P(f) <=> Fits(f, "framed", data, st, 0, Len(data))
  BY DEF Fits, Stepped
<1>3. \E f : P(f)
  BY <1>1, <1>2, FitsChosen
<1>4. Passed(st, data) = (CHOOSE f : P(f))[Len(data)]
  BY DEF Passed
<1>5. P(CHOOSE f : P(f))
  <2> HIDE DEF P
  <2>1. QED
    BY <1>3
<1> DEFINE m == CHOOSE f : P(f)
<1>6. Fits(m, "framed", data, st, 0, Len(data)) /\ Passed(st, data) = m[Len(data)]
  <2> HIDE DEF P
  <2>1. QED
    BY <1>2, <1>4, <1>5
<1>7. QED
  BY <1>6

LEMMA SplitPassedFits ==
  ASSUME NEW data \in Seq(Bytes), NEW st
  PROVE  \E m : Fits(m, "split", data, st, 0, Len(data)) /\ SplitPassed(st, data) = m[Len(data)]
<1>1. Len(data) \in Nat /\ 0 <= Len(data)
  BY LenProperties
<1> DEFINE P(f) == f = [n \in 0 .. Len(data) |->
                          IF n = 0 THEN st
                          ELSE IF data[n] = NL THEN SplitAtNewline(f[n - 1], HeadAt(data, n))
                          ELSE f[n - 1]]
<1>2. \A f : P(f) <=> Fits(f, "split", data, st, 0, Len(data))
  BY DEF Fits, Stepped
<1>3. \E f : P(f)
  BY <1>1, <1>2, FitsChosen
<1>4. SplitPassed(st, data) = (CHOOSE f : P(f))[Len(data)]
  BY DEF SplitPassed
<1>5. P(CHOOSE f : P(f))
  <2> HIDE DEF P
  <2>1. QED
    BY <1>3
<1> DEFINE m == CHOOSE f : P(f)
<1>6. Fits(m, "split", data, st, 0, Len(data)) /\ SplitPassed(st, data) = m[Len(data)]
  <2> HIDE DEF P
  <2>1. QED
    BY <1>2, <1>4, <1>5
<1>7. QED
  BY <1>6

LEMMA PassedFramed ==
  ASSUME NEW f, NEW p, NEW s \in Seq(Bytes), Framing(f, s), Twin(f, p),
         NEW data \in Seq(Bytes), Len(data) <= ReadMax
  PROVE  LET seen == s \o SubSeq(data, 1, Cut(data, Len(data)))
         IN  /\ seen \in Seq(Bytes) /\ Framing(Passed(f, data), seen)
             /\ Twin(Passed(f, data), SplitPassed(p, data))
<1> DEFINE k == Len(data)
<1> DEFINE Seen(n) == s \o SubSeq(data, 1, Cut(data, n))
<1>1. k \in Nat /\ ReadMax \in Nat
  BY LenProperties, FramedStreamAssumption
<1>2. PICK m : Fits(m, "framed", data, f, 0, k) /\ Passed(f, data) = m[k]
  BY PassedFits
<1>3. PICK q : Fits(q, "split", data, p, 0, k) /\ SplitPassed(p, data) = q[k]
  BY SplitPassedFits
<1>4. Steps(m, "framed", data, f, 0, k) /\ Steps(q, "split", data, p, 0, k)
  BY <1>1, <1>2, <1>3, FitsIs
<1> DEFINE R(n) == Seen(n) \in Seq(Bytes) /\ Framing(m[n], Seen(n)) /\ Twin(m[n], q[n])
<1> DEFINE G == {n \in Nat : n <= k => R(n)}
<1>5. 0 \in G
  <2>1. Cut(data, 0) = 0
    <3>1. 0 \in 0 .. Len(data)
      BY <1>1
    <3>2. Cut(data, 0) \in 0 .. 0
      BY <3>1, CutIs
    <3>3. QED
      BY <3>2
  <2>2. SubSeq(data, 1, 0) = <<>>
    BY SubSeqEmpty
  <2>3. Seen(0) = s
    BY <2>1, <2>2, ConcatEmptySeq
  <2>4. m[0] = f /\ q[0] = p
    BY <1>4 DEF Steps
  <2> HIDE DEF Seen
  <2>5. QED
    BY <2>3, <2>4
<1>6. ASSUME NEW n \in Nat, n \in G PROVE n + 1 \in G
  <2>1. CASE n + 1 <= k
    <3>1. R(n) /\ 0 <= n /\ n + 1 \in 1 .. Len(data) /\ n + 1 - 1 = n
      BY <1>1, <1>6, <2>1
    <3> HIDE DEF G
    <3>2. /\ m[n + 1] = Stepped("framed", data, n + 1, m[n])
          /\ q[n + 1] = Stepped("split", data, n + 1, q[n])
      BY <1>4, <2>1, <3>1 DEF Steps
    <3>3. CASE data[n + 1] = NL
      <4> DEFINE h == HeadAt(data, n + 1)
      <4>1. /\ h \in Seq(Bytes) /\ Newlines(h) = {} /\ Len(h) < Len(data)
            /\ SubSeq(data, 1, Cut(data, n)) \in Seq(Bytes)
            /\ SubSeq(data, 1, Cut(data, n + 1)) = SubSeq(data, 1, Cut(data, n)) \o Append(h, NL)
        <5> DEFINE j == n + 1
        <5>1. j \in 1 .. Len(data) /\ data[j] = NL /\ j - 1 = n /\ h = HeadAt(data, j)
          BY <3>1, <3>3
        <5> HIDE DEF h, j
        <5>2. /\ h \in Seq(Bytes) /\ Newlines(h) = {} /\ Len(h) < Len(data)
              /\ SubSeq(data, 1, Cut(data, j - 1)) \in Seq(Bytes)
              /\ SubSeq(data, 1, Cut(data, j))
                   = SubSeq(data, 1, Cut(data, j - 1)) \o Append(h, NL)
          BY <5>1, HeadAtIs
        <5>3. /\ SubSeq(data, 1, Cut(data, n)) \in Seq(Bytes)
              /\ SubSeq(data, 1, Cut(data, j)) = SubSeq(data, 1, Cut(data, n)) \o Append(h, NL)
          BY <5>1, <5>2
        <5>4. QED
          BY <5>2, <5>3 DEF j
      <4>2. Len(h) < ReadMax
        <5>1. Len(h) \in Nat
          BY <4>1, LenProperties
        <5> HIDE DEF h
        <5>2. QED
          BY <1>1, <4>1, <5>1
      <4>3. Append(h, NL) \in Seq(Bytes)
        <5>1. NL \in Bytes
          BY DEF Bytes
        <5>2. QED
          BY <4>1, <5>1, AppendProperties
      <4>4. Seen(n + 1) = Seen(n) \o Append(h, NL)
        <5> HIDE DEF h
        <5>1. (s \o SubSeq(data, 1, Cut(data, n))) \o Append(h, NL)
                = s \o (SubSeq(data, 1, Cut(data, n)) \o Append(h, NL))
          BY <4>1, <4>3, Regroup
        <5>2. QED
          BY <4>1, <5>1
      <4>5. m[n + 1] = AtNewline(m[n], h) /\ q[n + 1] = SplitAtNewline(q[n], h)
        BY <3>2, <3>3 DEF Stepped
      <4> HIDE DEF h, Seen
      <4>6. Framing(AtNewline(m[n], h), Seen(n + 1)) /\ Seen(n + 1) \in Seq(Bytes)
        <5> DEFINE x == m[n]
        <5> DEFINE a == Seen(n)
        <5>1. a \in Seq(Bytes) /\ Framing(x, a) /\ Seen(n + 1) = a \o Append(h, NL)
          BY <3>1, <4>4
        <5>2. h \in Seq(Bytes) /\ Newlines(h) = {}
          BY <4>1
        <5> HIDE DEF x, a
        <5>3. Framing(AtNewline(x, h), a \o Append(h, NL)) /\ a \o Append(h, NL) \in Seq(Bytes)
          BY <4>2, <5>1, <5>2, NewlineFramed
        <5>4. QED
          BY <5>1, <5>3 DEF x
      <4>7. Twin(AtNewline(m[n], h), SplitAtNewline(q[n], h))
        BY <3>1, <4>1, NewlineTwin
      <4>8. R(n + 1)
        BY <4>5, <4>6, <4>7
      <4>9. QED
        BY <4>8 DEF G
    <3>4. CASE data[n + 1] # NL
      <4>1. Cut(data, n + 1) = Cut(data, n)
        BY <3>1, <3>4, CutStep
      <4>2. m[n + 1] = m[n] /\ q[n + 1] = q[n]
        BY <3>2, <3>4 DEF Stepped
      <4>3. Seen(n + 1) = Seen(n)
        BY <4>1
      <4> HIDE DEF Seen
      <4>4. R(n + 1)
        BY <3>1, <4>2, <4>3
      <4>5. QED
        BY <4>4 DEF G
    <3>5. QED
      BY <3>3, <3>4
  <2>2. CASE ~(n + 1 <= k)
    BY <2>2
  <2>3. QED
    BY <2>1, <2>2
<1>7. k \in G
  <2> HIDE DEF G, k
  <2>1. QED
    BY <1>1, <1>5, <1>6, ByInduction
<1>8. R(k)
  <2> HIDE DEF R, k
  <2>1. QED
    BY <1>1, <1>7
<1> HIDE DEF k
<1>9. QED
  BY <1>2, <1>3, <1>8 DEF k

LEMMA PushFramed ==
  ASSUME NEW f, NEW p, NEW s \in Seq(Bytes), Framing(f, s), Twin(f, p),
         NEW data \in Seq(Bytes), Len(data) <= ReadMax
  PROVE  /\ Framing(Push(f, data), s \o data) /\ s \o data \in Seq(Bytes)
         /\ Twin(Push(f, data), Split(p, data))
<1> DEFINE first == SubSeq(data, 1, Cut(data, Len(data)))
<1> DEFINE seen == s \o first
<1>1. /\ seen \in Seq(Bytes) /\ Framing(Passed(f, data), seen)
      /\ Twin(Passed(f, data), SplitPassed(p, data))
  BY PassedFramed
<1>2. /\ Rest(data) \in Seq(Bytes) /\ Newlines(Rest(data)) = {}
      /\ first \in Seq(Bytes) /\ first \o Rest(data) = data
  BY RestIs
<1> HIDE DEF first
<1>3. (s \o first) \o Rest(data) = s \o (first \o Rest(data))
  BY <1>2, Regroup
<1>4. seen \o Rest(data) = s \o data
  BY <1>2, <1>3
<1> HIDE DEF seen
<1>5. Framing(AtRest(Passed(f, data), Rest(data)), s \o data)
  BY <1>1, <1>2, <1>4, RemainderFramed
<1>6. Twin(AtRest(Passed(f, data), Rest(data)), SplitAtRest(SplitPassed(p, data), Rest(data)))
  BY <1>1, <1>2, RemainderTwin
<1>7. s \o data \in Seq(Bytes)
  BY ConcatProperties
<1>8. QED
  BY <1>5, <1>6, <1>7 DEF Push, Split

-----------------------------------------------------------------------------
(* The specification.                                                      *)

\* All that is claimed of the two splitters when they have read s.
Kept(f, p, s) ==
  /\ Typed(f) /\ Written(f.out) \o f.buf = s /\ InLine(f.out)
  /\ \A i \in 1 .. Len(f.out) : f.out[i].t = "rem" => i = Len(f.out)
  /\ p.out = Tapped(f.out)
  /\ Len(f.buf) <= Cap /\ Len(p.buf) <= Cap

LEMMA KeptMeans ==
  ASSUME Kept(framer, splitter, fed) PROVE StreamKept /\ CapHolds
<1>1. DOMAIN framer.out = 1 .. Len(framer.out)
  BY LenProperties DEF Kept, Typed
<1>2. ASSUME NEW i \in DOMAIN framer.out
      PROVE  Suits(i = 1 \/ LineDone(framer.out[i - 1]), framer.out[i])
  BY <1>1, <1>2 DEF InLine, Kept
<1>3. ChunksFollow
  BY <1>1, <1>2 DEF ChunksFollow, Suits, Kept
<1>4. OnlyOversizedRaw
  BY <1>1, <1>2 DEF OnlyOversizedRaw, Suits
<1>5. Lossless
  BY DEF Lossless, Kept, Written, Wires
<1>6. Mirrors
  BY DEF Mirrors, Kept, Tapped
<1>7. Bounded
  BY <1>1, <1>2 DEF Bounded, Suits, Kept
<1>8. QED
  BY <1>3, <1>4, <1>5, <1>6, <1>7 DEF StreamKept, CapHolds

LEMMA FramingKept ==
  ASSUME NEW f, NEW p, NEW s, Framing(f, s), Twin(f, p)
  PROVE  Kept(f, p, s)
  BY DEF Framing, Twin, Kept

\* While the stream is open both splitters are where they should be; at its end what is
\* claimed of them is true, and stays so.
FramedInv ==
  /\ fed \in Seq(Bytes)
  /\ open => Framing(framer, fed) /\ Twin(framer, splitter)
  /\ ~open => Kept(framer, splitter, fed)

LEMMA FramedStart == ASSUME Init PROVE FramedInv
<1>1. Fresh = [buf |-> <<>>, over |-> FALSE, out |-> <<>>]
  BY DEF Fresh
<1>2. <<>> \in Seq(Bytes) /\ <<>> \in Seq(Chunks) /\ Len(<<>>) = 0
  BY EmptySeq
<1> DEFINE r == Fresh
<1>3. r.buf = <<>> /\ r.over = FALSE /\ r.out = <<>> /\ Typed(r)
  BY <1>1, <1>2 DEF Typed
<1>4. Written(<<>>) = <<>> /\ Tapped(<<>>) = <<>> /\ Newlines(<<>>) = {}
  BY WrittenNone, TappedNone DEF Newlines
<1>5. r = [buf |-> r.buf, over |-> r.over, out |-> Tapped(r.out)]
  BY <1>1, <1>3, <1>4
<1> HIDE DEF r
<1>6. <<>> \o <<>> = <<>>
  BY <1>2, ConcatEmptySeq
<1>7. Framing(r, <<>>)
  <2>1. Typed(r) /\ Written(r.out) \in Seq(Bytes) /\ Written(r.out) \o r.buf = <<>>
    BY <1>2, <1>3, <1>4, <1>6
  <2>2. InLine(r.out) /\ \A i \in 1 .. Len(r.out) : r.out[i].t # "rem"
    BY <1>2, <1>3 DEF InLine
  <2>3. Newlines(r.buf) = {} /\ Len(r.buf) <= Cap
    BY <1>2, <1>3, <1>4, FramedStreamAssumption
  <2>4. ~r.over /\ Whole(r.out)
    BY <1>3 DEF Whole
  <2>5. QED
    BY <2>1, <2>2, <2>3, <2>4 DEF Framing
<1>8. QED
  BY <1>2, <1>5, <1>7 DEF FramedInv, Init, Twin, r

LEMMA ReadFramed == ASSUME FramedInv, Read PROVE FramedInv'
<1>1. PICK n \in 1 .. ReadMax : \E data \in [1 .. n -> Byte \cup {NL}] :
        /\ fed' = fed \o data
        /\ framer' = Push(framer, data)
        /\ splitter' = Split(splitter, data)
  BY DEF Read
<1>2. PICK data \in [1 .. n -> Byte \cup {NL}] :
        /\ fed' = fed \o data
        /\ framer' = Push(framer, data)
        /\ splitter' = Split(splitter, data)
  BY <1>1
<1>3. data \in Seq(Bytes) /\ Len(data) <= ReadMax
  <2>1. ReadMax \in Nat
    BY FramedStreamAssumption
  <2>2. QED
    BY <2>1 DEF Bytes
<1>4. open /\ open' = open
  BY DEF Read
<1>5. fed \in Seq(Bytes) /\ Framing(framer, fed) /\ Twin(framer, splitter)
  BY <1>4 DEF FramedInv
<1>6. /\ Framing(Push(framer, data), fed \o data) /\ fed \o data \in Seq(Bytes)
      /\ Twin(Push(framer, data), Split(splitter, data))
  BY <1>3, <1>5, PushFramed
<1>7. Framing(framer', fed') /\ fed' \in Seq(Bytes) /\ Twin(framer', splitter')
  BY <1>2, <1>6
<1>8. QED
  BY <1>4, <1>7 DEF FramedInv, Framing, Twin, Typed, Whole, LineDone, InLine, Suits

LEMMA EofFramed == ASSUME FramedInv, Eof PROVE FramedInv'
<1>1. /\ open /\ ~open' /\ framer' = Finish(framer) /\ fed' = fed /\ splitter' = splitter
  BY DEF Eof
<1>2. fed \in Seq(Bytes) /\ Framing(framer, fed) /\ Twin(framer, splitter)
  BY <1>1 DEF FramedInv
<1>3. CASE framer.over \/ framer.buf = <<>>
  <2>1. framer' = framer
    BY <1>1, <1>3 DEF Finish
  <2>2. Kept(framer, splitter, fed)
    BY <1>2, FramingKept
  <2>3. Kept(framer', splitter', fed') /\ fed' \in Seq(Bytes)
    BY <1>1, <1>2, <2>1, <2>2
  <2>4. QED
    BY <1>1, <2>3 DEF FramedInv, Kept, Typed, InLine, Suits, LineDone
<1>4. CASE ~framer.over /\ framer.buf # <<>>
  <2> DEFINE c == [t |-> "rem", b |-> framer.buf]
  <2> DEFINE u == Append(framer.out, c)
  <2>1. /\ Typed(framer) /\ framer.buf \in Seq(Bytes) /\ framer.out \in Seq(Chunks)
        /\ Written(framer.out) \in Seq(Bytes) /\ Written(framer.out) \o framer.buf = fed
        /\ InLine(framer.out) /\ \A i \in 1 .. Len(framer.out) : framer.out[i].t # "rem"
        /\ Newlines(framer.buf) = {} /\ Len(framer.buf) <= Cap /\ Whole(framer.out) = TRUE
    BY <1>2, <1>4 DEF Framing, Typed, Whole, LineDone
  <2>2. c \in Chunks /\ c.t = "rem" /\ c.b = framer.buf /\ Wire(c) = framer.buf
    BY <2>1 DEF Chunks, Wire
  <2>3. Suits(TRUE, c)
    BY <2>1, <2>2 DEF Suits
  <2> HIDE DEF c
  <2>4. u \in Seq(Chunks) /\ InLine(u) /\ Len(u) = Len(framer.out) + 1
        /\ Len(framer.out) \in Nat /\ \A i \in 1 .. Len(framer.out) : u[i] = framer.out[i]
    <3>1. framer.out \in Seq(Chunks)
      BY <2>1
    <3>2. u \in Seq(Chunks) /\ Len(u) = Len(framer.out) + 1
          /\ Len(framer.out) \in Nat /\ \A i \in 1 .. Len(framer.out) : u[i] = framer.out[i]
      BY <2>2, <3>1, AppendProperties, LenProperties
    <3>3. Suits(Whole(framer.out), c) /\ InLine(framer.out)
      BY <2>1, <2>3
    <3>4. InLine(u)
      BY <2>2, <3>1, <3>3, InLineGrows
    <3>5. QED
      BY <3>2, <3>4
  <2>5. Written(u) = fed
    BY <2>1, <2>2, WrittenGrows
  <2>6. Tapped(u) = Tapped(framer.out)
    BY <2>1, <2>2, TappedGrows
  <2> DEFINE r == [buf |-> <<>>, over |-> framer.over, out |-> u]
  <2>7. framer' = r
    <3>1. Finish(framer) = [[framer EXCEPT !.buf = <<>>] EXCEPT !.out = u]
      BY <1>4, <2>1 DEF Finish, Typed, c
    <3>2. [framer EXCEPT !.buf = <<>>] = [buf |-> <<>>, over |-> framer.over, out |-> framer.out]
      BY <2>1, Updated
    <3>3. QED
      BY <1>1, <3>1, <3>2
  <2> HIDE DEF u
  <2>8. r.buf = <<>> /\ r.out = u /\ Typed(r)
    BY <2>1, <2>4, EmptySeq DEF Typed
  <2> HIDE DEF r
  <2>9. \A i \in 1 .. Len(u) : u[i].t = "rem" => i = Len(u)
    <3>1. ASSUME NEW i \in 1 .. Len(u), i # Len(u) PROVE u[i].t # "rem"
      <4>1. i \in 1 .. Len(framer.out)
        BY <2>4, <3>1
      <4>2. QED
        BY <2>1, <2>4, <4>1
    <3>2. QED
      BY <3>1
  <2>10. Written(u) \o <<>> = fed
    BY <1>2, <2>5, ConcatEmptySeq
  <2>11. splitter.out = Tapped(u) /\ Len(splitter.buf) <= Cap
    BY <1>2, <2>1, <2>6 DEF Twin
  <2>12. Len(<<>>) <= Cap
    BY FramedStreamAssumption, EmptySeq
  <2>13. Kept(r, splitter, fed)
    BY <2>4, <2>8, <2>9, <2>10, <2>11, <2>12 DEF Kept
  <2>14. Kept(framer', splitter', fed') /\ fed' \in Seq(Bytes)
    BY <1>1, <1>2, <2>7, <2>13
  <2>15. QED
    BY <1>1, <2>14 DEF FramedInv, Kept, Typed, InLine, Suits, LineDone
<1>5. QED
  BY <1>3, <1>4

LEMMA FramedStep == FramedInv /\ [Next]_vars => FramedInv'
<1> SUFFICES ASSUME FramedInv, [Next]_vars PROVE FramedInv'
  OBVIOUS
<1>1. CASE Read
  BY <1>1, ReadFramed
<1>2. CASE Eof
  BY <1>2, EofFramed
<1>3. CASE UNCHANGED vars
  BY <1>3 DEF FramedInv, vars, Framing, Twin, Kept, Typed, InLine, Suits, LineDone, Whole
<1>4. QED
  BY <1>1, <1>2, <1>3 DEF Next

\* Whatever the stream and however the pipe cuts it into reads: every byte that was read
\* is written in its place or still held back, the chunks follow each other as the pumps'
\* latches assume, and the tap-only splitter returns the frames that FramedStream returns
\* (FramedStream::push and finish, LineSplitter::push).
THEOREM StreamIsKept == Spec => []StreamKept
<1>1. Init => FramedInv
  BY FramedStart
<1>2. FramedInv /\ [Next]_vars => FramedInv'
  BY FramedStep
<1>3. FramedInv => StreamKept
  BY KeptMeans, FramingKept DEF FramedInv
<1>4. QED
  BY <1>1, <1>2, <1>3, PTL DEF Spec

\* For every cap and read size: a line within the cap is never passed on undecided, what
\* is held back never exceeds the cap, and a frame exceeds it by less than one read.
THEOREM TheCapHolds == Spec => []CapHolds
<1>1. Init => FramedInv
  BY FramedStart
<1>2. FramedInv /\ [Next]_vars => FramedInv'
  BY FramedStep
<1>3. FramedInv => CapHolds
  BY KeptMeans, FramingKept DEF FramedInv
<1>4. QED
  BY <1>1, <1>2, <1>3, PTL DEF Spec

\* The instance reads a stream as FramedStream does.
LEMMA SamePieces ==
  ASSUME NEW s, NEW i
  PROVE  /\ Sse!Newlines(s) = Newlines(s) /\ Sse!Cut(s, i) = Cut(s, i)
         /\ Sse!HeadAt(s, i) = HeadAt(s, i) /\ Sse!Rest(s) = Rest(s)
<1>1. Sse!Newlines(s) = Newlines(s)
  BY DEF Sse!Newlines, Newlines
<1>2. \A n : Sse!Cut(s, n) = Cut(s, n)
  BY DEF Sse!Newlines, Newlines, Sse!Cut, Cut, Sse!Max, Max
<1>3. Sse!HeadAt(s, i) = HeadAt(s, i)
  BY <1>2 DEF Sse!HeadAt, HeadAt
<1>4. Sse!Rest(s) = Rest(s)
  BY <1>2 DEF Sse!Rest, Rest
<1>5. QED
  BY <1>1, <1>2, <1>3, <1>4

\* Two functions that take the same steps from the same start; one that takes none.
LEMMA SameSteps ==
  ASSUME NEW m, NEW q, NEW k \in Nat, m[0] = q[0],
         \A n \in Nat : n + 1 <= k /\ m[n] = q[n] => m[n + 1] = q[n + 1]
  PROVE  m[k] = q[k]
<1> DEFINE G == {n \in Nat : n <= k => m[n] = q[n]}
<1>1. 0 \in G
  OBVIOUS
<1>2. ASSUME NEW n \in Nat, n \in G PROVE n + 1 \in G
  <2>1. n + 1 <= k => n <= k
    OBVIOUS
  <2>2. QED
    BY <1>2, <2>1
<1>3. k \in G
  <2> HIDE DEF G
  <2>1. QED
    BY <1>1, <1>2, ByInduction
<1>4. QED
  BY <1>3

LEMMA NoSteps ==
  ASSUME NEW m, NEW a \in Nat, NEW k \in Nat, a <= k,
         \A n \in Nat : a <= n /\ n + 1 <= k => m[n + 1] = m[n]
  PROVE  m[k] = m[a]
<1> DEFINE G == {n \in Nat : a + n <= k => m[a + n] = m[a]}
<1>1. 0 \in G
  OBVIOUS
<1>2. ASSUME NEW n \in Nat, n \in G PROVE n + 1 \in G
  <2>1. a + n \in Nat /\ a <= a + n /\ a + (n + 1) = (a + n) + 1
    OBVIOUS
  <2>2. (a + n) + 1 <= k => m[(a + n) + 1] = m[a + n] /\ a + n <= k
    BY <2>1
  <2>3. QED
    BY <1>2, <2>1, <2>2
<1>3. k - a \in Nat /\ a + (k - a) = k
  OBVIOUS
<1>4. k - a \in G
  <2> HIDE DEF G
  <2>1. QED
    BY <1>1, <1>2, <1>3, ByInduction
<1>5. QED
  BY <1>3, <1>4

-----------------------------------------------------------------------------
(* The first part s of a longer stream t.                                  *)

Starts(s, t) ==
  /\ s \in Seq(Bytes) /\ t \in Seq(Bytes) /\ Len(s) <= Len(t)
  /\ \A i \in 1 .. Len(s) : t[i] = s[i]

LEMMA StartsOf ==
  ASSUME NEW s \in Seq(Bytes), NEW r \in Seq(Bytes)
  PROVE  /\ Starts(s, s \o r) /\ Len(s \o r) = Len(s) + Len(r)
         /\ Len(s) \in Nat /\ Len(r) \in Nat
         /\ \A i \in 1 .. Len(r) : (s \o r)[Len(s) + i] = r[i]
<1>1. s \o r \in Seq(Bytes) /\ Len(s \o r) = Len(s) + Len(r)
      /\ \A i \in 1 .. Len(s) + Len(r) :
           (s \o r)[i] = IF i <= Len(s) THEN s[i] ELSE r[i - Len(s)]
  BY ConcatProperties
<1>2. Len(s) \in Nat /\ Len(r) \in Nat
  BY LenProperties
<1> DEFINE t == s \o r
<1> HIDE DEF t
<1>3. \A i \in 1 .. Len(s) : t[i] = s[i]
  BY <1>1, <1>2 DEF t
<1>4. \A i \in 1 .. Len(r) : t[Len(s) + i] = r[i]
  <2>1. ASSUME NEW i \in 1 .. Len(r) PROVE t[Len(s) + i] = r[i]
    <3>1. Len(s) + i \in 1 .. Len(s) + Len(r) /\ Len(s) + i - Len(s) = i
          /\ ~(Len(s) + i <= Len(s))
      BY <1>2
    <3>2. QED
      BY <1>1, <3>1 DEF t
  <2>2. QED
    BY <2>1
<1>5. QED
  BY <1>1, <1>2, <1>3, <1>4 DEF t, Starts

LEMMA StartsCut ==
  ASSUME NEW s, NEW t, Starts(s, t), NEW n \in 0 .. Len(s)
  PROVE  Cut(t, n) = Cut(s, n) /\ SubSeq(t, 1 + Cut(t, n), n) = SubSeq(s, 1 + Cut(s, n), n)
<1>1. /\ s \in Seq(Bytes) /\ t \in Seq(Bytes) /\ Len(s) <= Len(t)
      /\ \A i \in 1 .. Len(s) : t[i] = s[i]
  BY DEF Starts
<1>2. Len(s) \in Nat /\ Len(t) \in Nat
  BY <1>1, LenProperties
<1>3. n \in 0 .. Len(t)
  BY <1>1, <1>2
<1> DEFINE c == Cut(s, n)
<1> DEFINE d == Cut(t, n)
<1>4. c \in 0 .. n /\ (c = 0 \/ s[c] = NL) /\ \A i \in 1 .. n : s[i] = NL => i <= c
  BY <1>1, CutIs
<1>5. d \in 0 .. n /\ (d = 0 \/ t[d] = NL) /\ \A i \in 1 .. n : t[i] = NL => i <= d
  BY <1>1, <1>3, CutIs
<1> HIDE DEF c, d
<1>6. \A i \in 1 .. n : t[i] = s[i]
  BY <1>1, <1>2
<1>7. c = d
  BY <1>2, <1>4, <1>5, <1>6
<1> DEFINE b == SubSeq(s, 1 + c, n)
<1> DEFINE e == SubSeq(t, 1 + c, n)
<1>8. /\ \A i \in 1 + c .. n : s[i] \in Bytes /\ t[i] \in Bytes
      /\ 1 + c \in Int /\ n \in Int
  <2>1. \A i \in 1 .. Len(s) : s[i] \in Bytes
    BY <1>1, ElementOfSeq
  <2>2. QED
    BY <1>2, <1>4, <1>6, <2>1
<1>9. /\ b \in Seq(Bytes) /\ Len(b) = (IF 1 + c <= n THEN n - (1 + c) + 1 ELSE 0)
      /\ \A i \in 1 .. n - (1 + c) + 1 : b[i] = s[1 + c + i - 1]
  BY <1>8, SubSeqProperties
<1>10. /\ e \in Seq(Bytes) /\ Len(e) = (IF 1 + c <= n THEN n - (1 + c) + 1 ELSE 0)
       /\ \A i \in 1 .. n - (1 + c) + 1 : e[i] = t[1 + c + i - 1]
  BY <1>8, SubSeqProperties
<1> HIDE DEF b, e
<1>11. b = e
  <2>1. ASSUME NEW i \in 1 .. Len(b) PROVE b[i] = e[i]
    <3>1. i \in 1 .. n - (1 + c) + 1 /\ 1 + c + i - 1 \in 1 .. n
      BY <1>2, <1>4, <1>9
    <3>2. QED
      BY <1>6, <1>9, <1>10, <3>1
  <2>2. QED
    BY <1>9, <1>10, <2>1, SeqEqual
<1>12. QED
  BY <1>7, <1>11 DEF b, e, c, d

-----------------------------------------------------------------------------
(* Lines and values are strings of bytes.                                  *)

LEMMA StripTyped == \A l \in Seq(Bytes) : Sse!StripCr(l) \in Seq(Bytes)
<1> SUFFICES ASSUME NEW l \in Seq(Bytes) PROVE Sse!StripCr(l) \in Seq(Bytes)
  OBVIOUS
<1>1. CASE l = <<>> \/ Sse!Last(l) # "cr"
  BY <1>1 DEF Sse!StripCr
<1>2. CASE l # <<>> /\ Sse!Last(l) = "cr"
  <2>1. Len(l) \in Nat /\ \A i \in 1 .. Len(l) : l[i] \in Bytes
    BY LenProperties, ElementOfSeq
  <2>2. SubSeq(l, 1, Len(l) - 1) \in Seq(Bytes)
    BY <2>1, SubSeqProperties
  <2>3. QED
    BY <1>2, <2>2 DEF Sse!StripCr, Sse!Front
<1>3. QED
  BY <1>1, <1>2

LEMMA ColonIs ==
  ASSUME NEW l \in Seq(Bytes), Sse!Colons(l) # {}
  PROVE  Sse!Min(Sse!Colons(l)) \in 1 .. Len(l)
<1> DEFINE S == Sse!Colons(l)
<1>1. Len(l) \in Nat /\ S \subseteq 1 .. Len(l) /\ S \subseteq Nat
  BY LenProperties DEF Sse!Colons
<1>2. PICK k \in S : \A n \in S : ~ (<<n, k>> \in OpToRel(<, Nat))
  BY <1>1, NatLessThanWellFounded, WFMin
<1>3. \A n \in S : k <= n
  <2>1. ASSUME NEW n \in S PROVE k <= n
    <3>1. ~(n < k)
      BY <1>1, <1>2 DEF OpToRel
    <3>2. k \in Nat /\ n \in Nat
      BY <1>1
    <3> HIDE DEF S
    <3>3. QED
      BY <3>1, <3>2
  <2>2. QED
    BY <2>1
<1>4. Sse!Min(S) \in S
  <2> HIDE DEF S
  <2>1. \E x \in S : \A y \in S : x <= y
    BY <1>3
  <2>2. QED
    BY <2>1 DEF Sse!Min
<1>5. QED
  BY <1>1, <1>4

LEMMA ValueTyped == \A l \in Seq(Bytes) : Sse!Value(l) \in Seq(Bytes)
<1> SUFFICES ASSUME NEW l \in Seq(Bytes) PROVE Sse!Value(l) \in Seq(Bytes)
  OBVIOUS
<1>1. CASE Sse!Colons(l) = {}
  BY <1>1, EmptySeq DEF Sse!Value
<1>2. CASE Sse!Colons(l) # {}
  <2> DEFINE c == Sse!Min(Sse!Colons(l))
  <2> DEFINE v == SubSeq(l, c + 1, Len(l))
  <2>1. c \in 1 .. Len(l) /\ Len(l) \in Nat /\ \A i \in 1 .. Len(l) : l[i] \in Bytes
    BY <1>2, ColonIs, LenProperties, ElementOfSeq
  <2>2. Sse!Value(l) = IF v # <<>> /\ Head(v) = "sp" THEN Tail(v) ELSE v
    BY <1>2 DEF Sse!Value
  <2> HIDE DEF c
  <2>3. v \in Seq(Bytes)
    BY <2>1, SubSeqProperties
  <2> HIDE DEF v
  <2>4. v # <<>> => Tail(v) \in Seq(Bytes)
    BY <2>3, HeadTailProperties
  <2>5. QED
    BY <2>2, <2>3, <2>4
<1>3. QED
  BY <1>1, <1>2

\* The line before a position, whether or not a newline is there.
LEMMA HeadTyped ==
  ASSUME NEW s \in Seq(Bytes), NEW j \in 1 .. Len(s)
  PROVE  /\ Sse!HeadAt(s, j) \in Seq(Bytes) /\ Sse!Line(s, j) \in Seq(Bytes)
         /\ Sse!Value(Sse!Line(s, j)) \in Seq(Bytes)
<1>1. Len(s) \in Nat /\ j - 1 \in 0 .. Len(s)
  BY LenProperties
<1>2. HeadAt(s, j) \in Seq(Bytes)
  BY <1>1, BetweenIs DEF HeadAt
<1>3. QED
  BY <1>2, SamePieces, StripTyped, ValueTyped DEF Sse!Line

-----------------------------------------------------------------------------
(* What the rules of the format say of the lines of a stream does not      *)
(* depend on what follows them.                                            *)

LEMMA StartsLine ==
  ASSUME NEW s, NEW t, Starts(s, t), NEW j \in 1 .. Len(s)
  PROVE  /\ Sse!HeadAt(t, j) = Sse!HeadAt(s, j) /\ Sse!Line(t, j) = Sse!Line(s, j)
         /\ (j \in Sse!Newlines(t) <=> j \in Sse!Newlines(s))
         /\ (j \in Sse!Blank(t) <=> j \in Sse!Blank(s))
<1>1. /\ s \in Seq(Bytes) /\ t \in Seq(Bytes) /\ Len(s) <= Len(t) /\ t[j] = s[j]
      /\ Len(s) \in Nat /\ Len(t) \in Nat
      /\ DOMAIN s = 1 .. Len(s) /\ DOMAIN t = 1 .. Len(t)
  BY LenProperties DEF Starts
<1>2. j - 1 \in 0 .. Len(s) /\ j \in 1 .. Len(t)
  BY <1>1
<1>3. HeadAt(t, j) = HeadAt(s, j)
  BY <1>2, StartsCut DEF HeadAt
<1>4. Sse!HeadAt(t, j) = Sse!HeadAt(s, j) /\ Sse!Line(t, j) = Sse!Line(s, j)
  BY <1>3, SamePieces DEF Sse!Line
<1>5. j \in Sse!Newlines(t) <=> j \in Sse!Newlines(s)
  BY <1>1, <1>2 DEF Sse!Newlines
<1>6. QED
  BY <1>4, <1>5 DEF Sse!Blank

\* Newlines, blank lines and the lines of events are positions of the stream.
LEMMA Positions ==
  ASSUME NEW s \in Seq(Bytes), NEW i
  PROVE  /\ Sse!Newlines(s) \subseteq 1 .. Len(s) /\ Sse!Blank(s) \subseteq 1 .. Len(s)
         /\ Sse!Lines(s, i) \subseteq 1 .. Len(s)
         /\ Sse!DataLines(s, i) \subseteq 1 .. Len(s)
         /\ \A j \in Sse!Lines(s, i) : j < i
         /\ \A j \in Sse!DataLines(s, i) : j < i
  BY LenProperties DEF Sse!Newlines, Sse!Blank, Sse!Lines, Sse!DataLines

LEMMA StartsLines ==
  ASSUME NEW s, NEW t, Starts(s, t), NEW i \in 1 .. Len(s) + 1
  PROVE  /\ Sse!Lines(t, i) = Sse!Lines(s, i)
         /\ Sse!DataLines(t, i) = Sse!DataLines(s, i)
<1>1. /\ s \in Seq(Bytes) /\ t \in Seq(Bytes) /\ Len(s) <= Len(t)
      /\ Len(s) \in Nat /\ Len(t) \in Nat
  BY LenProperties DEF Starts
<1>2. /\ Sse!Newlines(s) \subseteq 1 .. Len(s) /\ Sse!Newlines(t) \subseteq 1 .. Len(t)
      /\ Sse!Blank(s) \subseteq 1 .. Len(s) /\ Sse!Blank(t) \subseteq 1 .. Len(t)
  BY <1>1, Positions
<1>3. \A j \in 1 .. Len(s) : (j \in Sse!Blank(t) <=> j \in Sse!Blank(s))
  BY StartsLine
<1>4. \A j \in 1 .. Len(s) : (j \in Sse!Newlines(t) <=> j \in Sse!Newlines(s))
  BY StartsLine
<1>5. \A j \in 1 .. Len(t) : j < i => j \in 1 .. Len(s)
  BY <1>1
<1>6. \A j : j \in Sse!Newlines(t) /\ j < i <=> j \in Sse!Newlines(s) /\ j < i
  BY <1>1, <1>2, <1>4, <1>5
<1>7. \A j : j \in Sse!Blank(t) /\ j < i <=> j \in Sse!Blank(s) /\ j < i
  BY <1>1, <1>2, <1>3, <1>5
<1>8. Sse!Lines(t, i) = Sse!Lines(s, i)
  <2>1. \A j : j \in Sse!Lines(t, i) <=> j \in Sse!Lines(s, i)
    BY <1>6, <1>7 DEF Sse!Lines
  <2>2. QED
    BY <2>1 DEF Sse!Lines
<1>9. \A j \in Sse!Lines(s, i) : j \in 1 .. Len(s)
  BY <1>1, Positions
<1>10. \A j \in Sse!Lines(s, i) : Sse!Line(t, j) = Sse!Line(s, j)
  BY <1>9, StartsLine
<1>11. QED
  BY <1>8, <1>10 DEF Sse!DataLines

-----------------------------------------------------------------------------
(* The values of data lines, joined.                                       *)

\* What the line that n ends adds to the text of those of the lines D before it.
Adds(s, D, n, x) ==
  IF n \notin D THEN x
  ELSE IF \E j \in D : j < n THEN Append(x, NL) \o Sse!Value(Sse!Line(s, n))
  ELSE Sse!Value(Sse!Line(s, n))

LEMMA JoinedSteps ==
  ASSUME NEW s \in Seq(Bytes), NEW D
  PROVE  \E m : /\ m[0] = <<>> /\ Sse!Joined(s, D) = m[Len(s)]
                /\ \A n \in Nat : n + 1 <= Len(s) => m[n + 1] = Adds(s, D, n + 1, m[n])
<1>1. Len(s) \in Nat /\ 0 <= Len(s)
  BY LenProperties
<1> DEFINE z == <<s, D>>
<1> DEFINE P(f) == f = [n \in 0 .. Len(s) |->
          IF n = 0 THEN <<>>
          ELSE IF n \notin D THEN f[n - 1]
          ELSE IF \E j \in D : j < n
               THEN Append(f[n - 1], NL) \o Sse!Value(Sse!Line(s, n))
          ELSE Sse!Value(Sse!Line(s, n))]
<1>2. \A n, x : Stepped("joined", z, n, x) = Adds(s, D, n, x)
  BY DEF Stepped, Adds
<1>3. \A f : P(f) <=> Fits(f, "joined", z, <<>>, 0, Len(s))
  <2>1. ASSUME NEW f PROVE P(f) <=> Fits(f, "joined", z, <<>>, 0, Len(s))
    <3>1. P(f) <=> f = [n \in 0 .. Len(s) |->
                          IF n = 0 THEN <<>> ELSE Adds(s, D, n, f[n - 1])]
      BY DEF Adds
    <3> HIDE DEF P, z
    <3>2. QED
      BY <1>2, <3>1 DEF Fits
  <2>2. QED
    BY <2>1
<1>4. \E f : P(f)
  <2>1. \E f : Fits(f, "joined", z, <<>>, 0, Len(s))
    BY <1>1, FitsChosen
  <2> HIDE DEF P, z
  <2>2. QED
    BY <1>3, <2>1
<1>5. Sse!Joined(s, D) = (CHOOSE f : P(f))[Len(s)]
  BY DEF Sse!Joined
<1>6. P(CHOOSE f : P(f))
  <2> HIDE DEF P
  <2>1. QED
    BY <1>4
<1> DEFINE m == CHOOSE f : P(f)
<1>7. Fits(m, "joined", z, <<>>, 0, Len(s)) /\ Sse!Joined(s, D) = m[Len(s)]
  <2> HIDE DEF P
  <2>1. QED
    BY <1>3, <1>5, <1>6
<1> HIDE DEF m, z
<1>8. Steps(m, "joined", z, <<>>, 0, Len(s))
  BY <1>1, <1>7, FitsIs
<1>9. QED
  BY <1>2, <1>7, <1>8 DEF Steps

LEMMA JoinedTyped ==
  ASSUME NEW s \in Seq(Bytes), NEW D PROVE Sse!Joined(s, D) \in Seq(Bytes)
<1>1. PICK m : /\ m[0] = <<>> /\ Sse!Joined(s, D) = m[Len(s)]
               /\ \A n \in Nat : n + 1 <= Len(s) => m[n + 1] = Adds(s, D, n + 1, m[n])
  BY JoinedSteps
<1> DEFINE G == {n \in Nat : n <= Len(s) => m[n] \in Seq(Bytes)}
<1>2. Len(s) \in Nat /\ NL \in Bytes
  BY LenProperties DEF Bytes
<1>3. 0 \in G
  BY <1>1, EmptySeq
<1>4. ASSUME NEW n \in Nat, n \in G PROVE n + 1 \in G
  <2>1. CASE n + 1 <= Len(s)
    <3>1. m[n] \in Seq(Bytes) /\ n + 1 \in 1 .. Len(s)
      BY <1>2, <1>4, <2>1
    <3> DEFINE v == Sse!Value(Sse!Line(s, n + 1))
    <3>2. v \in Seq(Bytes)
      BY <3>1, HeadTyped
    <3>3. Append(m[n], NL) \in Seq(Bytes)
      BY <1>2, <3>1, AppendProperties
    <3>4. Append(m[n], NL) \o v \in Seq(Bytes)
      BY <3>2, <3>3, ConcatProperties
    <3>5. m[n + 1] \in {m[n], v, Append(m[n], NL) \o v}
      BY <1>1, <2>1 DEF Adds
    <3> HIDE DEF v
    <3>6. m[n + 1] \in Seq(Bytes)
      BY <3>1, <3>2, <3>4, <3>5
    <3>7. QED
      BY <3>6
  <2>2. CASE ~(n + 1 <= Len(s))
    BY <2>2
  <2>3. QED
    BY <2>1, <2>2
<1>5. Len(s) \in G
  <2> HIDE DEF G
  <2>1. QED
    BY <1>2, <1>3, <1>4, ByInduction
<1>6. QED
  BY <1>1, <1>2, <1>5

LEMMA JoinedNone ==
  ASSUME NEW s \in Seq(Bytes) PROVE Sse!Joined(s, {}) = <<>>
<1>1. PICK m : /\ m[0] = <<>> /\ Sse!Joined(s, {}) = m[Len(s)]
               /\ \A n \in Nat : n + 1 <= Len(s) => m[n + 1] = Adds(s, {}, n + 1, m[n])
  BY JoinedSteps
<1>2. \A n \in Nat : 0 <= n /\ n + 1 <= Len(s) => m[n + 1] = m[n]
  BY <1>1 DEF Adds
<1>3. Len(s) \in Nat /\ 0 <= Len(s)
  BY LenProperties
<1>4. m[Len(s)] = m[0]
  BY <1>2, <1>3, NoSteps
<1>5. QED
  BY <1>1, <1>4

LEMMA StartsJoined ==
  ASSUME NEW s, NEW t, Starts(s, t), NEW D \in SUBSET (1 .. Len(s))
  PROVE  Sse!Joined(t, D) = Sse!Joined(s, D)
<1>1. /\ s \in Seq(Bytes) /\ t \in Seq(Bytes) /\ Len(s) <= Len(t)
      /\ Len(s) \in Nat /\ Len(t) \in Nat
  BY LenProperties DEF Starts
<1>2. PICK m : /\ m[0] = <<>> /\ Sse!Joined(s, D) = m[Len(s)]
               /\ \A n \in Nat : n + 1 <= Len(s) => m[n + 1] = Adds(s, D, n + 1, m[n])
  BY <1>1, JoinedSteps
<1>3. PICK q : /\ q[0] = <<>> /\ Sse!Joined(t, D) = q[Len(t)]
               /\ \A n \in Nat : n + 1 <= Len(t) => q[n + 1] = Adds(t, D, n + 1, q[n])
  BY <1>1, JoinedSteps
<1>4. \A n \in Nat : n + 1 <= Len(s) /\ m[n] = q[n] => m[n + 1] = q[n + 1]
  <2>1. ASSUME NEW n \in Nat, n + 1 <= Len(s), m[n] = q[n] PROVE m[n + 1] = q[n + 1]
    <3>1. n + 1 \in 1 .. Len(s) /\ n + 1 <= Len(t)
      BY <1>1, <2>1
    <3>2. Sse!Line(t, n + 1) = Sse!Line(s, n + 1)
      BY <3>1, StartsLine
    <3>3. m[n + 1] = Adds(s, D, n + 1, m[n]) /\ q[n + 1] = Adds(t, D, n + 1, q[n])
      BY <1>2, <1>3, <2>1, <3>1
    <3>4. QED
      BY <2>1, <3>2, <3>3 DEF Adds
  <2>2. QED
    BY <2>1
<1>5. m[Len(s)] = q[Len(s)]
  BY <1>1, <1>2, <1>3, <1>4, SameSteps
<1>6. \A n \in Nat : Len(s) <= n /\ n + 1 <= Len(t) => q[n + 1] = q[n]
  <2>1. ASSUME NEW n \in Nat, Len(s) <= n, n + 1 <= Len(t) PROVE q[n + 1] = q[n]
    <3>1. n + 1 \notin D
      BY <1>1, <2>1
    <3>2. QED
      BY <1>3, <2>1, <3>1 DEF Adds
  <2>2. QED
    BY <2>1
<1>7. q[Len(t)] = q[Len(s)]
  BY <1>1, <1>6, NoSteps
<1>8. QED
  BY <1>2, <1>3, <1>5, <1>7

\* One more data line, after the others.
LEMMA JoinedGrows ==
  ASSUME NEW s \in Seq(Bytes), NEW n \in 1 .. Len(s), NEW D, \A j \in D : j \in 1 .. Len(s) /\ j < n
  PROVE  Sse!Joined(s, D \cup {n})
           = IF D = {} THEN Sse!Value(Sse!Line(s, n))
             ELSE Append(Sse!Joined(s, D), NL) \o Sse!Value(Sse!Line(s, n))
<1> DEFINE E == D \cup {n}
<1>1. Len(s) \in Nat /\ n \in Nat /\ n - 1 \in Nat /\ n - 1 + 1 = n /\ n <= Len(s)
      /\ n - 1 <= Len(s)
  BY LenProperties
<1>2. PICK m : /\ m[0] = <<>> /\ Sse!Joined(s, D) = m[Len(s)]
               /\ \A i \in Nat : i + 1 <= Len(s) => m[i + 1] = Adds(s, D, i + 1, m[i])
  BY JoinedSteps
<1>3. PICK q : /\ q[0] = <<>> /\ Sse!Joined(s, E) = q[Len(s)]
               /\ \A i \in Nat : i + 1 <= Len(s) => q[i + 1] = Adds(s, E, i + 1, q[i])
  BY JoinedSteps
<1>4. \A i \in Nat : i + 1 <= n - 1 /\ m[i] = q[i] => m[i + 1] = q[i + 1]
  <2>1. ASSUME NEW i \in Nat, i + 1 <= n - 1, m[i] = q[i] PROVE m[i + 1] = q[i + 1]
    <3>1. i + 1 <= Len(s) /\ i + 1 < n /\ (i + 1 \in D <=> i + 1 \in E)
      BY <1>1, <2>1
    <3>2. (\E j \in E : j < i + 1) <=> (\E j \in D : j < i + 1)
      BY <1>1, <3>1
    <3> HIDE DEF E
    <3>3. m[i + 1] = Adds(s, D, i + 1, m[i]) /\ q[i + 1] = Adds(s, E, i + 1, q[i])
      BY <1>2, <1>3, <3>1
    <3>4. QED
      BY <2>1, <3>1, <3>2, <3>3 DEF Adds
  <2>2. QED
    BY <2>1
<1>5. m[n - 1] = q[n - 1]
  <2>1. m[0] = q[0]
    BY <1>2, <1>3
  <2> DEFINE k == n - 1
  <2>2. k \in Nat /\ \A i \in Nat : i + 1 <= k /\ m[i] = q[i] => m[i + 1] = q[i + 1]
    BY <1>1, <1>4
  <2> HIDE DEF k
  <2>3. m[k] = q[k]
    BY <2>1, <2>2, SameSteps
  <2>4. QED
    BY <2>3 DEF k
<1>6. \A i \in Nat : n - 1 <= i /\ i + 1 <= Len(s) => m[i + 1] = m[i]
  <2>1. ASSUME NEW i \in Nat, n - 1 <= i, i + 1 <= Len(s) PROVE m[i + 1] = m[i]
    <3>1. i + 1 \notin D
      BY <1>1, <2>1
    <3>2. QED
      BY <1>2, <2>1, <3>1 DEF Adds
  <2>2. QED
    BY <2>1
<1>7. m[Len(s)] = m[n - 1]
  BY <1>1, <1>6, NoSteps
<1>8. \A i \in Nat : n <= i /\ i + 1 <= Len(s) => q[i + 1] = q[i]
  <2>1. ASSUME NEW i \in Nat, n <= i, i + 1 <= Len(s) PROVE q[i + 1] = q[i]
    <3>1. i + 1 \notin E
      BY <1>1, <2>1
    <3>2. QED
      BY <1>3, <2>1, <3>1 DEF Adds
  <2>2. QED
    BY <2>1
<1>9. q[Len(s)] = q[n]
  BY <1>1, <1>8, NoSteps
<1>10. q[n] = Adds(s, E, n, q[n - 1])
  BY <1>1, <1>3
<1>11. n \in E /\ ((\E j \in E : j < n) <=> D # {})
  BY <1>1
<1>12. QED
  BY <1>2, <1>3, <1>5, <1>7, <1>9, <1>10, <1>11 DEF Adds

-----------------------------------------------------------------------------
(* The payloads of a stream.                                               *)

\* What the newline at n adds to the payloads told before it.
Telling(s, cap, n, x) ==
  IF Sse!Tells(s, n, cap) THEN Append(x, Sse!Joined(s, Sse!DataLines(s, n))) ELSE x

LEMMA PayloadsSteps ==
  ASSUME NEW s \in Seq(Bytes), NEW cap
  PROVE  \E m : /\ m[0] = <<>> /\ Sse!Payloads(s, cap) = m[Len(s)]
                /\ \A n \in Nat : n + 1 <= Len(s) => m[n + 1] = Telling(s, cap, n + 1, m[n])
<1>1. Len(s) \in Nat /\ 0 <= Len(s)
  BY LenProperties
<1> DEFINE z == <<s, cap>>
<1> DEFINE P(f) == f = [n \in 0 .. Len(s) |->
          IF n = 0 THEN <<>>
          ELSE IF Sse!Tells(s, n, cap)
               THEN Append(f[n - 1], Sse!Joined(s, Sse!DataLines(s, n)))
          ELSE f[n - 1]]
<1>2. \A n, x : Stepped("told", z, n, x) = Telling(s, cap, n, x)
  BY DEF Stepped, Telling
<1>3. \A f : P(f) <=> Fits(f, "told", z, <<>>, 0, Len(s))
  <2>1. ASSUME NEW f PROVE P(f) <=> Fits(f, "told", z, <<>>, 0, Len(s))
    <3>1. P(f) <=> f = [n \in 0 .. Len(s) |->
                          IF n = 0 THEN <<>> ELSE Telling(s, cap, n, f[n - 1])]
      BY DEF Telling
    <3> HIDE DEF P, z
    <3>2. QED
      BY <1>2, <3>1 DEF Fits
  <2>2. QED
    BY <2>1
<1>4. \E f : P(f)
  <2>1. \E f : Fits(f, "told", z, <<>>, 0, Len(s))
    BY <1>1, FitsChosen
  <2> HIDE DEF P, z
  <2>2. QED
    BY <1>3, <2>1
<1>5. Sse!Payloads(s, cap) = (CHOOSE f : P(f))[Len(s)]
  BY DEF Sse!Payloads
<1>6. P(CHOOSE f : P(f))
  <2> HIDE DEF P
  <2>1. QED
    BY <1>4
<1> DEFINE m == CHOOSE f : P(f)
<1>7. Fits(m, "told", z, <<>>, 0, Len(s)) /\ Sse!Payloads(s, cap) = m[Len(s)]
  <2> HIDE DEF P
  <2>1. QED
    BY <1>3, <1>5, <1>6
<1> HIDE DEF m, z
<1>8. Steps(m, "told", z, <<>>, 0, Len(s))
  BY <1>1, <1>7, FitsIs
<1>9. QED
  BY <1>2, <1>7, <1>8 DEF Steps

LEMMA StartsTells ==
  ASSUME NEW s, NEW t, Starts(s, t), NEW i \in 1 .. Len(s), NEW cap
  PROVE  /\ Sse!Tells(t, i, cap) <=> Sse!Tells(s, i, cap)
         /\ Sse!Joined(t, Sse!DataLines(t, i)) = Sse!Joined(s, Sse!DataLines(s, i))
<1>1. s \in Seq(Bytes) /\ Len(s) \in Nat /\ i \in 1 .. Len(s) + 1
  BY LenProperties DEF Starts
<1>2. Sse!Lines(t, i) = Sse!Lines(s, i) /\ Sse!DataLines(t, i) = Sse!DataLines(s, i)
  BY <1>1, StartsLines
<1>3. Sse!DataLines(s, i) \in SUBSET (1 .. Len(s)) /\ Sse!Lines(s, i) \subseteq 1 .. Len(s)
  BY <1>1, Positions
<1>4. Sse!Joined(t, Sse!DataLines(s, i)) = Sse!Joined(s, Sse!DataLines(s, i))
  BY <1>3, StartsJoined
<1>5. \A j \in Sse!Lines(s, i) : Sse!HeadAt(t, j) = Sse!HeadAt(s, j)
  BY <1>3, StartsLine
<1>6. i \in Sse!Blank(t) <=> i \in Sse!Blank(s)
  BY StartsLine
<1>7. QED
  BY <1>2, <1>4, <1>5, <1>6 DEF Sse!Tells

\* What is told of a stream goes on from what is told of its first part.
LEMMA StartsPayloads ==
  ASSUME NEW s, NEW t, Starts(s, t), NEW cap
  PROVE  \E q : /\ q[Len(s)] = Sse!Payloads(s, cap) /\ Sse!Payloads(t, cap) = q[Len(t)]
                /\ \A n \in Nat : n + 1 <= Len(t) => q[n + 1] = Telling(t, cap, n + 1, q[n])
<1>1. /\ s \in Seq(Bytes) /\ t \in Seq(Bytes) /\ Len(s) <= Len(t)
      /\ Len(s) \in Nat /\ Len(t) \in Nat
  BY LenProperties DEF Starts
<1>2. PICK m : /\ m[0] = <<>> /\ Sse!Payloads(s, cap) = m[Len(s)]
               /\ \A n \in Nat : n + 1 <= Len(s) => m[n + 1] = Telling(s, cap, n + 1, m[n])
  BY <1>1, PayloadsSteps
<1>3. PICK q : /\ q[0] = <<>> /\ Sse!Payloads(t, cap) = q[Len(t)]
               /\ \A n \in Nat : n + 1 <= Len(t) => q[n + 1] = Telling(t, cap, n + 1, q[n])
  BY <1>1, PayloadsSteps
<1>4. \A n \in Nat : n + 1 <= Len(s) /\ m[n] = q[n] => m[n + 1] = q[n + 1]
  <2>1. ASSUME NEW n \in Nat, n + 1 <= Len(s), m[n] = q[n] PROVE m[n + 1] = q[n + 1]
    <3>1. n + 1 \in 1 .. Len(s) /\ n + 1 <= Len(t)
      BY <1>1, <2>1
    <3>2. /\ Sse!Tells(t, n + 1, cap) <=> Sse!Tells(s, n + 1, cap)
          /\ Sse!Joined(t, Sse!DataLines(t, n + 1)) = Sse!Joined(s, Sse!DataLines(s, n + 1))
      BY <3>1, StartsTells
    <3>3. m[n + 1] = Telling(s, cap, n + 1, m[n]) /\ q[n + 1] = Telling(t, cap, n + 1, q[n])
      BY <1>2, <1>3, <2>1, <3>1
    <3>4. QED
      BY <2>1, <3>2, <3>3 DEF Telling
  <2>2. QED
    BY <2>1
<1>5. m[Len(s)] = q[Len(s)]
  BY <1>1, <1>2, <1>3, <1>4, SameSteps
<1>6. QED
  BY <1>2, <1>3, <1>5

\* Bytes that end no line tell nothing.
LEMMA PayloadsKept ==
  ASSUME NEW s, NEW t, Starts(s, t), NEW cap,
         \A n \in Nat : Len(s) < n /\ n <= Len(t) => n \notin Sse!Newlines(t)
  PROVE  Sse!Payloads(t, cap) = Sse!Payloads(s, cap)
<1>1. Len(s) \in Nat /\ Len(t) \in Nat /\ Len(s) <= Len(t)
  BY LenProperties DEF Starts
<1>2. PICK q : /\ q[Len(s)] = Sse!Payloads(s, cap) /\ Sse!Payloads(t, cap) = q[Len(t)]
               /\ \A n \in Nat : n + 1 <= Len(t) => q[n + 1] = Telling(t, cap, n + 1, q[n])
  BY StartsPayloads
<1>3. \A n \in Nat : Len(s) <= n /\ n + 1 <= Len(t) => q[n + 1] = q[n]
  <2>1. ASSUME NEW n \in Nat, Len(s) <= n, n + 1 <= Len(t) PROVE q[n + 1] = q[n]
    <3>1. n + 1 \notin Sse!Newlines(t)
      BY <1>1, <2>1
    <3>2. ~Sse!Tells(t, n + 1, cap)
      BY <3>1 DEF Sse!Tells, Sse!Blank
    <3>3. QED
      BY <1>2, <2>1, <3>2 DEF Telling
  <2>2. QED
    BY <2>1
<1>4. q[Len(t)] = q[Len(s)]
  BY <1>1, <1>3, NoSteps
<1>5. QED
  BY <1>2, <1>4

\* One more byte.
LEMMA PayloadsGrow ==
  ASSUME NEW s, NEW t, Starts(s, t), NEW cap, Len(t) = Len(s) + 1
  PROVE  Sse!Payloads(t, cap) = Telling(t, cap, Len(t), Sse!Payloads(s, cap))
<1>1. Len(s) \in Nat
  BY LenProperties DEF Starts
<1>2. PICK q : /\ q[Len(s)] = Sse!Payloads(s, cap) /\ Sse!Payloads(t, cap) = q[Len(t)]
               /\ \A n \in Nat : n + 1 <= Len(t) => q[n + 1] = Telling(t, cap, n + 1, q[n])
  BY StartsPayloads
<1>3. q[Len(s) + 1] = Telling(t, cap, Len(s) + 1, q[Len(s)])
  BY <1>1, <1>2
<1>4. QED
  BY <1>2, <1>3

-----------------------------------------------------------------------------
(* A stream and the event it is in.                                        *)

OpenLines(s) == Sse!Lines(s, Len(s) + 1)
OpenData(s) == Sse!DataLines(s, Len(s) + 1)
Text(s) == Sse!Joined(s, OpenData(s))
TooLong(s, cap) ==
  Len(Text(s)) > cap \/ \E j \in OpenLines(s) : Len(Sse!HeadAt(s, j)) > cap

\* Bytes without a newline go on with the line.
LEMMA LineGoesOn ==
  ASSUME NEW s \in Seq(Bytes), NEW h \in Seq(Bytes), Newlines(h) = {}, NEW cap
  PROVE  /\ s \o h \in Seq(Bytes) /\ Rest(s \o h) = Rest(s) \o h
         /\ OpenData(s \o h) = OpenData(s) /\ Text(s \o h) = Text(s)
         /\ TooLong(s \o h, cap) <=> TooLong(s, cap)
         /\ Sse!Payloads(s \o h, cap) = Sse!Payloads(s, cap)
<1> DEFINE t == s \o h
<1>1. /\ Starts(s, t) /\ Len(t) = Len(s) + Len(h) /\ Len(s) \in Nat /\ Len(h) \in Nat
      /\ \A i \in 1 .. Len(h) : t[Len(s) + i] = h[i]
  BY StartsOf
<1>2. \A i \in 1 .. Len(h) : h[i] # NL
  BY NoNewline
<1> HIDE DEF t
<1>3. t \in Seq(Bytes) /\ Len(s) <= Len(t) /\ \A i \in 1 .. Len(s) : t[i] = s[i]
  BY <1>1 DEF Starts
<1>4. \A n \in Nat : Len(s) < n /\ n <= Len(t) => t[n] # NL
  <2>1. ASSUME NEW n \in Nat, Len(s) < n, n <= Len(t) PROVE t[n] # NL
    <3>1. n - Len(s) \in 1 .. Len(h) /\ Len(s) + (n - Len(s)) = n
      BY <1>1, <2>1
    <3>2. QED
      BY <1>1, <1>2, <3>1
  <2>2. QED
    BY <2>1
<1>5. Cut(t, Len(t)) = Cut(s, Len(s))
  <2> DEFINE c == Cut(s, Len(s))
  <2> DEFINE d == Cut(t, Len(t))
  <2>1. Len(s) \in 0 .. Len(s) /\ Len(t) \in 0 .. Len(t)
    BY <1>1
  <2>2. /\ c \in 0 .. Len(s) /\ (c = 0 \/ s[c] = NL)
        /\ \A i \in 1 .. Len(s) : s[i] = NL => i <= c
    BY <2>1, CutIs
  <2>3. /\ d \in 0 .. Len(t) /\ (d = 0 \/ t[d] = NL)
        /\ \A i \in 1 .. Len(t) : t[i] = NL => i <= d
    BY <1>3, <2>1, CutIs
  <2> HIDE DEF c, d
  <2>4. d <= Len(s)
    BY <1>1, <1>4, <2>3
  <2>5. c = d
    BY <1>1, <1>3, <2>2, <2>3, <2>4
  <2>6. QED
    BY <2>5 DEF c, d
<1>6. Rest(t) = Rest(s) \o h
  <2> DEFINE c == Cut(s, Len(s))
  <2> DEFINE a == SubSeq(s, 1 + c, Len(s))
  <2> DEFINE b == SubSeq(t, 1 + c, Len(t))
  <2>1. c \in 0 .. Len(s) /\ Len(s) \in 0 .. Len(s)
    BY <1>1, CutIs
  <2>2. Rest(s) = a /\ Rest(t) = b
    BY <1>5 DEF Rest
  <2> HIDE DEF c
  <2>3. /\ 1 + c \in Int /\ Len(s) \in Int /\ Len(t) \in Int
        /\ \A i \in 1 .. Len(s) : s[i] \in Bytes
        /\ \A i \in 1 .. Len(t) : t[i] \in Bytes
    BY <1>1, <1>3, <2>1, ElementOfSeq
  <2>4. (\A i \in 1 + c .. Len(s) : s[i] \in Bytes) /\ \A i \in 1 + c .. Len(t) : t[i] \in Bytes
    BY <1>1, <2>1, <2>3
  <2>5. /\ a \in Seq(Bytes) /\ Len(a) = (IF 1 + c <= Len(s) THEN Len(s) - (1 + c) + 1 ELSE 0)
        /\ \A i \in 1 .. Len(s) - (1 + c) + 1 : a[i] = s[1 + c + i - 1]
    BY <2>3, <2>4, SubSeqProperties
  <2>6. /\ b \in Seq(Bytes) /\ Len(b) = (IF 1 + c <= Len(t) THEN Len(t) - (1 + c) + 1 ELSE 0)
        /\ \A i \in 1 .. Len(t) - (1 + c) + 1 : b[i] = t[1 + c + i - 1]
    BY <2>3, <2>4, SubSeqProperties
  <2> HIDE DEF a, b
  <2> DEFINE e == a \o h
  <2>7. /\ e \in Seq(Bytes) /\ Len(e) = Len(a) + Len(h)
        /\ \A i \in 1 .. Len(a) + Len(h) : e[i] = IF i <= Len(a) THEN a[i] ELSE h[i - Len(a)]
    BY <2>5, ConcatProperties
  <2> HIDE DEF e
  <2>8. Len(a) = Len(s) - c /\ Len(b) = Len(t) - c /\ Len(e) = Len(b)
    BY <1>1, <2>1, <2>5, <2>6, <2>7
  <2>9. ASSUME NEW i \in 1 .. Len(b) PROVE b[i] = e[i]
    <3>1. b[i] = t[c + i]
      <4>1. i \in 1 .. Len(t) - (1 + c) + 1 /\ 1 + c + i - 1 = c + i
        BY <1>1, <2>1, <2>8
      <4>2. QED
        BY <2>6, <4>1
    <3>2. CASE i <= Len(a)
      <4>1. i \in 1 .. Len(s) - (1 + c) + 1 /\ 1 + c + i - 1 = c + i /\ c + i \in 1 .. Len(s)
            /\ i \in 1 .. Len(a) + Len(h)
        BY <1>1, <2>1, <2>8, <3>2
      <4>2. e[i] = a[i] /\ a[i] = s[c + i] /\ t[c + i] = s[c + i]
        BY <1>3, <2>5, <2>7, <3>2, <4>1
      <4>3. QED
        BY <3>1, <4>2
    <3>3. CASE ~(i <= Len(a))
      <4>1. i - Len(a) \in 1 .. Len(h) /\ Len(s) + (i - Len(a)) = c + i
            /\ i \in 1 .. Len(a) + Len(h)
        BY <1>1, <2>1, <2>7, <2>8, <3>3
      <4>2. e[i] = h[i - Len(a)] /\ t[c + i] = h[i - Len(a)]
        BY <1>1, <2>7, <3>3, <4>1
      <4>3. QED
        BY <3>1, <4>2
    <3>4. QED
      BY <3>2, <3>3
  <2>10. b = e
    BY <2>6, <2>7, <2>8, <2>9, SeqEqual
  <2>11. QED
    BY <2>2, <2>10 DEF e
<1>7. \A n \in Nat : Len(s) < n /\ n <= Len(t) => n \notin Sse!Newlines(t)
  BY <1>4 DEF Sse!Newlines
<1>8. Sse!Newlines(t) = Sse!Newlines(s)
  <2>1. Sse!Newlines(t) \subseteq 1 .. Len(t) /\ Sse!Newlines(s) \subseteq 1 .. Len(s)
    BY <1>3, Positions
  <2>2. \A j \in 1 .. Len(s) : (j \in Sse!Newlines(t) <=> j \in Sse!Newlines(s))
    BY <1>1, StartsLine
  <2>3. \A j \in 1 .. Len(t) : j \in Sse!Newlines(t) => j \in 1 .. Len(s)
    BY <1>1, <1>7
  <2>4. \A j \in 1 .. Len(s) : j \in 1 .. Len(t)
    BY <1>1, <1>3
  <2>5. \A j : j \in Sse!Newlines(t) <=> j \in Sse!Newlines(s)
    BY <2>1, <2>2, <2>3, <2>4
  <2>6. QED
    BY <2>5 DEF Sse!Newlines
<1>9. \A j \in Sse!Newlines(s) : j \in 1 .. Len(s)
  BY Positions
<1>10. \A j \in Sse!Newlines(s) : /\ Sse!Line(t, j) = Sse!Line(s, j)
                                  /\ Sse!HeadAt(t, j) = Sse!HeadAt(s, j)
  BY <1>1, <1>9, StartsLine
<1>11. Sse!Blank(t) = Sse!Blank(s)
  BY <1>8, <1>10 DEF Sse!Blank
<1>12. \A j \in Sse!Newlines(s) : j < Len(s) + 1 /\ j < Len(t) + 1
  BY <1>1, <1>9
<1>13. OpenLines(t) = OpenLines(s)
  <2>1. \A j \in Sse!Blank(s) : j \in Sse!Newlines(s)
    BY DEF Sse!Blank
  <2>2. QED
    BY <1>8, <1>11, <1>12, <2>1 DEF OpenLines, Sse!Lines
<1>14. \A j \in OpenLines(s) : j \in Sse!Newlines(s)
  BY DEF OpenLines, Sse!Lines
<1>15. OpenData(t) = OpenData(s)
  BY <1>10, <1>13, <1>14 DEF OpenData, OpenLines, Sse!DataLines
<1>16. OpenData(s) \in SUBSET (1 .. Len(s))
  BY Positions DEF OpenData
<1>17. Text(t) = Text(s)
  BY <1>1, <1>15, <1>16, StartsJoined DEF Text
<1>18. TooLong(t, cap) <=> TooLong(s, cap)
  BY <1>10, <1>13, <1>14, <1>17 DEF TooLong
<1>19. Sse!Payloads(t, cap) = Sse!Payloads(s, cap)
  BY <1>1, <1>7, PayloadsKept
<1>20. QED
  BY <1>3, <1>6, <1>15, <1>17, <1>18, <1>19 DEF t

\* A newline ends the line, and the event if the line is blank.
LEMMA LineEnds ==
  ASSUME NEW s \in Seq(Bytes), NEW cap
  PROVE  LET t == s \o <<NL>>
             n == Len(s) + 1
             l == Sse!StripCr(Rest(s))
         IN  /\ t \in Seq(Bytes) /\ Rest(t) = <<>>
             /\ Sse!HeadAt(t, n) = Rest(s) /\ Sse!Line(t, n) = l
             /\ OpenLines(t) = (IF l = <<>> THEN {} ELSE OpenLines(s) \cup {n})
             /\ OpenData(t) = (IF l = <<>> THEN {}
                               ELSE IF Sse!Field(l) = <<"data">> THEN OpenData(s) \cup {n}
                               ELSE OpenData(s))
             /\ \A j \in OpenLines(s) : Sse!HeadAt(t, j) = Sse!HeadAt(s, j)
             /\ Sse!Joined(t, OpenData(s)) = Text(s)
             /\ Sse!Payloads(t, cap)
                  = IF l = <<>> /\ OpenData(s) # {} /\ (Len(Text(s)) <= cap)
                       /\ (\A j \in OpenLines(s) : Len(Sse!HeadAt(s, j)) <= cap)
                    THEN Append(Sse!Payloads(s, cap), Text(s)) ELSE Sse!Payloads(s, cap)
<1> DEFINE r == <<NL>>
<1> DEFINE t == s \o r
<1> DEFINE n == Len(s) + 1
<1> DEFINE l == Sse!StripCr(Rest(s))
<1>0. r \in Seq(Bytes) /\ Len(r) = 1 /\ r[1] = NL
  BY DEF Bytes
<1> HIDE DEF r
<1>1. /\ Starts(s, t) /\ Len(t) = n /\ Len(s) \in Nat /\ n \in Nat /\ t[n] = NL
  <2>1. /\ Starts(s, t) /\ Len(t) = Len(s) + Len(r) /\ Len(s) \in Nat
        /\ \A i \in 1 .. Len(r) : t[Len(s) + i] = r[i]
    BY <1>0, StartsOf
  <2> HIDE DEF t
  <2>2. 1 \in 1 .. Len(r)
    BY <1>0
  <2>3. QED
    BY <1>0, <2>1, <2>2
<1> HIDE DEF t
<1>2. t \in Seq(Bytes) /\ Len(s) <= Len(t) /\ n \in 1 .. Len(t)
  BY <1>1 DEF Starts
<1>3. Sse!HeadAt(t, n) = Rest(s)
  <2>1. n - 1 = Len(s) /\ Len(s) \in 0 .. Len(s)
    BY <1>1
  <2>2. Cut(t, Len(s)) = Cut(s, Len(s))
        /\ SubSeq(t, 1 + Cut(t, Len(s)), Len(s)) = SubSeq(s, 1 + Cut(s, Len(s)), Len(s))
    BY <1>1, <2>1, StartsCut
  <2>3. HeadAt(t, n) = SubSeq(t, 1 + Cut(t, Len(s)), Len(s))
    BY <2>1 DEF HeadAt
  <2>4. QED
    BY <2>2, <2>3, SamePieces DEF Rest
<1>4. Sse!Line(t, n) = l
  BY <1>3 DEF Sse!Line
<1>5. Rest(t) = <<>>
  <2>1. Cut(t, n) = n
    BY <1>1, <1>2, CutStep
  <2>2. SubSeq(t, 1 + n, n) = <<>>
    BY <1>1, <1>2, SubSeqEmpty
  <2>3. QED
    BY <1>1, <2>1, <2>2 DEF Rest
<1>6. \A j \in 1 .. Len(s) : /\ Sse!Line(t, j) = Sse!Line(s, j)
                             /\ Sse!HeadAt(t, j) = Sse!HeadAt(s, j)
                             /\ (j \in Sse!Newlines(t) <=> j \in Sse!Newlines(s))
                             /\ (j \in Sse!Blank(t) <=> j \in Sse!Blank(s))
  BY <1>1, StartsLine
<1>7. n \in Sse!Newlines(t)
  BY <1>1, <1>2, LenProperties DEF Sse!Newlines
<1>8. n \in Sse!Blank(t) <=> l = <<>>
  BY <1>4, <1>7 DEF Sse!Blank
<1>9. n \in 1 .. Len(s) + 1
  BY <1>1
<1>10. Sse!Lines(t, n) = OpenLines(s) /\ Sse!DataLines(t, n) = OpenData(s)
  BY <1>1, <1>9, StartsLines DEF OpenLines, OpenData
<1>11. /\ Sse!Newlines(t) \subseteq 1 .. n /\ Sse!Blank(t) \subseteq 1 .. n
       /\ OpenLines(s) \subseteq 1 .. Len(s) /\ OpenData(s) \in SUBSET (1 .. Len(s))
  BY <1>1, <1>2, Positions DEF OpenLines, OpenData
<1> HIDE DEF n, l
<1>12. OpenLines(t) = IF l = <<>> THEN {} ELSE OpenLines(s) \cup {n}
  <2>1. OpenLines(t) = {j \in Sse!Newlines(t) :
                          j < n + 1 /\ \A b \in Sse!Blank(t) : b < n + 1 => b < j}
    BY <1>1 DEF OpenLines, Sse!Lines
  <2>2. \A j \in Sse!Newlines(t) : j \in 1 .. n /\ j < n + 1
    BY <1>1, <1>11
  <2>3. \A b \in Sse!Blank(t) : b \in 1 .. n /\ b < n + 1
    BY <1>1, <1>11
  <2>4. OpenLines(t) = {j \in Sse!Newlines(t) : \A b \in Sse!Blank(t) : b < j}
    BY <2>1, <2>2, <2>3
  <2>5. CASE l = <<>>
    <3>1. \A j \in Sse!Newlines(t) : ~(n < j)
      BY <1>1, <2>2
    <3>2. QED
      BY <1>8, <2>4, <2>5, <3>1
  <2>6. CASE l # <<>>
    <3>1. \A b \in Sse!Blank(t) : b < n
      <4>1. ASSUME NEW b \in Sse!Blank(t) PROVE b < n
        <5>1. b \in 1 .. n /\ b # n
          BY <1>8, <2>3, <2>6
        <5>2. QED
          BY <1>1, <5>1
      <4>2. QED
        BY <4>1
    <3>2. n \in OpenLines(t)
      BY <1>7, <2>4, <3>1
    <3>3. OpenLines(s) = {j \in Sse!Newlines(t) : j < n /\ \A b \in Sse!Blank(t) : b < n => b < j}
      BY <1>10 DEF Sse!Lines
    <3>4. OpenLines(s) = {j \in Sse!Newlines(t) : j < n /\ \A b \in Sse!Blank(t) : b < j}
      BY <3>1, <3>3
    <3>5. \A j \in Sse!Newlines(t) : j = n \/ j < n
      BY <1>1, <2>2
    <3>6. QED
      BY <2>4, <2>6, <3>2, <3>4, <3>5
  <2>7. QED
    BY <2>5, <2>6
<1>13. OpenData(t) = IF l = <<>> THEN {}
                     ELSE IF Sse!Field(l) = <<"data">> THEN OpenData(s) \cup {n}
                     ELSE OpenData(s)
  <2>1. OpenData(t) = {j \in OpenLines(t) : Sse!Field(Sse!Line(t, j)) = <<"data">>}
    BY DEF OpenData, OpenLines, Sse!DataLines
  <2>2. OpenData(s) = {j \in OpenLines(s) : Sse!Field(Sse!Line(s, j)) = <<"data">>}
    BY DEF OpenData, OpenLines, Sse!DataLines
  <2>3. \A j \in OpenLines(s) : Sse!Line(t, j) = Sse!Line(s, j)
    BY <1>6, <1>11
  <2>4. CASE l = <<>>
    BY <1>12, <2>1, <2>4
  <2>5. CASE l # <<>>
    <3>1. OpenLines(t) = OpenLines(s) \cup {n}
      BY <1>12, <2>5
    <3>2. OpenData(t) = OpenData(s) \cup {j \in {n} : Sse!Field(Sse!Line(t, j)) = <<"data">>}
      BY <2>1, <2>2, <2>3, <3>1
    <3>3. QED
      BY <1>4, <2>5, <3>2
  <2>6. QED
    BY <2>4, <2>5
<1>14. \A j \in OpenLines(s) : Sse!HeadAt(t, j) = Sse!HeadAt(s, j)
  BY <1>6, <1>11
<1>15. Sse!Joined(t, OpenData(s)) = Text(s)
  BY <1>1, <1>11, StartsJoined DEF Text
<1>16. Sse!Payloads(t, cap)
         = IF l = <<>> /\ OpenData(s) # {} /\ (Len(Text(s)) <= cap)
              /\ (\A j \in OpenLines(s) : Len(Sse!HeadAt(s, j)) <= cap)
           THEN Append(Sse!Payloads(s, cap), Text(s)) ELSE Sse!Payloads(s, cap)
  <2>1. Sse!Payloads(t, cap) = Telling(t, cap, n, Sse!Payloads(s, cap))
    <3>1. Len(t) = Len(s) + 1
      BY <1>1 DEF n
    <3>2. QED
      BY <1>1, <3>1, PayloadsGrow
  <2>2. Sse!Tells(t, n, cap)
          <=> /\ l = <<>> /\ OpenData(s) # {} /\ Len(Text(s)) <= cap
              /\ \A j \in OpenLines(s) : Len(Sse!HeadAt(s, j)) <= cap
    BY <1>8, <1>10, <1>14, <1>15 DEF Sse!Tells
  <2>3. QED
    BY <1>10, <1>15, <2>1, <2>2 DEF Telling
<1>17. QED
  BY <1>2, <1>3, <1>4, <1>5, <1>12, <1>13, <1>14, <1>15, <1>16 DEF t, n, l, r

-----------------------------------------------------------------------------
(* The state of SseSplitter between two pieces.                            *)

Rec(c, l, d, w, o, y, u) ==
  [cap |-> c, line |-> l, data |-> d, sawData |-> w, overflow |-> o, lineDirty |-> y, out |-> u]

Fields(st) ==
  st = Rec(st.cap, st.line, st.data, st.sawData, st.overflow, st.lineDirty, st.out)

\* What was made of the stream s: the line that is not over, unless it is too long, the
\* text of the event it is in, unless that is to be skipped, and the payloads told.
Right(st, s) ==
  /\ s \in Seq(Bytes) /\ Fields(st) /\ st.cap \in Nat \ {0}
  /\ st.lineDirty <=> Len(Rest(s)) > st.cap
  /\ st.line = IF st.lineDirty THEN <<>> ELSE Rest(s)
  /\ st.overflow <=> st.lineDirty \/ TooLong(s, st.cap)
  /\ ~st.overflow => st.data = Text(s) /\ (st.sawData <=> OpenData(s) # {})
  /\ st.out = Sse!Payloads(s, st.cap)

LEMMA BufferIs ==
  ASSUME NEW st, Fields(st), NEW h, NEW b, b = Sse!BufferLine(st, h)
  PROVE  /\ Fields(b) /\ b.cap = st.cap /\ b.data = st.data /\ b.sawData = st.sawData
         /\ b.out = st.out
         /\ st.lineDirty => b = st
         /\ ~st.lineDirty /\ Len(st.line) + Len(h) > st.cap =>
              b.line = <<>> /\ b.overflow = TRUE /\ b.lineDirty = TRUE
         /\ ~st.lineDirty /\ ~(Len(st.line) + Len(h) > st.cap) =>
              /\ b.line = st.line \o h /\ b.overflow = st.overflow
              /\ b.lineDirty = st.lineDirty
<1> DEFINE over == Len(st.line) + Len(h) > st.cap
<1>1. b = IF st.lineDirty THEN st
          ELSE IF over THEN [st EXCEPT !.line = <<>>, !.overflow = TRUE, !.lineDirty = TRUE]
          ELSE [st EXCEPT !.line = @ \o h]
  BY DEF Sse!BufferLine
<1> HIDE DEF over
<1>2. CASE st.lineDirty
  BY <1>1, <1>2
<1>3. CASE ~st.lineDirty /\ over
  <2> DEFINE v == TRUE
  <2>1. b = [[[st EXCEPT !.line = <<>>] EXCEPT !.overflow = v] EXCEPT !.lineDirty = v]
    BY <1>1, <1>3
  <2> HIDE DEF v
  <2> DEFINE s1 == Rec(st.cap, <<>>, st.data, st.sawData, st.overflow, st.lineDirty, st.out)
  <2> DEFINE s2 == Rec(st.cap, <<>>, st.data, st.sawData, v, st.lineDirty, st.out)
  <2> DEFINE s3 == Rec(st.cap, <<>>, st.data, st.sawData, v, v, st.out)
  <2>2. [st EXCEPT !.line = <<>>] = s1
    BY DEF Fields, Rec
  <2>3. [s1 EXCEPT !.overflow = v] = s2
    BY DEF Rec
  <2>4. [s2 EXCEPT !.lineDirty = v] = s3
    BY DEF Rec
  <2>5. b = s3
    <3> HIDE DEF s1, s2, s3
    <3>1. QED
      BY <2>1, <2>2, <2>3, <2>4
  <2>6. /\ b.cap = st.cap /\ b.data = st.data /\ b.sawData = st.sawData /\ b.out = st.out
        /\ b.line = <<>> /\ b.overflow = v /\ b.lineDirty = v
    <3>1. /\ s3.cap = st.cap /\ s3.data = st.data /\ s3.sawData = st.sawData
          /\ s3.out = st.out /\ s3.line = <<>> /\ s3.overflow = v /\ s3.lineDirty = v
      BY Zenon DEF Rec
    <3> HIDE DEF s3
    <3>2. QED
      BY <2>5, <3>1
  <2>7. Fields(b)
    BY <2>5, <2>6 DEF Fields
  <2>8. QED
    BY <1>3, <2>6, <2>7, Zenon DEF v, over
<1>4. CASE ~st.lineDirty /\ ~over
  <2> DEFINE x == st.line \o h
  <2>1. b = [st EXCEPT !.line = x]
    BY <1>1, <1>4
  <2> HIDE DEF x
  <2> DEFINE s1 == Rec(st.cap, x, st.data, st.sawData, st.overflow, st.lineDirty, st.out)
  <2>2. b = s1
    BY <2>1 DEF Fields, Rec
  <2>3. /\ b.cap = st.cap /\ b.data = st.data /\ b.sawData = st.sawData /\ b.out = st.out
        /\ b.line = x /\ b.overflow = st.overflow /\ b.lineDirty = st.lineDirty
    <3>1. /\ s1.cap = st.cap /\ s1.data = st.data /\ s1.sawData = st.sawData
          /\ s1.out = st.out /\ s1.line = x /\ s1.overflow = st.overflow
          /\ s1.lineDirty = st.lineDirty
      BY Zenon DEF Rec
    <3> HIDE DEF s1
    <3>2. QED
      BY <2>2, <3>1
  <2>4. Fields(b)
    BY <2>2, <2>3 DEF Fields
  <2>5. QED
    BY <1>4, <2>3, <2>4, Zenon DEF x, over
<1>5. QED
  BY <1>2, <1>3, <1>4

\* What a newline makes of the state b, whose line is l and would make the text data.
Ended(b, l, data, e) ==
  /\ Fields(e) /\ e.cap = b.cap /\ e.line = <<>> /\ e.lineDirty = FALSE
  /\ ~b.lineDirty /\ l = <<>> =>
       /\ e.overflow = FALSE /\ e.data = <<>> /\ e.sawData = FALSE
       /\ e.out = IF b.sawData /\ ~b.overflow THEN Append(b.out, b.data) ELSE b.out
  /\ ~b.lineDirty /\ l # <<>> /\ Sse!Field(l) = <<"data">> /\ ~b.overflow =>
       /\ e.out = b.out /\ e.sawData = TRUE /\ e.overflow = (Len(data) > b.cap)
       /\ e.data = IF Len(data) > b.cap THEN <<>> ELSE data
  /\ b.lineDirty \/ (l # <<>> /\ (Sse!Field(l) # <<"data">> \/ b.overflow)) =>
       /\ e.out = b.out /\ e.overflow = b.overflow
       /\ e.data = b.data /\ e.sawData = b.sawData

LEMMA EndIs ==
  ASSUME NEW st, NEW h, NEW b, b = Sse!BufferLine(st, h), Fields(b),
         NEW e, e = Sse!EndLine(st, h), NEW l, l = Sse!StripCr(b.line),
         NEW data,
         data = b.data \o (IF b.sawData THEN <<NL>> ELSE <<>>) \o Sse!Value(l)
  PROVE  Ended(b, l, data, e)
<1> USE DEF Ended
<1> DEFINE f == FALSE
<1> DEFINE next == Rec(b.cap, <<>>, b.data, b.sawData, b.overflow, f, b.out)
<1>1. e = IF b.lineDirty THEN [[b EXCEPT !.line = <<>>] EXCEPT !.lineDirty = f]
          ELSE Sse!HandleLine([[b EXCEPT !.line = <<>>] EXCEPT !.lineDirty = f], l)
  BY DEF Sse!EndLine
<1> HIDE DEF f
<1>2. [[b EXCEPT !.line = <<>>] EXCEPT !.lineDirty = f] = next
  <2> DEFINE s1 == Rec(b.cap, <<>>, b.data, b.sawData, b.overflow, b.lineDirty, b.out)
  <2>1. [b EXCEPT !.line = <<>>] = s1
    BY DEF Fields, Rec
  <2>2. [s1 EXCEPT !.lineDirty = f] = next
    BY DEF Rec
  <2> HIDE DEF s1, next
  <2>3. QED
    BY <2>1, <2>2
<1>3. next.data = b.data /\ next.sawData = b.sawData /\ next.overflow = b.overflow
      /\ next.out = b.out /\ next.cap = b.cap /\ next.line = <<>> /\ next.lineDirty = f
  BY Zenon DEF Rec
<1> HIDE DEF next
<1>4. e = IF b.lineDirty THEN next ELSE Sse!HandleLine(next, l)
  BY <1>1, <1>2
<1>5. CASE b.lineDirty \/ (l # <<>> /\ (Sse!Field(l) # <<"data">> \/ b.overflow))
  <2>1. e = next
    BY <1>3, <1>4, <1>5 DEF Sse!HandleLine
  <2>2. /\ e.cap = b.cap /\ e.data = b.data /\ e.sawData = b.sawData /\ e.out = b.out
        /\ e.line = <<>> /\ e.overflow = b.overflow /\ e.lineDirty = f
    BY <1>3, <2>1
  <2>3. Fields(e)
    BY <2>1, <2>2 DEF Fields, next
  <2>4. QED
    BY <1>5, <2>2, <2>3, Zenon DEF f
<1>6. CASE ~b.lineDirty /\ l = <<>>
  <2> DEFINE o == IF b.sawData /\ ~b.overflow THEN Append(b.out, b.data) ELSE b.out
  <2>1. e = Sse!Dispatch(next)
    BY <1>4, <1>6 DEF Sse!HandleLine
  <2>2. e = [[[[next EXCEPT !.data = <<>>] EXCEPT !.sawData = f] EXCEPT !.overflow = f]
               EXCEPT !.out = o]
    BY <1>3, <2>1 DEF Sse!Dispatch, f
  <2> HIDE DEF o
  <2> DEFINE s1 == Rec(b.cap, <<>>, <<>>, b.sawData, b.overflow, f, b.out)
  <2> DEFINE s2 == Rec(b.cap, <<>>, <<>>, f, b.overflow, f, b.out)
  <2> DEFINE s3 == Rec(b.cap, <<>>, <<>>, f, f, f, b.out)
  <2> DEFINE s4 == Rec(b.cap, <<>>, <<>>, f, f, f, o)
  <2>3. [next EXCEPT !.data = <<>>] = s1
    BY DEF Rec, next
  <2>4. [s1 EXCEPT !.sawData = f] = s2 /\ [s2 EXCEPT !.overflow = f] = s3
        /\ [s3 EXCEPT !.out = o] = s4
    BY DEF Rec
  <2>5. e = s4
    <3> HIDE DEF s1, s2, s3, s4
    <3>1. QED
      BY <2>2, <2>3, <2>4
  <2>6. /\ e.cap = b.cap /\ e.data = <<>> /\ e.sawData = f /\ e.out = o
        /\ e.line = <<>> /\ e.overflow = f /\ e.lineDirty = f
    <3>1. /\ s4.cap = b.cap /\ s4.data = <<>> /\ s4.sawData = f /\ s4.out = o
          /\ s4.line = <<>> /\ s4.overflow = f /\ s4.lineDirty = f
      BY Zenon DEF Rec
    <3> HIDE DEF s4
    <3>2. QED
      BY <2>5, <3>1
  <2>7. Fields(e)
    BY <2>5, <2>6 DEF Fields
  <2>8. QED
    BY <1>6, <2>6, <2>7, Zenon DEF f, o
<1>7. CASE ~b.lineDirty /\ l # <<>> /\ Sse!Field(l) = <<"data">> /\ ~b.overflow
  <2> DEFINE v == TRUE
  <2> DEFINE over == Len(data) > b.cap
  <2> DEFINE d == IF over THEN <<>> ELSE data
  <2>1. e = Sse!AppendData(next, Sse!Value(l))
    BY <1>3, <1>4, <1>7 DEF Sse!HandleLine
  <2>2. e = [[[next EXCEPT !.sawData = v] EXCEPT !.overflow = over] EXCEPT !.data = d]
    BY <1>3, <2>1 DEF Sse!AppendData
  <2> HIDE DEF v, over, d
  <2> DEFINE s1 == Rec(b.cap, <<>>, b.data, v, b.overflow, f, b.out)
  <2> DEFINE s2 == Rec(b.cap, <<>>, b.data, v, over, f, b.out)
  <2> DEFINE s3 == Rec(b.cap, <<>>, d, v, over, f, b.out)
  <2>3. [next EXCEPT !.sawData = v] = s1
    BY DEF Rec, next
  <2>4. [s1 EXCEPT !.overflow = over] = s2 /\ [s2 EXCEPT !.data = d] = s3
    BY DEF Rec
  <2>5. e = s3
    <3> HIDE DEF s1, s2, s3
    <3>1. QED
      BY <2>2, <2>3, <2>4
  <2>6. /\ e.cap = b.cap /\ e.data = d /\ e.sawData = v /\ e.out = b.out
        /\ e.line = <<>> /\ e.overflow = over /\ e.lineDirty = f
    <3>1. /\ s3.cap = b.cap /\ s3.data = d /\ s3.sawData = v /\ s3.out = b.out
          /\ s3.line = <<>> /\ s3.overflow = over /\ s3.lineDirty = f
      BY Zenon DEF Rec
    <3> HIDE DEF s3
    <3>2. QED
      BY <2>5, <3>1
  <2>7. Fields(e)
    BY <2>5, <2>6 DEF Fields
  <2>8. QED
    BY <1>7, <2>6, <2>7, Zenon DEF f, v, over, d
<1>8. QED
  BY <1>5, <1>6, <1>7, Zenon

LEMMA BufferRight ==
  ASSUME NEW st, NEW s, Right(st, s), NEW h \in Seq(Bytes), Newlines(h) = {}
  PROVE  Right(Sse!BufferLine(st, h), s \o h)
<1> DEFINE b == Sse!BufferLine(st, h)
<1> DEFINE t == s \o h
<1>1. /\ s \in Seq(Bytes) /\ Fields(st) /\ st.cap \in Nat \ {0}
      /\ (st.lineDirty <=> Len(Rest(s)) > st.cap)
      /\ st.line = (IF st.lineDirty THEN <<>> ELSE Rest(s))
      /\ (st.overflow <=> st.lineDirty \/ TooLong(s, st.cap))
      /\ (~st.overflow => st.data = Text(s) /\ (st.sawData <=> OpenData(s) # {}))
      /\ st.out = Sse!Payloads(s, st.cap)
  BY DEF Right
<1>2. Rest(s) \in Seq(Bytes) /\ Len(Rest(s)) \in Nat /\ Len(h) \in Nat
      /\ Len(Rest(s) \o h) = Len(Rest(s)) + Len(h)
  BY <1>1, RestIs, LenProperties, ConcatProperties
<1>3. /\ t \in Seq(Bytes) /\ Rest(t) = Rest(s) \o h
      /\ OpenData(t) = OpenData(s) /\ Text(t) = Text(s)
      /\ (TooLong(t, st.cap) <=> TooLong(s, st.cap))
      /\ Sse!Payloads(t, st.cap) = Sse!Payloads(s, st.cap)
  BY <1>1, LineGoesOn
<1>4. /\ Fields(b) /\ b.cap = st.cap /\ b.data = st.data /\ b.sawData = st.sawData
      /\ b.out = st.out
      /\ st.lineDirty => b = st
      /\ ~st.lineDirty /\ Len(st.line) + Len(h) > st.cap =>
           b.line = <<>> /\ b.overflow = TRUE /\ b.lineDirty = TRUE
      /\ ~st.lineDirty /\ ~(Len(st.line) + Len(h) > st.cap) =>
           /\ b.line = st.line \o h /\ b.overflow = st.overflow
           /\ b.lineDirty = st.lineDirty
  BY <1>1, BufferIs
<1> HIDE DEF b, t
<1>5. CASE st.lineDirty
  <2>1. b = st /\ Len(Rest(t)) > st.cap
    BY <1>1, <1>2, <1>3, <1>4, <1>5
  <2>2. Right(st, t)
    BY <1>1, <1>3, <1>5, <2>1 DEF Right
  <2>3. QED
    BY <2>1, <2>2 DEF b, t
<1>6. CASE ~st.lineDirty /\ Len(st.line) + Len(h) > st.cap
  <2>1. b.line = <<>> /\ b.overflow /\ b.lineDirty /\ Len(Rest(t)) > st.cap
    BY <1>1, <1>2, <1>3, <1>4, <1>6
  <2>2. Right(b, t)
    BY <1>1, <1>3, <1>4, <2>1 DEF Right
  <2>3. QED
    BY <2>2 DEF b, t
<1>7. CASE ~st.lineDirty /\ ~(Len(st.line) + Len(h) > st.cap)
  <2>1. /\ b.line = Rest(t) /\ b.overflow = st.overflow /\ ~b.lineDirty
        /\ ~(Len(Rest(t)) > st.cap)
    BY <1>1, <1>2, <1>3, <1>4, <1>7
  <2>2. Right(b, t)
    BY <1>1, <1>3, <1>4, <1>7, <2>1 DEF Right
  <2>3. QED
    BY <2>2 DEF b, t
<1>8. QED
  BY <1>5, <1>6, <1>7

LEMMA StripEmpty ==
  ASSUME NEW l \in Seq(Bytes), Sse!StripCr(l) = <<>> PROVE Len(l) <= 1
<1>1. CASE l = <<>>
  BY <1>1, EmptySeq
<1>2. CASE l # <<>>
  <2>1. Sse!StripCr(l) = SubSeq(l, 1, Len(l) - 1)
    BY <1>2 DEF Sse!StripCr, Sse!Front
  <2>2. Len(l) \in Nat /\ \A i \in 1 .. Len(l) : l[i] \in Bytes
    BY LenProperties, ElementOfSeq
  <2>3. Len(SubSeq(l, 1, Len(l) - 1)) = IF 1 <= Len(l) - 1 THEN Len(l) - 1 - 1 + 1 ELSE 0
    BY <2>2, SubSeqProperties
  <2>4. Len(<<>>) = 0
    BY EmptySeq
  <2> DEFINE x == SubSeq(l, 1, Len(l) - 1)
  <2>5. x = <<>>
    BY <2>1
  <2> HIDE DEF x
  <2>6. Len(x) = 0
    BY <2>4, <2>5
  <2>7. QED
    BY <2>2, <2>3, <2>6 DEF x
<1>3. QED
  BY <1>1, <1>2

LEMMA OpenTyped ==
  ASSUME NEW s \in Seq(Bytes)
  PROVE  /\ Text(s) \in Seq(Bytes) /\ Len(Text(s)) \in Nat
         /\ OpenLines(s) \subseteq 1 .. Len(s) /\ OpenData(s) \subseteq 1 .. Len(s)
         /\ \A j \in OpenLines(s) : Len(Sse!HeadAt(s, j)) \in Nat
         /\ OpenData(s) = {} => Text(s) = <<>>
<1>1. Text(s) \in Seq(Bytes)
  BY JoinedTyped DEF Text
<1>2. OpenLines(s) \subseteq 1 .. Len(s) /\ OpenData(s) \subseteq 1 .. Len(s)
  BY Positions DEF OpenLines, OpenData
<1>3. \A j \in OpenLines(s) : Sse!HeadAt(s, j) \in Seq(Bytes)
  BY <1>2, HeadTyped
<1>4. OpenData(s) = {} => Text(s) = <<>>
  BY JoinedNone DEF Text
<1>5. QED
  BY <1>1, <1>2, <1>3, <1>4, LenProperties

\* The text of an event after one more data line.
LEMMA TextGrows ==
  ASSUME NEW s \in Seq(Bytes), NEW l, l = Sse!StripCr(Rest(s)), l # <<>>,
         Sse!Field(l) = <<"data">>
  PROVE  /\ Text(s \o <<NL>>) = Text(s) \o (IF OpenData(s) # {} THEN <<NL>> ELSE <<>>)
                                  \o Sse!Value(l)
         /\ Len(Text(s \o <<NL>>)) >= Len(Text(s)) /\ OpenData(s \o <<NL>>) # {}
<1> DEFINE t == s \o <<NL>>
<1> DEFINE n == Len(s) + 1
<1>1. /\ t \in Seq(Bytes) /\ Sse!Line(t, n) = l /\ OpenData(t) = OpenData(s) \cup {n}
      /\ Sse!Joined(t, OpenData(s)) = Text(s)
  BY LineEnds
<1> HIDE DEF t
<1>2. n \in 1 .. Len(t) /\ \A j \in OpenData(s) : j \in 1 .. Len(t) /\ j < n
  <2>1. OpenData(t) \subseteq 1 .. Len(t) /\ Len(s) \in Nat
    BY <1>1, OpenTyped, LenProperties
  <2>2. OpenData(s) \subseteq 1 .. Len(s)
    BY OpenTyped
  <2>3. QED
    BY <1>1, <2>1, <2>2
<1>3. Text(t) = IF OpenData(s) = {} THEN Sse!Value(l)
                ELSE Append(Text(s), NL) \o Sse!Value(l)
  <2> DEFINE D == OpenData(s)
  <2> HIDE DEF n, D
  <2>1. Sse!Joined(t, D \cup {n})
          = IF D = {} THEN Sse!Value(Sse!Line(t, n))
            ELSE Append(Sse!Joined(t, D), NL) \o Sse!Value(Sse!Line(t, n))
    BY <1>1, <1>2, JoinedGrows DEF D
  <2>2. Text(t) = Sse!Joined(t, D \cup {n})
    BY <1>1 DEF Text, D
  <2>3. QED
    BY <1>1, <2>1, <2>2 DEF D
<1>4. Text(s) \in Seq(Bytes) /\ Sse!Value(l) \in Seq(Bytes) /\ NL \in Bytes
      /\ Len(Text(s)) \in Nat
  <2>1. Rest(s) \in Seq(Bytes)
    BY RestIs
  <2>2. QED
    BY <2>1, OpenTyped, StripTyped, ValueTyped DEF Bytes
<1> DEFINE T == Text(s)
<1> DEFINE v == Sse!Value(l)
<1>5. T \in Seq(Bytes) /\ v \in Seq(Bytes)
  BY <1>4
<1>6. CASE OpenData(s) = {}
  <2>1. T = <<>>
    BY <1>6, OpenTyped
  <2> HIDE DEF T, v
  <2>2. T \o <<>> \o v = v
    BY <1>5, <2>1, ConcatEmptySeq
  <2>3. Text(t) = T \o <<>> \o v /\ Len(Text(t)) >= Len(T)
    <3>1. Len(v) \in Nat /\ Len(T) = 0
      BY <1>5, <2>1, LenProperties, EmptySeq
    <3>2. Text(t) = v
      BY <1>3, <1>6 DEF v
    <3>3. QED
      BY <2>2, <3>1, <3>2
  <2>4. QED
    BY <1>1, <1>6, <2>3 DEF T, v, t
<1>7. CASE OpenData(s) # {}
  <2> HIDE DEF T, v
  <2>1. Append(T, NL) = T \o <<NL>>
    BY <1>4, <1>5, AppendIsConcat
  <2>2. Append(T, NL) \in Seq(Bytes) /\ Len(Append(T, NL)) = Len(T) + 1
    BY <1>4, <1>5, AppendProperties
  <2>3. Len(Append(T, NL) \o v) = Len(T) + 1 + Len(v) /\ Len(v) \in Nat /\ Len(T) \in Nat
    BY <1>5, <2>2, ConcatProperties, LenProperties
  <2>4. Text(t) = Append(T, NL) \o v
    BY <1>3, <1>7 DEF T, v
  <2>5. Text(t) = T \o <<NL>> \o v /\ Len(Text(t)) >= Len(T)
    BY <2>1, <2>3, <2>4
  <2>6. QED
    BY <1>1, <1>7, <2>5 DEF T, v, t
<1>8. QED
  BY <1>6, <1>7

LEMMA EndRight ==
  ASSUME NEW st, NEW h, NEW s, Right(Sse!BufferLine(st, h), s)
  PROVE  Right(Sse!EndLine(st, h), s \o <<NL>>)
<1> DEFINE b == Sse!BufferLine(st, h)
<1> DEFINE e == Sse!EndLine(st, h)
<1> DEFINE t == s \o <<NL>>
<1> DEFINE n == Len(s) + 1
<1> DEFINE l == Sse!StripCr(Rest(s))
<1> DEFINE L == Sse!StripCr(b.line)
<1> DEFINE data == b.data \o (IF b.sawData THEN <<NL>> ELSE <<>>) \o Sse!Value(L)
<1>1. /\ s \in Seq(Bytes) /\ Fields(b) /\ b.cap \in Nat \ {0}
      /\ (b.lineDirty <=> Len(Rest(s)) > b.cap)
      /\ b.line = (IF b.lineDirty THEN <<>> ELSE Rest(s))
      /\ (b.overflow <=> b.lineDirty \/ TooLong(s, b.cap))
      /\ (~b.overflow => b.data = Text(s) /\ (b.sawData <=> OpenData(s) # {}))
      /\ b.out = Sse!Payloads(s, b.cap)
  BY DEF Right
<1>2. Rest(s) \in Seq(Bytes) /\ Len(Rest(s)) \in Nat
  BY <1>1, RestIs, LenProperties
<1>3. /\ t \in Seq(Bytes) /\ Rest(t) = <<>>
      /\ Sse!HeadAt(t, n) = Rest(s)
      /\ OpenLines(t) = (IF l = <<>> THEN {} ELSE OpenLines(s) \cup {n})
      /\ OpenData(t) = (IF l = <<>> THEN {}
                        ELSE IF Sse!Field(l) = <<"data">> THEN OpenData(s) \cup {n}
                        ELSE OpenData(s))
      /\ \A j \in OpenLines(s) : Sse!HeadAt(t, j) = Sse!HeadAt(s, j)
      /\ Sse!Joined(t, OpenData(s)) = Text(s)
  BY <1>1, LineEnds
<1>4. Sse!Payloads(t, b.cap)
        = IF l = <<>> /\ OpenData(s) # {} /\ (Len(Text(s)) <= b.cap)
             /\ (\A j \in OpenLines(s) : Len(Sse!HeadAt(s, j)) <= b.cap)
          THEN Append(Sse!Payloads(s, b.cap), Text(s)) ELSE Sse!Payloads(s, b.cap)
  <2> DEFINE cap == b.cap
  <2> HIDE DEF cap
  <2>1. Sse!Payloads(t, cap)
        = IF l = <<>> /\ OpenData(s) # {} /\ (Len(Text(s)) <= cap)
             /\ (\A j \in OpenLines(s) : Len(Sse!HeadAt(s, j)) <= cap)
          THEN Append(Sse!Payloads(s, cap), Text(s)) ELSE Sse!Payloads(s, cap)
    BY <1>1, LineEnds
  <2>2. QED
    BY <2>1 DEF cap
<1>5. Ended(b, L, data, e)
  <2>1. Fields(b)
    BY <1>1
  <2>2. /\ b = Sse!BufferLine(st, h) /\ e = Sse!EndLine(st, h) /\ L = Sse!StripCr(b.line)
        /\ data = b.data \o (IF b.sawData THEN <<NL>> ELSE <<>>) \o Sse!Value(L)
    OBVIOUS
  <2> HIDE DEF b, e, L, data
  <2>3. QED
    BY <2>1, <2>2, EndIs
<1>6. /\ Text(s) \in Seq(Bytes) /\ Len(Text(s)) \in Nat
      /\ \A j \in OpenLines(s) : Len(Sse!HeadAt(s, j)) \in Nat
      /\ OpenData(s) = {} => Text(s) = <<>>
  BY <1>1, OpenTyped
<1>7. /\ l # <<>> /\ Sse!Field(l) = <<"data">> =>
           /\ Text(t) = Text(s) \o (IF OpenData(s) # {} THEN <<NL>> ELSE <<>>) \o Sse!Value(l)
           /\ Len(Text(t)) >= Len(Text(s)) /\ OpenData(t) # {}
  BY <1>1, TextGrows
<1>8. Len(Text(t)) \in Nat /\ (OpenData(t) = {} => Text(t) = <<>>)
  BY <1>3, OpenTyped
<1>9. l = <<>> => Len(Rest(s)) <= 1
  BY <1>2, StripEmpty
<1>10. Len(<<>>) = 0
  BY EmptySeq
<1>11. ~b.lineDirty => L = l
  BY <1>1
<1> HIDE DEF b, e, t, n, l, L, data
<1> USE DEF Ended
<1>12. ~(Len(Rest(t)) > e.cap) /\ e.line = Rest(t) /\ e.cap \in Nat \ {0}
  BY <1>1, <1>3, <1>5, <1>10
<1>13. (TooLong(s, b.cap) <=> ~(Len(Text(s)) <= b.cap
                                /\ \A j \in OpenLines(s) : Len(Sse!HeadAt(s, j)) <= b.cap))
  BY <1>1, <1>6 DEF TooLong
<1>14. CASE b.lineDirty
  <2>1. l # <<>> /\ Len(Rest(s)) > b.cap
    BY <1>1, <1>2, <1>9, <1>14
  <2>2. TooLong(t, b.cap)
    BY <1>3, <2>1 DEF TooLong
  <2>3. e.overflow
    BY <1>1, <1>5, <1>14
  <2>4. e.out = Sse!Payloads(t, e.cap)
    BY <1>1, <1>4, <1>5, <1>14, <2>1
  <2>5. Right(e, t)
    BY <1>3, <1>5, <1>12, <2>2, <2>3, <2>4 DEF Right
  <2>6. QED
    BY <2>5 DEF e, t
<1>15. CASE ~b.lineDirty /\ l = <<>>
  <2>1. OpenLines(t) = {} /\ OpenData(t) = {} /\ Text(t) = <<>>
    BY <1>3, <1>8, <1>15
  <2>2. ~TooLong(t, b.cap)
    BY <1>1, <1>10, <2>1 DEF TooLong
  <2>3. /\ ~e.overflow /\ e.data = <<>> /\ ~e.sawData
        /\ e.out = IF b.sawData /\ ~b.overflow THEN Append(b.out, b.data) ELSE b.out
    BY <1>5, <1>11, <1>15
  <2>4. e.out = Sse!Payloads(t, e.cap)
    BY <1>1, <1>4, <1>5, <1>13, <1>15, <2>3
  <2>5. Right(e, t)
    BY <1>3, <1>5, <1>12, <2>1, <2>2, <2>3, <2>4 DEF Right
  <2>6. QED
    BY <2>5 DEF e, t
<1>16. CASE ~b.lineDirty /\ l # <<>>
  <2>1. L = l /\ ~(Len(Rest(s)) > b.cap)
    BY <1>1, <1>11, <1>16
  <2>2. e.out = b.out /\ e.out = Sse!Payloads(t, e.cap)
    BY <1>1, <1>4, <1>5, <1>16, <2>1
  <2>3. (\E j \in OpenLines(t) : Len(Sse!HeadAt(t, j)) > b.cap)
          <=> \E j \in OpenLines(s) : Len(Sse!HeadAt(s, j)) > b.cap
    BY <1>3, <1>16, <2>1
  <2>4. CASE Sse!Field(l) = <<"data">> /\ ~b.overflow
    <3>1. data = Text(t)
      BY <1>1, <1>7, <1>16, <2>1, <2>4 DEF data
    <3>2. /\ e.sawData /\ (e.overflow <=> Len(data) > b.cap)
          /\ e.data = IF Len(data) > b.cap THEN <<>> ELSE data
      BY <1>5, <1>16, <2>1, <2>4
    <3>3. e.overflow <=> TooLong(t, b.cap)
      BY <1>1, <2>3, <2>4, <3>1, <3>2 DEF TooLong
    <3>4. ~e.overflow => e.data = Text(t) /\ (e.sawData <=> OpenData(t) # {})
      BY <1>7, <1>16, <2>4, <3>1, <3>2
    <3>5. Right(e, t)
      BY <1>3, <1>5, <1>12, <2>2, <3>3, <3>4 DEF Right
    <3>6. QED
      BY <3>5 DEF e, t
  <2>5. CASE Sse!Field(l) # <<"data">> \/ b.overflow
    <3>1. /\ e.overflow = b.overflow /\ e.data = b.data /\ e.sawData = b.sawData
      BY <1>5, <1>16, <2>1, <2>5
    <3>2. CASE Sse!Field(l) # <<"data">>
      <4>1. OpenData(t) = OpenData(s)
        BY <1>3, <1>16, <3>2
      <4>2. Text(t) = Text(s)
        BY <1>3, <4>1 DEF Text
      <4>3. TooLong(t, b.cap) <=> TooLong(s, b.cap)
        BY <2>3, <4>2 DEF TooLong
      <4>4. Right(e, t)
        BY <1>1, <1>3, <1>5, <1>12, <1>16, <2>2, <3>1, <4>1, <4>2, <4>3 DEF Right
      <4>5. QED
        BY <4>4 DEF e, t
    <3>3. CASE Sse!Field(l) = <<"data">> /\ b.overflow
      <4>1. TooLong(s, b.cap) /\ Len(Text(t)) >= Len(Text(s))
        BY <1>1, <1>7, <1>16, <3>3
      <4>2. TooLong(t, b.cap)
        BY <1>1, <1>6, <1>8, <2>3, <4>1 DEF TooLong
      <4>3. Right(e, t)
        BY <1>3, <1>5, <1>12, <2>2, <3>1, <3>3, <4>2 DEF Right
      <4>4. QED
        BY <4>3 DEF e, t
    <3>4. QED
      BY <2>5, <3>2, <3>3
  <2>6. QED
    BY <2>4, <2>5
<1>17. QED
  BY <1>14, <1>15, <1>16

-----------------------------------------------------------------------------
(* A chunk, and the specification of SseSplitter.                          *)

LEMMA ChunkFits ==
  ASSUME NEW data \in Seq(Bytes), NEW st
  PROVE  \E m : Fits(m, "ended", data, st, 0, Len(data)) /\ Sse!Passed(st, data) = m[Len(data)]
<1>1. Len(data) \in Nat /\ 0 <= Len(data)
  BY LenProperties
<1> DEFINE P(f) == f = [n \in 0 .. Len(data) |->
                          IF n = 0 THEN st
                          ELSE IF data[n] = NL THEN Sse!EndLine(f[n - 1], Sse!HeadAt(data, n))
                          ELSE f[n - 1]]
<1>2. \A f : P(f) <=> Fits(f, "ended", data, st, 0, Len(data))
  BY DEF Fits, Stepped
<1>3. \E f : P(f)
  <2>1. \E f : Fits(f, "ended", data, st, 0, Len(data))
    BY <1>1, FitsChosen
  <2> HIDE DEF P
  <2>2. QED
    BY <1>2, <2>1
<1>4. Sse!Passed(st, data) = (CHOOSE f : P(f))[Len(data)]
  BY DEF Sse!Passed
<1>5. P(CHOOSE f : P(f))
  <2> HIDE DEF P
  <2>1. QED
    BY <1>3
<1> DEFINE m == CHOOSE f : P(f)
<1>6. Fits(m, "ended", data, st, 0, Len(data)) /\ Sse!Passed(st, data) = m[Len(data)]
  <2> HIDE DEF P
  <2>1. QED
    BY <1>2, <1>4, <1>5
<1>7. QED
  BY <1>6

LEMMA ChunkPassed ==
  ASSUME NEW st, NEW s, Right(st, s), NEW data \in Seq(Bytes)
  PROVE  Right(Sse!Passed(st, data), s \o SubSeq(data, 1, Cut(data, Len(data))))
<1> DEFINE k == Len(data)
<1> DEFINE Seen(n) == s \o SubSeq(data, 1, Cut(data, n))
<1>1. k \in Nat /\ s \in Seq(Bytes)
  BY LenProperties DEF Right
<1>2. PICK m : Fits(m, "ended", data, st, 0, k) /\ Sse!Passed(st, data) = m[k]
  BY ChunkFits
<1>3. Steps(m, "ended", data, st, 0, k)
  BY <1>1, <1>2, FitsIs
<1> DEFINE R(n) == Right(m[n], Seen(n))
<1> DEFINE G == {n \in Nat : n <= k => R(n)}
<1>4. 0 \in G
  <2>1. Cut(data, 0) = 0
    <3>1. 0 \in 0 .. Len(data)
      BY <1>1
    <3>2. Cut(data, 0) \in 0 .. 0
      BY <3>1, CutIs
    <3>3. QED
      BY <3>2
  <2>2. SubSeq(data, 1, 0) = <<>>
    BY SubSeqEmpty
  <2>3. Seen(0) = s
    BY <1>1, <2>1, <2>2, ConcatEmptySeq
  <2>4. m[0] = st
    BY <1>3 DEF Steps
  <2> HIDE DEF Seen
  <2>5. QED
    BY <2>3, <2>4
<1>5. ASSUME NEW n \in Nat, n \in G PROVE n + 1 \in G
  <2>1. CASE n + 1 <= k
    <3>1. R(n) /\ 0 <= n /\ n + 1 \in 1 .. Len(data) /\ n + 1 - 1 = n
      BY <1>1, <1>5, <2>1
    <3> HIDE DEF G
    <3>2. m[n + 1] = Stepped("ended", data, n + 1, m[n])
      BY <1>3, <2>1, <3>1 DEF Steps
    <3>3. CASE data[n + 1] = NL
      <4> DEFINE h == HeadAt(data, n + 1)
      <4> DEFINE p == SubSeq(data, 1, Cut(data, n))
      <4> DEFINE q == SubSeq(data, 1, Cut(data, n + 1))
      <4>1. /\ h \in Seq(Bytes) /\ Newlines(h) = {} /\ p \in Seq(Bytes)
            /\ q = p \o Append(h, NL)
        <5> DEFINE j == n + 1
        <5>1. j \in 1 .. Len(data) /\ data[j] = NL /\ j - 1 = n /\ h = HeadAt(data, j)
          BY <3>1, <3>3
        <5> HIDE DEF h, j
        <5>2. /\ h \in Seq(Bytes) /\ Newlines(h) = {}
              /\ SubSeq(data, 1, Cut(data, j - 1)) \in Seq(Bytes)
              /\ SubSeq(data, 1, Cut(data, j))
                   = SubSeq(data, 1, Cut(data, j - 1)) \o Append(h, NL)
          BY <5>1, HeadAtIs
        <5>3. QED
          BY <5>1, <5>2 DEF j
      <4>2. m[n + 1] = Sse!EndLine(m[n], h)
        BY <3>2, <3>3, SamePieces DEF Stepped
      <4>3. Right(m[n], s \o p)
        BY <3>1
      <4>4. Seen(n + 1) = s \o q
        OBVIOUS
      <4> HIDE DEF h, p, q, Seen
      <4> DEFINE r == <<NL>>
      <4>5. r \in Seq(Bytes) /\ Append(h, NL) = h \o r
        <5>1. NL \in Bytes
          BY DEF Bytes
        <5>2. QED
          BY <4>1, <5>1, AppendIsConcat
      <4>6. Right(Sse!BufferLine(m[n], h), (s \o p) \o h)
        BY <4>1, <4>3, BufferRight
      <4>7. Right(Sse!EndLine(m[n], h), ((s \o p) \o h) \o r)
        BY <4>6, EndRight
      <4> HIDE DEF r
      <4>8. ((s \o p) \o h) \o r = s \o q
        <5>1. h \o r \in Seq(Bytes) /\ s \o p \in Seq(Bytes)
          BY <1>1, <4>1, <4>5, ConcatProperties
        <5>2. ((s \o p) \o h) \o r = (s \o p) \o (h \o r)
          BY <4>1, <4>5, <5>1, Regroup
        <5>3. (s \o p) \o (h \o r) = s \o (p \o (h \o r))
          BY <1>1, <4>1, <5>1, Regroup
        <5>4. QED
          BY <4>1, <4>5, <5>2, <5>3
      <4>9. R(n + 1)
        BY <4>2, <4>4, <4>7, <4>8
      <4>10. QED
        BY <4>9 DEF G
    <3>4. CASE data[n + 1] # NL
      <4>1. Cut(data, n + 1) = Cut(data, n)
        BY <3>1, <3>4, CutStep
      <4>2. m[n + 1] = m[n]
        BY <3>2, <3>4 DEF Stepped
      <4>3. Seen(n + 1) = Seen(n)
        BY <4>1
      <4> HIDE DEF Seen
      <4>4. R(n + 1)
        BY <3>1, <4>2, <4>3
      <4>5. QED
        BY <4>4 DEF G
    <3>5. QED
      BY <3>3, <3>4
  <2>2. CASE ~(n + 1 <= k)
    BY <2>2
  <2>3. QED
    BY <2>1, <2>2
<1>6. k \in G
  <2> HIDE DEF G, k
  <2>1. QED
    BY <1>1, <1>4, <1>5, ByInduction
<1>7. R(k)
  <2> HIDE DEF R, k
  <2>1. QED
    BY <1>1, <1>6
<1> HIDE DEF k
<1>8. QED
  BY <1>2, <1>7 DEF k

LEMMA PushRight ==
  ASSUME NEW st, NEW s, Right(st, s), NEW data \in Seq(Bytes)
  PROVE  Right(Sse!Push(st, data), s \o data)
<1> DEFINE first == SubSeq(data, 1, Cut(data, Len(data)))
<1>1. Right(Sse!Passed(st, data), s \o first) /\ s \in Seq(Bytes)
  BY ChunkPassed DEF Right
<1>2. /\ Rest(data) \in Seq(Bytes) /\ Newlines(Rest(data)) = {}
      /\ first \in Seq(Bytes) /\ first \o Rest(data) = data
  BY RestIs
<1> HIDE DEF first
<1> DEFINE rest == Rest(data)
<1>3. (s \o first) \o Rest(data) = s \o data
  <2>1. rest \in Seq(Bytes) /\ first \o rest = data
    BY <1>2
  <2> HIDE DEF rest
  <2>2. (s \o first) \o rest = s \o (first \o rest)
    BY <1>1, <1>2, <2>1, Regroup
  <2>3. (s \o first) \o rest = s \o data
    BY <2>1, <2>2
  <2>4. QED
    BY <2>3 DEF rest
<1>4. Right(Sse!BufferLine(Sse!Passed(st, data), Rest(data)), (s \o first) \o Rest(data))
  BY <1>1, <1>2, BufferRight
<1>5. QED
  BY <1>3, <1>4, SamePieces DEF Sse!Push

LEMMA SseStart == Sse!Init => Right(sse, events)
<1> SUFFICES ASSUME Sse!Init PROVE Right(sse, events)
  OBVIOUS
<1>1. PICK cap \in Caps : events = <<>> /\ sse = Sse!New(cap)
  BY DEF Sse!Init
<1> DEFINE f == FALSE
<1> DEFINE r == Rec(cap, <<>>, <<>>, f, f, f, <<>>)
<1>2. sse = r
  BY <1>1 DEF Sse!New, Rec
<1> HIDE DEF f
<1>3. /\ r.cap = cap /\ r.line = <<>> /\ r.data = <<>> /\ r.out = <<>>
      /\ r.sawData = f /\ r.overflow = f /\ r.lineDirty = f
  BY Zenon DEF Rec
<1>4. Fields(r)
  BY <1>3 DEF Fields
<1> HIDE DEF r
<1>5. cap \in Nat \ {0}
  BY SseAssumption
<1>6. <<>> \in Seq(Bytes) /\ Len(<<>>) = 0
  BY EmptySeq
<1>7. Rest(<<>>) = <<>>
  <2>1. 0 \in 0 .. Len(<<>>)
    BY <1>6
  <2>2. Cut(<<>>, 0) = 0
    <3>1. Cut(<<>>, 0) \in 0 .. 0
      BY <1>6, <2>1, CutIs
    <3>2. QED
      BY <3>1
  <2>3. SubSeq(<<>>, 1, 0) = <<>>
    BY SubSeqEmpty
  <2>4. QED
    BY <1>6, <2>2, <2>3 DEF Rest
<1>8. OpenLines(<<>>) = {} /\ OpenData(<<>>) = {} /\ Text(<<>>) = <<>>
  <2> DEFINE e == <<>>
  <2>1. e \in Seq(Bytes) /\ Len(e) = 0
    BY <1>6
  <2> HIDE DEF e
  <2>2. OpenLines(e) \subseteq 1 .. Len(e) /\ OpenData(e) \subseteq 1 .. Len(e)
    BY <2>1, OpenTyped
  <2>3. OpenLines(e) = {} /\ OpenData(e) = {}
    BY <2>1, <2>2
  <2>4. Text(e) = <<>>
    BY <2>1, <2>3, OpenTyped
  <2>5. QED
    BY <2>3, <2>4 DEF e
<1>9. Sse!Payloads(<<>>, cap) = <<>>
  <2>1. PICK m : m[0] = <<>> /\ Sse!Payloads(<<>>, cap) = m[Len(<<>>)]
    BY <1>6, PayloadsSteps
  <2>2. QED
    BY <1>6, <2>1
<1>10. ~TooLong(<<>>, cap)
  BY <1>5, <1>6, <1>8 DEF TooLong
<1>11. Right(r, <<>>)
  BY <1>3, <1>4, <1>5, <1>6, <1>7, <1>8, <1>9, <1>10 DEF Right, f
<1>12. QED
  BY <1>1, <1>2, <1>11

LEMMA SseStep == Right(sse, events) /\ [Sse!Chunk]_<<events, sse>> => Right(sse, events)'
<1> SUFFICES ASSUME Right(sse, events), [Sse!Chunk]_<<events, sse>> PROVE Right(sse, events)'
  OBVIOUS
<1>1. CASE Sse!Chunk
  <2>1. PICK n \in 1 .. ChunkMax : \E data \in [1 .. n -> Symbol] :
          events' = events \o data /\ sse' = Sse!Push(sse, data)
    BY <1>1 DEF Sse!Chunk
  <2>2. PICK data \in [1 .. n -> Symbol] : events' = events \o data /\ sse' = Sse!Push(sse, data)
    BY <2>1
  <2>3. data \in Seq(Bytes)
    <3>1. n \in Nat /\ Symbol \subseteq Bytes
      BY SseAssumption DEF Bytes
    <3>2. QED
      BY <3>1
  <2>4. Right(Sse!Push(sse, data), events \o data)
    BY <2>3, PushRight
  <2>5. QED
    BY <2>2, <2>4 DEF Right, Fields, Rec, TooLong, OpenLines, OpenData, Text
<1>2. CASE UNCHANGED <<events, sse>>
  BY <1>2 DEF Right, Fields, Rec, TooLong, OpenLines, OpenData, Text
<1>3. QED
  BY <1>1, <1>2

\* Whatever the stream, the cap and the chunks: the payloads tapped are those of the
\* stream's events in order, and an oversized event takes none of its neighbours with it
\* (SseSplitter::push, buffer_line_bytes, handle_line).
THEOREM EventsComeAsSent == Sse!Spec => []EventsAsSent
<1>1. Right(sse, events) => EventsAsSent
  BY DEF Right, EventsAsSent, Sse!EventsAsSent
<1>2. Sse!Init => Right(sse, events)
  BY SseStart
<1>3. Right(sse, events) /\ [Sse!Chunk]_<<events, sse>> => Right(sse, events)'
  BY SseStep
<1>4. Sse!Spec => Sse!Init /\ [][Sse!Chunk]_<<events, sse>>
  BY DEF Sse!Spec, Sse!vars
<1>5. QED
  BY <1>1, <1>2, <1>3, <1>4, PTL
=============================================================================
