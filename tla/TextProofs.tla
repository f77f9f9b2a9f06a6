----------------------------- MODULE TextProofs -----------------------------
(***************************************************************************)
(* Theorems about the kernels of bench/mergelines.S, and about the scalar  *)
(* transcoders and utf16_to_utf8_rvv of vector-utf/: for every text, every *)
(* register length and every way vsetvli may cut the text.                 *)
(***************************************************************************)
EXTENDS TextKernels, Division, SequenceTheorems, TLAPS

-----------------------------------------------------------------------------
(* vcompress.vm.                                                           *)

\* what Compress makes of the first k lanes of s
Packed(s, mask) ==
  CHOOSE f : f = [i \in 0 .. Len(s) |->
    IF i = 0 THEN << >>
    ELSE IF i \in mask THEN Append(f[i - 1], s[i]) ELSE f[i - 1]]

LEMMA CompressIsPacked ==
  ASSUME NEW s, NEW mask
  PROVE  M!Compress(s, mask) = Packed(s, mask)[Len(s)]
BY DEF M!Compress, Packed

LEMMA PackedExists ==
  ASSUME NEW S, NEW s \in Seq(S), NEW mask
  PROVE  Packed(s, mask) = [i \in 0 .. Len(s) |->
           IF i = 0 THEN << >>
           ELSE IF i \in mask THEN Append(Packed(s, mask)[i - 1], s[i])
                ELSE Packed(s, mask)[i - 1]]
<1>. DEFINE Fixed(f, m) == f = [i \in 0 .. m |->
              IF i = 0 THEN << >>
              ELSE IF i \in mask THEN Append(f[i - 1], s[i]) ELSE f[i - 1]]
            Good == { m \in 0 .. Len(s) : \E f : Fixed(f, m) }
<1>1. Len(s) \in Nat
  OBVIOUS
<1>2. Fixed([i \in 0 .. 0 |-> << >>], 0)
  OBVIOUS
<1>3. ASSUME NEW m \in 0 .. Len(s) - 1, NEW f, Fixed(f, m)
      PROVE  \E g : Fixed(g, m + 1)
  <2>. DEFINE e == IF m + 1 \in mask THEN Append(f[m], s[m + 1]) ELSE f[m]
              g == [i \in 0 .. m + 1 |-> IF i =< m THEN f[i] ELSE e]
  <2>1. \A i \in 0 .. m : f[i] = IF i = 0 THEN << >>
              ELSE IF i \in mask THEN Append(f[i - 1], s[i]) ELSE f[i - 1]
    BY <1>3
  <2>2. g[m + 1] = e /\ \A i \in 0 .. m : g[i] = f[i]
    BY <1>1
  <2>. HIDE DEF g
  <2>3. ASSUME NEW i \in 0 .. m + 1
        PROVE  g[i] = IF i = 0 THEN << >>
                 ELSE IF i \in mask THEN Append(g[i - 1], s[i]) ELSE g[i - 1]
    <3>1. CASE i = m + 1
      <4>1. i # 0 /\ i - 1 = m /\ m \in 0 .. m
        BY <1>1, <3>1
      <4>. QED  BY <2>2, <3>1, <4>1
    <3>2. CASE i # m + 1
      <4>1. i \in 0 .. m /\ (i # 0 => i - 1 \in 0 .. m)
        BY <1>1, <3>2
      <4>. QED  BY <2>1, <2>2, <4>1
    <3>. QED  BY <3>1, <3>2
  <2>4. g = [i \in 0 .. m + 1 |-> g[i]]
    BY DEF g
  <2>. QED  BY <2>3, <2>4
<1>. HIDE DEF Fixed
<1>4. 0 \in Good /\ \A m \in 0 .. Len(s) - 1 : m \in Good => m + 1 \in Good
  BY <1>1, <1>2, <1>3
<1>5. \A m \in Good : \E f : Fixed(f, m)
  OBVIOUS
<1>. HIDE DEF Good
<1>6. \A m \in 0 .. Len(s) : m \in Good
  BY <1>1, <1>4, Induction
<1>7. \E f : Fixed(f, Len(s))
  BY <1>1, <1>5, <1>6
<1>8. Fixed(Packed(s, mask), Len(s))
  BY <1>7 DEF Packed, Fixed
<1>. QED  BY <1>8 DEF Fixed

\* p[k] becomes p[k + 1] by the lane k + 1 of s, if it is in mask.
OneByOne(p, s, mask) ==
  /\ p[0] = << >>
  /\ \A k \in 0 .. Len(s) - 1 :
       /\ k + 1 \in mask => p[k + 1] = Append(p[k], s[k + 1])
       /\ k + 1 \notin mask => p[k + 1] = p[k]

LEMMA PackedNext ==
  ASSUME NEW S, NEW s \in Seq(S)
  PROVE  \A mask : OneByOne(Packed(s, mask), s, mask)
<1>. SUFFICES ASSUME NEW mask PROVE OneByOne(Packed(s, mask), s, mask)
  OBVIOUS
<1>. DEFINE p == Packed(s, mask)
<1>1. p = [i \in 0 .. Len(s) |->
           IF i = 0 THEN << >>
           ELSE IF i \in mask THEN Append(p[i - 1], s[i]) ELSE p[i - 1]]
  BY PackedExists
<1>2. Len(s) \in Nat
  OBVIOUS
<1>. HIDE DEF p
<1>3. \A i \in 0 .. Len(s) : p[i] = IF i = 0 THEN << >>
           ELSE IF i \in mask THEN Append(p[i - 1], s[i]) ELSE p[i - 1]
  BY <1>1
<1>4. \A k \in 0 .. Len(s) - 1 : k + 1 \in 0 .. Len(s) /\ k + 1 # 0 /\ (k + 1) - 1 = k
  BY <1>2
<1>5. 0 \in 0 .. Len(s)
  BY <1>2
<1>6. p[0] = << >>
  BY <1>3, <1>5
<1>7. ASSUME NEW k \in 0 .. Len(s) - 1
      PROVE  /\ k + 1 \in mask => p[k + 1] = Append(p[k], s[k + 1])
             /\ k + 1 \notin mask => p[k + 1] = p[k]
  BY <1>3, <1>4
<1>8. OneByOne(p, s, mask)
  BY <1>6, <1>7 DEF OneByOne
<1>. QED  BY <1>8 DEF p

\* No more than the lanes there are, and they themselves if it is as many.
LEMMA PackedType ==
  ASSUME NEW S, NEW s \in Seq(S), NEW mask
  PROVE  \A k \in 0 .. Len(s) :
           /\ Packed(s, mask)[k] \in Seq(S)
           /\ Len(Packed(s, mask)[k]) =< k
           /\ Len(Packed(s, mask)[k]) = k => Packed(s, mask)[k] = SubSeq(s, 1, k)
           /\ (\A i \in 1 .. k : i \in mask) => Len(Packed(s, mask)[k]) = k
<1>. DEFINE p == Packed(s, mask)
            P(k) == /\ p[k] \in Seq(S)
                    /\ Len(p[k]) =< k
                    /\ Len(p[k]) = k => p[k] = SubSeq(s, 1, k)
                    /\ (\A i \in 1 .. k : i \in mask) => Len(p[k]) = k
            Good == { k \in 0 .. Len(s) : P(k) }
<1>1. Len(s) \in Nat
  OBVIOUS
<1>2. /\ p[0] = << >>
      /\ \A k \in 0 .. Len(s) - 1 :
           /\ k + 1 \in mask => p[k + 1] = Append(p[k], s[k + 1])
           /\ k + 1 \notin mask => p[k + 1] = p[k]
  <2>1. OneByOne(p, s, mask)
    BY PackedNext
  <2>. QED  BY <2>1 DEF OneByOne
<1>. HIDE DEF p
<1>3. P(0)
  BY <1>2
<1>4. ASSUME NEW k \in 0 .. Len(s) - 1, P(k) PROVE P(k + 1)
  <2>1. k \in Nat /\ k + 1 \in 1 .. Len(s) /\ s[k + 1] \in S
    BY <1>1
  <2>2. PICK q \in Seq(S) : q = p[k]
    BY <1>4
  <2>3. Len(q) \in Nat /\ Len(q) =< k
    BY <1>4, <2>2
  <2>4. CASE k + 1 \in mask
    <3>1. p[k + 1] = Append(q, s[k + 1])
      BY <1>2, <2>2, <2>4
    <3>2. p[k + 1] \in Seq(S) /\ Len(p[k + 1]) = Len(q) + 1
      BY <2>1, <2>2, <3>1
    <3>3. ASSUME Len(q) = k PROVE Append(q, s[k + 1]) = SubSeq(s, 1, k + 1)
      <4>1. q = SubSeq(s, 1, k)
        BY <1>4, <2>2, <3>3
      <4>2. SubSeq(s, 1, k + 1) = Append(SubSeq(s, 1, k), s[k + 1])
        BY <1>1, <2>1
      <4>. QED  BY <4>1, <4>2
    <3>4. (\A i \in 1 .. k + 1 : i \in mask) => \A i \in 1 .. k : i \in mask
      BY <2>1
    <3>. QED  BY <1>4, <2>1, <2>2, <2>3, <3>1, <3>2, <3>3, <3>4
  <2>5. CASE k + 1 \notin mask
    <3>1. p[k + 1] = q /\ Len(q) # k + 1 /\ k + 1 \in 1 .. k + 1
      BY <1>2, <2>1, <2>2, <2>3, <2>5
    <3>. QED  BY <2>1, <2>2, <2>3, <2>5, <3>1
  <2>. QED  BY <2>4, <2>5
<1>. HIDE DEF P
<1>5. 0 \in Good /\ \A k \in 0 .. Len(s) - 1 : k \in Good => k + 1 \in Good
  BY <1>1, <1>3, <1>4
<1>6. \A k \in Good : P(k)
  OBVIOUS
<1>. HIDE DEF Good
<1>7. \A k \in 0 .. Len(s) : P(k)
  BY <1>1, <1>5, <1>6, Induction
<1>. QED  BY <1>7 DEF P, p

LEMMA AppendConcat ==
  \A s1, s2 \in Seq(M!Bytes), e1 \in M!Bytes :
    Append(s1 \o s2, e1) = s1 \o Append(s2, e1)
<1>. DEFINE S == M!Bytes
<1>. HIDE DEF S
<1>. SUFFICES ASSUME NEW s1 \in Seq(S), NEW s2 \in Seq(S), NEW e1 \in S
              PROVE  Append(s1 \o s2, e1) = s1 \o Append(s2, e1)
  BY DEF S
<1>1. s1 \o s2 \in Seq(S) /\ << e1 >> \in Seq(S)
  OBVIOUS
<1>2. Append(s1 \o s2, e1) = (s1 \o s2) \o << e1 >>
  BY <1>1, AppendIsConcat
<1>3. Append(s2, e1) = s2 \o << e1 >>
  BY AppendIsConcat
<1>. QED  BY <1>1, <1>2, <1>3, ConcatAssociative

\* The lanes of u are the lanes of s from b + 1 on.
PieceOf(u, mu, s, ms, b) ==
  /\ b \in Nat /\ b + Len(u) =< Len(s)
  /\ \A i \in 1 .. Len(u) : u[i] = s[b + i] /\ (i \in mu <=> b + i \in ms)

\* What stays of s up to a lane of the piece is what stays before the piece
\* and what stays of the piece.
KeepsPiece(u, mu, s, ms, b) ==
  \A k \in 0 .. Len(u) : Packed(s, ms)[b + k] = Packed(s, ms)[b] \o Packed(u, mu)[k]

\* The lanes of u are a piece of s: with what is before the piece, the part of
\* u that stays is the part of s that stays.
LEMMA PackedPiece ==
  ASSUME NEW s \in Seq(M!Bytes), NEW u \in Seq(M!Bytes), NEW ms, NEW mu,
         NEW b \in Nat, PieceOf(u, mu, s, ms, b)
  PROVE  KeepsPiece(u, mu, s, ms, b)
<1>1. Len(s) \in Nat /\ Len(u) \in Nat /\ b + 0 = b /\ b \in 0 .. Len(s)
  BY DEF PieceOf
<1>. DEFINE p == Packed(s, ms)
            q == Packed(u, mu)
            Good == { k \in 0 .. Len(u) : p[b + k] = p[b] \o q[k] }
<1>4. /\ \A k \in 0 .. Len(s) : p[k] \in Seq(M!Bytes)
      /\ \A k \in 0 .. Len(u) : q[k] \in Seq(M!Bytes)
  <2>1. \A m : \A k \in 0 .. Len(s) : Packed(s, m)[k] \in Seq(M!Bytes)
    BY PackedType
  <2>2. \A m : \A k \in 0 .. Len(u) : Packed(u, m)[k] \in Seq(M!Bytes)
    BY PackedType
  <2>. QED  BY <2>1, <2>2
<1>5. OneByOne(p, s, ms) /\ OneByOne(q, u, mu)
  BY PackedNext
<1>. HIDE DEF p, q
<1>6. 0 \in Good
  <2>1. PICK x \in Seq(M!Bytes) : x = p[b]
    BY <1>1, <1>4
  <2>2. x \o << >> = x
    BY ConcatEmptySeq
  <2>3. q[0] = << >> /\ p[b + 0] = x /\ 0 \in 0 .. Len(u)
    BY <1>1, <1>5, <2>1 DEF OneByOne
  <2>. QED  BY <2>1, <2>2, <2>3
<1>7. ASSUME NEW k \in 0 .. Len(u) - 1, k \in Good PROVE k + 1 \in Good
  <2>1. p[b + k] = p[b] \o q[k]
    BY <1>7
  <2>2. /\ b + k \in 0 .. Len(s) - 1 /\ (b + k) + 1 = b + (k + 1)
        /\ k + 1 \in 1 .. Len(u) /\ k \in 0 .. Len(u)
    BY <1>1 DEF PieceOf
  <2>3. u[k + 1] = s[b + (k + 1)] /\ (k + 1 \in mu <=> b + (k + 1) \in ms) /\ u[k + 1] \in M!Bytes
    BY <2>2 DEF PieceOf
  <2>4. PICK x \in Seq(M!Bytes), y \in Seq(M!Bytes), e \in M!Bytes : x = p[b] /\ y = q[k] /\ e = u[k + 1]
    BY <1>1, <1>4, <2>2, <2>3
  <2>5. CASE k + 1 \in mu
    <3>3. p[b + (k + 1)] = Append(p[b + k], e)
      BY <1>5, <2>2, <2>3, <2>4, <2>5 DEF OneByOne
    <3>4. q[k + 1] = Append(q[k], e)
      BY <1>5, <2>2, <2>4, <2>5 DEF OneByOne
    <3>1. p[b + (k + 1)] = Append(x \o y, e) /\ q[k + 1] = Append(y, e)
      BY <2>1, <2>4, <3>3, <3>4
    <3>2. Append(x \o y, e) = x \o Append(y, e)
      BY AppendConcat, Zenon
    <3>5. p[b + (k + 1)] = p[b] \o q[k + 1]
      BY <2>4, <3>1, <3>2
    <3>6. k + 1 \in 0 .. Len(u)
      BY <1>1, <2>2
    <3>. QED  BY <3>5, <3>6, Zenon
  <2>6. CASE k + 1 \notin mu
    <3>1. p[b + (k + 1)] = p[b + k] /\ q[k + 1] = q[k]
      BY <1>5, <2>2, <2>3, <2>6 DEF OneByOne
    <3>5. p[b + (k + 1)] = p[b] \o q[k + 1]
      BY <2>1, <2>2, <3>1
    <3>6. k + 1 \in 0 .. Len(u)
      BY <1>1, <2>2
    <3>. QED  BY <3>5, <3>6, Zenon
  <2>. QED  BY <2>5, <2>6
<1>8. \A k \in Good : p[b + k] = p[b] \o q[k]
  OBVIOUS
<1>. HIDE DEF Good
<1>9. \A k \in 0 .. Len(u) : k \in Good
  BY <1>1, <1>6, <1>7, Induction
<1>. QED  BY <1>8, <1>9 DEF p, q, KeepsPiece

-----------------------------------------------------------------------------
(* What mergelines_scalar keeps of a text.                                 *)

IsFirst(t, i)  == i \in 1 .. Len(t) - 1 /\ t[i] = M!Backslash /\ t[i + 1] = M!Newline
IsSecond(t, i) == i \in 2 .. Len(t) /\ t[i] = M!Newline /\ t[i - 1] = M!Backslash
Kept(t) == { i \in 1 .. Len(t) : ~IsFirst(t, i) /\ ~IsSecond(t, i) }

LEMMA PairFacts ==
  ASSUME NEW t, Len(t) \in Nat, NEW i \in Nat
  PROVE  /\ IsFirst(t, i) => ~IsSecond(t, i) /\ ~IsFirst(t, i + 1)
         /\ IsFirst(t, i) <=> IsSecond(t, i + 1)
         /\ ~IsSecond(t, 1)
BY DEF IsFirst, IsSecond, M!Backslash, M!Newline

\* the fixpoint ScalarMerge takes the first element of
ScalarFrom(t) ==
  CHOOSE f : f = [i \in 1 .. Len(t) + 1 |->
    IF i > Len(t) THEN << >>
    ELSE IF i < Len(t) /\ t[i] = M!Backslash /\ t[i + 1] = M!Newline THEN f[i + 2]
    ELSE << t[i] >> \o f[i + 1]]

LEMMA ScalarIsFrom ==
  ASSUME NEW t
  PROVE  M!ScalarMerge(t) = ScalarFrom(t)[1]
BY DEF M!ScalarMerge, ScalarFrom

LEMMA ScalarExists ==
  ASSUME NEW S, NEW t \in Seq(S)
  PROVE  \A i \in 1 .. Len(t) + 1 : ScalarFrom(t)[i] =
           IF i > Len(t) THEN << >>
           ELSE IF IsFirst(t, i) THEN ScalarFrom(t)[i + 2]
           ELSE << t[i] >> \o ScalarFrom(t)[i + 1]
<1>. DEFINE E(f, i) == IF i > Len(t) THEN << >>
              ELSE IF IsFirst(t, i) THEN f[i + 2] ELSE << t[i] >> \o f[i + 1]
            Top == Len(t) + 1
            Fixed(f, m) == f = [i \in Top - m .. Top |-> E(f, i)]
            Good == { m \in 0 .. Len(t) : \E f : Fixed(f, m) }
<1>1. Len(t) \in Nat
  OBVIOUS
<1>2. Fixed([i \in Top - 0 .. Top |-> << >>], 0)
  BY <1>1
<1>3. ASSUME NEW m \in 0 .. Len(t) - 1, NEW f, Fixed(f, m)
      PROVE  \E g : Fixed(g, m + 1)
  <2>. DEFINE a == Top - (m + 1)
              g == [i \in a .. Top |-> IF i > a THEN f[i] ELSE E(f, a)]
  <2>1. a \in 1 .. Len(t) /\ \A i \in a + 1 .. Top : i \in Top - m .. Top
    BY <1>1
  <2>2. \A i \in a + 1 .. Top : f[i] = E(f, i)
    BY <1>3, <2>1
  <2>3. g[a] = E(f, a) /\ \A i \in a + 1 .. Top : g[i] = f[i]
    BY <1>1, <2>1
  <2>4. g = [i \in a .. Top |-> g[i]]
    OBVIOUS
  <2>. HIDE DEF g
  <2>5. ASSUME NEW i \in a .. Top PROVE g[i] = E(g, i)
    <3>1. CASE i > Len(t)
      <4>1. i \in a + 1 .. Top
        BY <1>1, <2>1, <3>1
      <4>. QED  BY <2>2, <2>3, <3>1, <4>1
    <3>2. CASE ~(i > Len(t))
      <4>1. i + 1 \in a + 1 .. Top /\ (IsFirst(t, i) => i + 2 \in a + 1 .. Top)
        BY <1>1, <2>1, <3>2 DEF IsFirst
      <4>2. E(g, i) = E(f, i)
        BY <2>3, <4>1
      <4>3. i = a \/ i \in a + 1 .. Top
        BY <1>1, <2>1
      <4>. HIDE DEF E, a
      <4>. QED  BY <2>2, <2>3, <4>2, <4>3
    <3>. QED  BY <3>1, <3>2
  <2>. HIDE DEF E
  <2>6. g = [i \in a .. Top |-> E(g, i)]
    BY <2>4, <2>5
  <2>. QED  BY <2>6
<1>4. ScalarFrom(t) = CHOOSE f : Fixed(f, Len(t))
  <2>1. Top - Len(t) = 1
    BY <1>1
  <2>2. ASSUME NEW f
        PROVE  [i \in 1 .. Len(t) + 1 |->
                  IF i > Len(t) THEN << >>
                  ELSE IF i < Len(t) /\ t[i] = M!Backslash /\ t[i + 1] = M!Newline
                    THEN f[i + 2] ELSE << t[i] >> \o f[i + 1]]
               = [i \in Top - Len(t) .. Top |-> E(f, i)]
    <3>1. ASSUME NEW i \in 1 .. Len(t) + 1
          PROVE  IsFirst(t, i) <=> (i < Len(t) /\ t[i] = M!Backslash /\ t[i + 1] = M!Newline)
      BY <1>1 DEF IsFirst
    <3>. QED  BY <2>1, <3>1
  <2>. HIDE DEF E
  <2>. QED  BY <2>2 DEF ScalarFrom
<1>. HIDE DEF Fixed
<1>5. 0 \in Good /\ \A m \in 0 .. Len(t) - 1 : m \in Good => m + 1 \in Good
  BY <1>1, <1>2, <1>3
<1>6. \A m \in Good : \E f : Fixed(f, m)
  OBVIOUS
<1>. HIDE DEF Good
<1>7. \A m \in 0 .. Len(t) : m \in Good
  BY <1>1, <1>5, Induction
<1>8. \E f : Fixed(f, Len(t))
  BY <1>1, <1>6, <1>7
<1>9. Fixed(ScalarFrom(t), Len(t))
  BY <1>4, <1>8
<1>10. Top - Len(t) = 1
  BY <1>1
<1>. HIDE DEF E
<1>11. \A i \in 1 .. Len(t) + 1 : ScalarFrom(t)[i] = E(ScalarFrom(t), i)
  BY <1>9, <1>10 DEF Fixed
<1>. QED  BY <1>11 DEF E

\* Pairs leave two bytes out at a time: an odd number is out as soon as the
\* backslash of a pair is, and its newline is still to come.
LEMMA KeptParity ==
  ASSUME NEW t \in Seq(M!Bytes)
  PROVE  \A k \in 0 .. Len(t) : \E h \in Nat :
           k = Len(Packed(t, Kept(t))[k]) + 2 * h + (IF IsFirst(t, k) THEN 1 ELSE 0)
<1>. DEFINE p == Packed(t, Kept(t))
            A(k) == \E h \in Nat : k = Len(p[k]) + 2 * h + (IF IsFirst(t, k) THEN 1 ELSE 0)
            Good == { k \in 0 .. Len(t) : A(k) }
<1>1. Len(t) \in Nat
  OBVIOUS
<1>2. OneByOne(p, t, Kept(t))
  BY PackedNext
<1>3. \A k \in 0 .. Len(t) : p[k] \in Seq(M!Bytes)
  <2>1. \A m : \A k \in 0 .. Len(t) : Packed(t, m)[k] \in Seq(M!Bytes)
    BY PackedType
  <2>. QED  BY <2>1
<1>. HIDE DEF p
<1>4. A(0)
  <2>1. Len(p[0]) = 0 /\ ~IsFirst(t, 0)
    BY <1>2 DEF OneByOne, IsFirst
  <2>. QED  BY <2>1
<1>5. ASSUME NEW k \in 0 .. Len(t) - 1, A(k) PROVE A(k + 1)
  <2>1. k \in 0 .. Len(t) /\ k + 1 \in 1 .. Len(t) /\ k \in Nat
    BY <1>1
  <2>2. PICK h \in Nat : k = Len(p[k]) + 2 * h + (IF IsFirst(t, k) THEN 1 ELSE 0)
    BY <1>5
  <2>3. /\ IsFirst(t, k) => ~IsSecond(t, k) /\ ~IsFirst(t, k + 1)
        /\ IsFirst(t, k) <=> IsSecond(t, k + 1)
    BY <1>1, <2>1, PairFacts
  <2>4. k + 1 \in Kept(t) <=> ~IsFirst(t, k + 1) /\ ~IsSecond(t, k + 1)
    BY <2>1 DEF Kept
  <2>5. /\ k + 1 \in Kept(t) => p[k + 1] = Append(p[k], t[k + 1])
        /\ k + 1 \notin Kept(t) => p[k + 1] = p[k]
    BY <1>2 DEF OneByOne
  <2>6. PICK a \in Nat : a = Len(p[k])
    BY <1>3, <2>1
  <2>7. t[k + 1] \in M!Bytes
    BY <2>1
  <2>8. Len(Append(p[k], t[k + 1])) = a + 1
    BY <1>3, <2>1, <2>6, <2>7
  <2>12. k = a + 2 * h + (IF IsFirst(t, k) THEN 1 ELSE 0)
    BY <2>2, <2>6, Zenon
  <2>9. CASE IsFirst(t, k)
    <3>1. Len(p[k + 1]) = a /\ ~IsFirst(t, k + 1)
      BY <2>3, <2>4, <2>5, <2>6, <2>9
    <3>2. k = a + 2 * h + 1
      BY <2>2, <2>6, <2>9
    <3>3. k + 1 = a + 2 * (h + 1) + 0 /\ h + 1 \in Nat
      BY <3>2
    <3>. QED  BY <3>1, <3>3
  <2>10. CASE ~IsFirst(t, k) /\ IsFirst(t, k + 1)
    <3>1. Len(p[k + 1]) = a
      BY <2>4, <2>5, <2>6, <2>10
    <3>2. k = a + 2 * h
      BY <2>12, <2>10
    <3>3. k + 1 = a + 2 * h + 1
      BY <3>2
    <3>. QED  BY <2>10, <3>1, <3>3
  <2>11. CASE ~IsFirst(t, k) /\ ~IsFirst(t, k + 1)
    <3>1. Len(p[k + 1]) = a + 1
      BY <2>3, <2>4, <2>5, <2>8, <2>11
    <3>2. k = a + 2 * h
      BY <2>12, <2>11
    <3>3. k + 1 = (a + 1) + 2 * h + 0
      BY <3>2
    <3>. QED  BY <2>11, <3>1, <3>3
  <2>. QED  BY <2>9, <2>10, <2>11
<1>. HIDE DEF A
<1>6. 0 \in Good /\ \A k \in 0 .. Len(t) - 1 : k \in Good => k + 1 \in Good
  BY <1>1, <1>4, <1>5
<1>7. \A k \in Good : A(k)
  OBVIOUS
<1>. HIDE DEF Good
<1>8. \A k \in 0 .. Len(t) : A(k)
  BY <1>1, <1>6, <1>7, Induction
<1>. QED  BY <1>8 DEF A, p

LEMMA ConsConcat ==
  \A s1, s2 \in Seq(M!Bytes), e1 \in M!Bytes :
    s1 \o (<< e1 >> \o s2) = Append(s1, e1) \o s2
<1>. DEFINE S == M!Bytes
<1>. HIDE DEF S
<1>. SUFFICES ASSUME NEW s1 \in Seq(S), NEW s2 \in Seq(S), NEW e1 \in S
              PROVE  s1 \o (<< e1 >> \o s2) = Append(s1, e1) \o s2
  BY DEF S
<1>1. << e1 >> \in Seq(S)
  OBVIOUS
<1>2. Append(s1, e1) = s1 \o << e1 >>
  BY AppendIsConcat
<1>. QED  BY <1>1, <1>2, ConcatAssociative

\* What the scalar function still makes of a text from a byte on that is not
\* the newline of a pair completes what is kept of the bytes before it.
LEMMA ScalarMergeIsKept ==
  ASSUME NEW t \in Seq(M!Bytes)
  PROVE  M!ScalarMerge(t) = Packed(t, Kept(t))[Len(t)]
<1>. DEFINE p == Packed(t, Kept(t))
            f == ScalarFrom(t)
            Top == Len(t) + 1
            A(i) == f[i] \in Seq(M!Bytes)
                      /\ (~IsSecond(t, i) => p[i - 1] \o f[i] = p[Len(t)])
            Good == { m \in 0 .. Len(t) : \A i \in Top - m .. Top : A(i) }
<1>1. Len(t) \in Nat /\ Top \in Nat
  OBVIOUS
<1>2. OneByOne(p, t, Kept(t))
  BY PackedNext
<1>3. \A k \in 0 .. Len(t) : p[k] \in Seq(M!Bytes)
  <2>1. \A m : \A k \in 0 .. Len(t) : Packed(t, m)[k] \in Seq(M!Bytes)
    BY PackedType
  <2>. QED  BY <2>1
<1>4. \A i \in 1 .. Len(t) + 1 : f[i] =
           IF i > Len(t) THEN << >>
           ELSE IF IsFirst(t, i) THEN f[i + 2] ELSE << t[i] >> \o f[i + 1]
  BY ScalarExists
<1>. HIDE DEF p, f
<1>5. A(Top)
  <2>4. Top \in 1 .. Len(t) + 1 /\ Top > Len(t)
    BY <1>1
  <2>1. f[Top] = << >> /\ Top - 1 = Len(t) /\ Len(t) \in 0 .. Len(t)
    <3>1. f[Top] = << >>
      BY <1>4, <2>4, Zenon
    <3>. QED  BY <1>1, <3>1
  <2>2. PICK x \in Seq(M!Bytes) : x = p[Len(t)]
    BY <1>3, <2>1
  <2>3. x \o << >> = x /\ << >> \in Seq(M!Bytes)
    OBVIOUS
  <2>. QED  BY <2>1, <2>2, <2>3
<1>6. ASSUME NEW m \in 0 .. Len(t) - 1, m \in Good
      PROVE  A(Top - (m + 1))
  <2>1. PICK i \in 1 .. Len(t) : i = Top - (m + 1)
    BY <1>1
  <2>2. /\ i \in 1 .. Len(t) + 1 /\ i \in Nat /\ i - 1 \in 0 .. Len(t) - 1
        /\ (i - 1) + 1 = i /\ (i + 1) - 1 = i /\ (i + 2) - 1 = i + 1
        /\ i - 1 \in 0 .. Len(t)
    BY <1>1, <2>1
  <2>3. \A j \in i + 1 .. Top : A(j)
    <3>1. i + 1 = Top - m
      BY <1>1, <2>1
    <3>2. \A j \in Top - m .. Top : A(j)
      BY <1>6
    <3>. QED  BY <3>1, <3>2
  <2>4. /\ i \in Kept(t) => p[i] = Append(p[i - 1], t[i])
        /\ i \notin Kept(t) => p[i] = p[i - 1]
    BY <1>2, <2>2 DEF OneByOne
  <2>5. CASE IsFirst(t, i)
    <3>1. i + 1 \in 1 .. Len(t) /\ i + 2 \in i + 1 .. Top /\ i \in 0 .. Len(t) - 1
      BY <1>1, <2>2, <2>5 DEF IsFirst
    <3>6. ~(i > Len(t))
      BY <1>1, <2>1
    <3>2. f[i] = f[i + 2] /\ A(i + 2)
      <4>1. f[i] = f[i + 2]
        BY <1>4, <2>2, <2>5, <3>6, Zenon
      <4>. QED  BY <2>3, <3>1, <4>1
    <3>3. i \notin Kept(t) /\ i + 1 \notin Kept(t) /\ ~IsSecond(t, i + 2)
      BY <1>1, <2>2, <2>5, <3>1 DEF IsFirst, IsSecond, Kept, M!Backslash, M!Newline
    <3>4. p[i + 1] = p[i]
      BY <1>2, <3>1, <3>3 DEF OneByOne
    <3>5. p[i + 1] \o f[i + 2] = p[Len(t)]
      BY <2>2, <3>2, <3>3
    <3>. QED  BY <2>1, <2>4, <3>2, <3>3, <3>4, <3>5
  <2>6. CASE ~IsFirst(t, i)
    <3>1. i + 1 \in i + 1 .. Top /\ t[i] \in M!Bytes
      BY <1>1, <2>1
    <3>6. ~(i > Len(t))
      BY <1>1, <2>1
    <3>2. f[i] = << t[i] >> \o f[i + 1] /\ A(i + 1)
      <4>1. f[i] = << t[i] >> \o f[i + 1]
        BY <1>4, <2>2, <2>6, <3>6, Zenon
      <4>. QED  BY <2>3, <3>1, <4>1
    <3>3. PICK x \in Seq(M!Bytes), y \in Seq(M!Bytes), e \in M!Bytes :
            x = p[i - 1] /\ y = f[i + 1] /\ e = t[i]
      BY <1>3, <2>2, <3>1, <3>2
    <3>4. f[i] \in Seq(M!Bytes)
      BY <3>2, <3>3
    <3>5. ASSUME ~IsSecond(t, i) PROVE p[i - 1] \o f[i] = p[Len(t)]
      <4>1. i \in Kept(t) /\ ~IsSecond(t, i + 1)
        BY <1>1, <2>1, <2>2, <2>6, <3>5, PairFacts DEF Kept
      <4>2. p[i] = Append(x, e)
        BY <2>4, <3>3, <4>1
      <4>3. p[i] \o y = p[Len(t)]
        BY <2>2, <3>2, <3>3, <4>1
      <4>4. x \o (<< e >> \o y) = Append(x, e) \o y
        BY ConsConcat, Zenon
      <4>. QED  BY <3>2, <3>3, <4>2, <4>3, <4>4
    <3>. QED  BY <2>1, <3>4, <3>5
  <2>. QED  BY <2>5, <2>6
<1>7. ASSUME NEW m \in 0 .. Len(t) - 1, m \in Good PROVE m + 1 \in Good
  <2>1. A(Top - (m + 1)) /\ \A i \in Top - m .. Top : A(i)
    BY <1>6, <1>7
  <2>. HIDE DEF A
  <2>2. \A i \in Top - (m + 1) .. Top : i = Top - (m + 1) \/ i \in Top - m .. Top
    BY <1>1
  <2>. QED  BY <1>1, <2>1, <2>2
<1>8. 0 \in Good
  <2>. HIDE DEF A
  <2>. QED  BY <1>1, <1>5
<1>9. \A m \in Good : \A i \in Top - m .. Top : A(i)
  OBVIOUS
<1>10. A(1)
  <2>. HIDE DEF Good, A
  <2>1. \A m \in 0 .. Len(t) : m \in Good
    BY <1>1, <1>7, <1>8, Induction
  <2>2. Len(t) \in 0 .. Len(t) /\ 1 \in Top - Len(t) .. Top
    BY <1>1
  <2>. QED  BY <1>9, <2>1, <2>2
<1>11. ~IsSecond(t, 1) /\ p[0] = << >> /\ 1 - 1 = 0
  BY <1>2 DEF IsSecond, OneByOne
<1>12. << >> \o f[1] = f[1]
  BY <1>10
<1>13. f[1] = p[Len(t)]
  BY <1>10, <1>11, <1>12
<1>14. M!ScalarMerge(t) = f[1]
  BY ScalarIsFrom DEF f
<1>. QED  BY <1>13, <1>14 DEF p

-----------------------------------------------------------------------------
(* The invariant of the kernels.                                           *)

\* the bytes of the text that the output accounts for; mshift holds one back
Done == IF kernel \in M!MshiftVariants THEN src - 1 ELSE src

\* what is kept of them is what was stored
FrontMerged == SubSeq(out, 1, dest) = Packed(input, Kept(input))[Done]

\* what is not accounted for is still in memory
RestThere ==
  /\ \A i \in 1 .. Len(input) : i > Done => out[i] = input[i]
  /\ last = IF src = 0 THEN M!Nothing ELSE input[src]

VslideInv ==
  kernel \in M!VslideVariants => IF pc = "loop" THEN n >= 2 ELSE n =< 1

\* a chunk does not start with the newline of a pair
MshiftInv ==
  kernel \in M!MshiftVariants =>
    /\ src >= 1
    /\ IF pc = "loop" THEN n >= 1 /\ ~IsSecond(input, src)
       ELSE n = 0 /\ src >= 2 /\ out[src - 1] = input[src - 1]

AtEntry ==
  out = input /\ src = 0 /\ dest = 0 /\ last = M!Nothing

MergeInv ==
  kernel \in MergeKernels =>
    /\ M!TypeOK
    /\ pc = "entry" => AtEntry
    /\ pc \in { "loop", "last" } => FrontMerged /\ RestThere /\ VslideInv /\ MshiftInv
    /\ pc = "done" => SubSeq(out, 1, dest) = M!ScalarMerge(input)

\* A step of mergelines, with what the step of the whole leaves alone.
LEMMA StoredInOrder ==
  ASSUME out \in Seq(M!Bytes), dest \in Nat, NEW s \in Seq(M!Bytes),
         dest + Len(s) =< Len(out)
  PROVE  /\ M!Stored(s) \in Seq(M!Bytes) /\ Len(M!Stored(s)) = Len(out)
         /\ SubSeq(M!Stored(s), 1, dest + Len(s)) = SubSeq(out, 1, dest) \o s
         /\ \A i \in 1 .. Len(out) : i > dest + Len(s) => M!Stored(s)[i] = out[i]
         /\ \A i \in 1 .. Len(s) : M!Stored(s)[dest + i] = s[i]
<1>10. Len(s) \in Nat /\ Len(out) \in Nat
  OBVIOUS
<1>1. PICK d \in Nat, l \in Nat, L \in Nat : d = dest /\ l = Len(s) /\ L = Len(out)
  BY <1>10
<1>2. PICK o \in Seq(M!Bytes) : o = out
  OBVIOUS
<1>. DEFINE w == [i \in 1 .. L |-> IF i - 1 \in d .. d + l - 1 THEN s[i - d] ELSE o[i]]
<1>3. M!Stored(s) = w
  BY <1>1, <1>2 DEF M!Stored
<1>4. d + l =< L /\ L = Len(o) /\ l = Len(s)
  BY <1>1, <1>2
<1>5. \A i \in 1 .. L : w[i] \in M!Bytes
  BY <1>4
<1>6. w \in Seq(M!Bytes) /\ Len(w) = L
  <2>1. w = [i \in 1 .. L |-> w[i]]
    OBVIOUS
  <2>. HIDE DEF w
  <2>2. w \in [1 .. L -> M!Bytes]
    BY <1>5, <2>1
  <2>3. L \in Nat
    BY <1>1
  <2>. QED  BY <2>2, <2>3
<1>7. /\ \A i \in 1 .. d : w[i] = o[i]
      /\ \A i \in 1 .. l : w[d + i] = s[i]
      /\ \A i \in 1 .. L : i > d + l => w[i] = o[i]
  BY <1>4
<1>. HIDE DEF w
<1>8. SubSeq(w, 1, d + l) = SubSeq(o, 1, d) \o s
  <2>1. SubSeq(w, 1, d + l) = [i \in 1 .. d + l |-> w[i]]
    BY <1>4, <1>6
  <2>2. SubSeq(o, 1, d) = [i \in 1 .. d |-> o[i]]
    BY <1>4
  <2>3. SubSeq(o, 1, d) \in Seq(M!Bytes) /\ Len(SubSeq(o, 1, d)) = d
    BY <1>4
  <2>4. SubSeq(o, 1, d) \o s =
          [i \in 1 .. d + l |-> IF i =< d THEN o[i] ELSE s[i - d]]
    BY <1>4, <2>2, <2>3
  <2>5. ASSUME NEW i \in 1 .. d + l
        PROVE  w[i] = IF i =< d THEN o[i] ELSE s[i - d]
    <3>1. CASE i =< d
      BY <1>7, <3>1
    <3>2. CASE i > d
      <4>1. i - d \in 1 .. l /\ d + (i - d) = i
        BY <3>2
      <4>. QED  BY <1>7, <3>2, <4>1
    <3>. QED  BY <3>1, <3>2
  <2>. QED  BY <2>1, <2>4, <2>5
<1>. QED  BY <1>1, <1>2, <1>3, <1>6, <1>7, <1>8

LEMMA LegalVlFacts ==
  ASSUME NEW avl \in Nat \ {0}, NEW v \in M!LegalVl(avl, VLMAX)
  PROVE  v \in 1 .. avl
BY VlmaxAssumption DEF M!LegalVl

LEMMA KernelFacts ==
  /\ MergeKernels = M!VslideVariants \cup M!MshiftVariants
  /\ \A k \in M!VslideVariants : k \notin M!MshiftVariants /\ k \notin T!Kernels
  /\ \A k \in M!MshiftVariants : k \notin M!VslideVariants /\ k \notin T!Kernels
BY DEF MergeKernels, M!VslideVariants, M!MshiftVariants, T!Kernels, T!ScalarKernels,
       T!Rvv8Kernels, T!Rvv16Kernels

LEMMA ByteFacts ==
  /\ M!Backslash \in M!Bytes /\ M!Newline \in M!Bytes /\ M!Nothing \notin M!Bytes
  /\ M!Backslash # M!Newline
BY DEF M!Backslash, M!Newline, M!Bytes, M!Nothing

-----------------------------------------------------------------------------
(* A chunk of vslide.                                                      *)

LEMMA VslideKeeps ==
  ASSUME kernel \in M!VslideVariants, pc = "loop", MergeInv,
         NEW vl \in 1 .. n
  PROVE  /\ M!KeptVslide(vl) \in Seq(M!Bytes)
         /\ Len(M!KeptVslide(vl)) =< vl
         /\ Packed(input, Kept(input))[src + vl] =
              Packed(input, Kept(input))[src] \o M!KeptVslide(vl)
         /\ Len(M!KeptVslide(vl)) = vl => M!KeptVslide(vl)[vl] = input[src + vl]
<1>1. /\ input \in Seq(M!Bytes) /\ out \in Seq(M!Bytes) /\ Len(out) = Len(input)
      /\ src \in 0 .. Len(input) /\ n = Len(input) - src /\ RestThere
      /\ kernel \notin M!MshiftVariants
  BY KernelFacts DEF MergeInv, M!TypeOK, M!Length
<1>2. PICK t \in Seq(M!Bytes), b \in Nat : t = input /\ b = src
  BY <1>1
<1>3. Len(t) \in Nat /\ b + vl =< Len(t) /\ vl \in Nat /\ vl >= 1
  BY <1>1, <1>2
<1>4. \A i \in 1 .. Len(t) : i > b => out[i] = t[i]
  BY <1>1, <1>2 DEF RestThere, Done
<1>. DEFINE u == M!V(vl)
            mask == M!NotSecond(vl) \cap M!NotFirst(vl)
<1>5. u = [i \in 1 .. vl |-> t[b + i]]
  <2>1. \A i \in 1 .. vl : M!Byte(out, src + i - 1) = t[b + i]
    <3>1. ASSUME NEW i \in 1 .. vl PROVE out[(src + i - 1) + 1] = t[b + i]
      <4>1. b + i \in 1 .. Len(t) /\ b + i > b /\ (b + i - 1) + 1 = b + i
        BY <1>3
      <4>. QED  BY <1>2, <1>4, <4>1
    <3>. QED  BY <3>1 DEF M!Byte
  <2>. QED  BY <2>1 DEF M!V
<1>6. \A i \in 1 .. vl : t[b + i] \in M!Bytes
  BY <1>3
<1>7. u \in Seq(M!Bytes) /\ Len(u) = vl /\ \A i \in 1 .. vl : u[i] = t[b + i]
  BY <1>3, <1>5, <1>6
<1>8. ASSUME NEW i \in 1 .. vl
      PROVE  i \in M!NotSecond(vl) <=> ~IsSecond(t, b + i)
  <2>1. M!U(vl)[i] = IF i = 1 THEN last ELSE u[i - 1]
    BY DEF M!U
  <2>2. b + i \in 1 .. Len(t) /\ b + i - 1 \in 0 .. Len(t)
    BY <1>3
  <2>3. CASE i = 1 /\ b = 0
    <3>1. M!U(vl)[i] = M!Nothing /\ ~IsSecond(t, b + i)
      BY <1>1, <1>2, <2>1, <2>3 DEF RestThere, IsSecond
    <3>. QED  BY <3>1, ByteFacts DEF M!NotSecond
  <2>4. CASE i = 1 /\ b # 0
    <3>1. M!U(vl)[i] = t[b + i - 1] /\ b + i \in 2 .. Len(t)
      BY <1>1, <1>2, <1>3, <2>1, <2>2, <2>4 DEF RestThere
    <3>. QED  BY <1>7, <3>1 DEF M!NotSecond, IsSecond
  <2>5. CASE i # 1
    <3>1. i - 1 \in 1 .. vl /\ b + (i - 1) = b + i - 1 /\ b + i \in 2 .. Len(t)
      BY <1>3, <2>2, <2>5
    <3>2. M!U(vl)[i] = t[b + i - 1]
      BY <1>7, <2>1, <2>5, <3>1
    <3>. QED  BY <1>7, <3>1, <3>2 DEF M!NotSecond, IsSecond
  <2>. QED  BY <2>3, <2>4, <2>5
<1>9. ASSUME NEW i \in 1 .. vl
      PROVE  i \in M!NotFirst(vl) <=> ~IsFirst(t, b + i)
  <2>1. M!D(vl)[i] = IF i < vl THEN u[i + 1]
                     ELSE IF vl < n THEN M!Byte(out, src + vl) ELSE M!Nothing
    BY DEF M!D
  <2>2. n = Len(t) - b
    BY <1>1, <1>2
  <2>3. CASE i < vl
    <3>1. i + 1 \in 1 .. vl /\ b + (i + 1) = b + i + 1 /\ b + i \in 1 .. Len(t) - 1
      BY <1>3, <2>3
    <3>2. M!D(vl)[i] = t[b + i + 1]
      BY <1>7, <2>1, <2>3, <3>1
    <3>. QED  BY <1>7, <3>1, <3>2 DEF M!NotFirst, IsFirst
  <2>4. CASE i = vl /\ vl < n
    <3>1. b + i \in 1 .. Len(t) - 1 /\ b + i + 1 \in 1 .. Len(t) /\ b + i + 1 > b
      BY <1>3, <2>2, <2>4
    <3>2. M!D(vl)[i] = t[b + i + 1]
      BY <1>2, <1>4, <2>1, <2>4, <3>1 DEF M!Byte
    <3>. QED  BY <1>7, <3>1, <3>2 DEF M!NotFirst, IsFirst
  <2>5. CASE i = vl /\ ~(vl < n)
    <3>1. M!D(vl)[i] = M!Nothing /\ ~(b + i \in 1 .. Len(t) - 1)
      BY <1>3, <2>1, <2>2, <2>5
    <3>. QED  BY <3>1, ByteFacts DEF M!NotFirst, IsFirst
  <2>. QED  BY <1>3, <2>3, <2>4, <2>5
<1>10. ASSUME NEW i \in 1 .. vl PROVE i \in mask <=> b + i \in Kept(t)
  BY <1>3, <1>8, <1>9 DEF Kept
<1>11. PieceOf(u, mask, t, Kept(t), b)
  BY <1>3, <1>7, <1>10 DEF PieceOf
<1>12. ASSUME M!SkipVslide(vl) PROVE \A i \in 1 .. vl : i \in mask
  <2>1. M!NotSecond(vl) = 1 .. vl /\ M!D(vl)[vl] # M!Newline
    BY <1>12 DEF M!SkipVslide
  <2>2. ASSUME NEW i \in 1 .. vl PROVE i \in M!NotFirst(vl)
    <3>1. CASE i = vl
      BY <2>1, <3>1 DEF M!NotFirst
    <3>2. CASE i # vl
      <4>1. i + 1 \in 1 .. vl /\ b + i + 1 = b + (i + 1) /\ b + i \in Nat
        BY <1>3, <3>2
      <4>2. ~IsSecond(t, b + i + 1)
        BY <1>8, <2>1, <4>1
      <4>. QED  BY <1>3, <1>9, <4>1, <4>2, PairFacts
    <3>. QED  BY <3>1, <3>2
  <2>. QED  BY <2>1, <2>2
<1>. DEFINE k == Packed(u, mask)[vl]
<1>13. /\ k \in Seq(M!Bytes) /\ Len(k) =< vl
       /\ Len(k) = vl => k = SubSeq(u, 1, vl)
       /\ (\A i \in 1 .. vl : i \in mask) => Len(k) = vl
  <2>1. \A m : \A j \in 0 .. Len(u) :
           /\ Packed(u, m)[j] \in Seq(M!Bytes)
           /\ Len(Packed(u, m)[j]) =< j
           /\ Len(Packed(u, m)[j]) = j => Packed(u, m)[j] = SubSeq(u, 1, j)
           /\ (\A i \in 1 .. j : i \in m) => Len(Packed(u, m)[j]) = j
    <3>. HIDE DEF u
    <3>. QED  BY <1>7, PackedType
  <2>2. vl \in 0 .. Len(u)
    BY <1>3, <1>7
  <2>. HIDE DEF u, mask
  <2>. QED  BY <2>1, <2>2
<1>14. SubSeq(u, 1, vl) = u
  <2>. HIDE DEF u
  <2>. QED  BY <1>3, <1>7
<1>15. M!KeptVslide(vl) = k
  <2>1. M!Compress(u, mask) = k
    BY <1>7, CompressIsPacked
  <2>. HIDE DEF k
  <2>. QED  BY <1>12, <1>13, <1>14, <2>1 DEF M!KeptVslide
<1>16. Packed(t, Kept(t))[b + vl] = Packed(t, Kept(t))[b] \o k
  <2>. HIDE DEF u, mask
  <2>1. KeepsPiece(u, mask, t, Kept(t), b)
    BY <1>7, <1>11, PackedPiece
  <2>2. vl \in 0 .. Len(u)
    BY <1>3, <1>7
  <2>. QED  BY <2>1, <2>2, Zenon DEF KeepsPiece
<1>17. Len(k) = vl => k[vl] = t[b + vl]
  <2>. HIDE DEF u, k
  <2>. QED  BY <1>3, <1>7, <1>13, <1>14
<1>. HIDE DEF k
<1>. QED  BY <1>2, <1>13, <1>15, <1>16, <1>17

-----------------------------------------------------------------------------
(* A chunk of mshift.                                                      *)

LEMMA MshiftKeeps ==
  ASSUME kernel \in M!MshiftVariants, pc = "loop", MergeInv,
         NEW vl \in 1 .. n
  PROVE  /\ M!KeptMshift(vl) \in Seq(M!Bytes)
         /\ Len(M!KeptMshift(vl)) =< vl
         /\ Packed(input, Kept(input))[Done + vl] =
              Packed(input, Kept(input))[Done] \o M!KeptMshift(vl)
         /\ Len(M!KeptMshift(vl)) = vl => M!KeptMshift(vl)[vl] = input[Done + vl]
         /\ (vl - Len(M!KeptMshift(vl))) % 2 = IF IsFirst(input, Done + vl) THEN 1 ELSE 0
<1>1. /\ input \in Seq(M!Bytes) /\ out \in Seq(M!Bytes) /\ Len(out) = Len(input)
      /\ src \in 1 .. Len(input) /\ n = Len(input) - src /\ RestThere
      /\ ~IsSecond(input, src)
      /\ Done = src - 1
  BY KernelFacts DEF MergeInv, M!TypeOK, M!Length, MshiftInv, Done
<1>2. PICK t \in Seq(M!Bytes), b \in Nat : t = input /\ b = src - 1
  BY <1>1
<1>3. Len(t) \in Nat /\ b + 1 + vl =< Len(t) /\ vl \in Nat /\ vl >= 1 /\ src = b + 1
  BY <1>1, <1>2
<1>4. \A i \in 1 .. Len(t) : i > b => out[i] = t[i]
  BY <1>1, <1>2 DEF RestThere
<1>. DEFINE u == M!U(vl)
            mask == M!NotSecond(vl) \cap M!ShiftedUp(M!NotSecond(vl), vl)
<1>5. /\ M!V(vl) = [i \in 1 .. vl |-> t[b + 1 + i]]
      /\ u = [i \in 1 .. vl |-> t[b + i]]
  <2>1. \A i \in 1 .. vl : M!Byte(out, src + i - 1) = t[b + 1 + i]
    <3>1. ASSUME NEW i \in 1 .. vl PROVE out[(src + i - 1) + 1] = t[b + 1 + i]
      <4>1. /\ b + 1 + i \in 1 .. Len(t) /\ b + 1 + i > b
            /\ (src + i - 1) + 1 = b + 1 + i
        BY <1>3
      <4>. QED  BY <1>4, <4>1
    <3>. QED  BY <3>1 DEF M!Byte
  <2>2. M!V(vl) = [i \in 1 .. vl |-> t[b + 1 + i]]
    BY <2>1 DEF M!V
  <2>3. last = t[b + 1]
    BY <1>1, <1>2, <1>3 DEF RestThere
  <2>4. ASSUME NEW i \in 1 .. vl, i # 1 PROVE M!V(vl)[i - 1] = t[b + i]
    <3>1. i - 1 \in 1 .. vl /\ b + 1 + (i - 1) = b + i
      BY <1>3, <2>4
    <3>. QED  BY <2>2, <3>1
  <2>5. u = [i \in 1 .. vl |-> t[b + i]]
    BY <2>3, <2>4 DEF M!U
  <2>. QED  BY <2>2, <2>5
<1>6. \A i \in 1 .. vl : t[b + i] \in M!Bytes
  BY <1>3
<1>7. u \in Seq(M!Bytes) /\ Len(u) = vl /\ \A i \in 1 .. vl : u[i] = t[b + i]
  BY <1>3, <1>5, <1>6
<1>8. ASSUME NEW i \in 1 .. vl
      PROVE  i \in M!NotSecond(vl) <=> ~IsFirst(t, b + i)
  <2>1. M!V(vl)[i] = t[b + i + 1]
    <3>1. b + 1 + i = b + i + 1
      BY <1>3
    <3>. QED  BY <1>5, <3>1
  <2>2. b + i \in 1 .. Len(t) - 1
    BY <1>3
  <2>. QED  BY <1>7, <2>1, <2>2 DEF M!NotSecond, IsFirst
<1>9. ASSUME NEW i \in 1 .. vl
      PROVE  i \in M!ShiftedUp(M!NotSecond(vl), vl) <=> ~IsSecond(t, b + i)
  <2>1. CASE i = 1
    BY <1>1, <1>2, <1>3, <2>1 DEF M!ShiftedUp
  <2>2. CASE i # 1
    <3>1. i - 1 \in 1 .. vl /\ b + (i - 1) \in Nat /\ (b + (i - 1)) + 1 = b + i
      BY <1>3, <2>2
    <3>2. i - 1 \in M!NotSecond(vl) <=> ~IsSecond(t, b + i)
      BY <1>3, <1>8, <3>1, PairFacts
    <3>. QED  BY <2>2, <3>2 DEF M!ShiftedUp
  <2>. QED  BY <2>1, <2>2
<1>10. ASSUME NEW i \in 1 .. vl PROVE i \in mask <=> b + i \in Kept(t)
  BY <1>3, <1>8, <1>9 DEF Kept
<1>11. PieceOf(u, mask, t, Kept(t), b)
  BY <1>3, <1>7, <1>10 DEF PieceOf
<1>12. ASSUME M!NotSecond(vl) = 1 .. vl PROVE \A i \in 1 .. vl : i \in mask
  <2>1. ASSUME NEW i \in 1 .. vl PROVE i = 1 \/ i - 1 \in M!NotSecond(vl)
    BY <1>3, <1>12
  <2>. QED  BY <1>12, <2>1 DEF M!ShiftedUp
<1>. DEFINE k == Packed(u, mask)[vl]
<1>13. /\ k \in Seq(M!Bytes) /\ Len(k) =< vl
       /\ Len(k) = vl => k = SubSeq(u, 1, vl)
       /\ (\A i \in 1 .. vl : i \in mask) => Len(k) = vl
  <2>1. \A m : \A j \in 0 .. Len(u) :
           /\ Packed(u, m)[j] \in Seq(M!Bytes)
           /\ Len(Packed(u, m)[j]) =< j
           /\ Len(Packed(u, m)[j]) = j => Packed(u, m)[j] = SubSeq(u, 1, j)
           /\ (\A i \in 1 .. j : i \in m) => Len(Packed(u, m)[j]) = j
    <3>. HIDE DEF u
    <3>. QED  BY <1>7, PackedType
  <2>2. vl \in 0 .. Len(u)
    BY <1>3, <1>7
  <2>. HIDE DEF u, mask
  <2>. QED  BY <2>1, <2>2
<1>14. SubSeq(u, 1, vl) = u
  <2>. HIDE DEF u
  <2>. QED  BY <1>3, <1>7
<1>15. M!KeptMshift(vl) = k
  <2>1. M!Compress(u, mask) = k
    BY <1>7, CompressIsPacked
  <2>. HIDE DEF k
  <2>. QED  BY <1>12, <1>13, <1>14, <2>1 DEF M!KeptMshift
<1>16. Packed(t, Kept(t))[b + vl] = Packed(t, Kept(t))[b] \o k
  <2>. HIDE DEF u, mask
  <2>1. KeepsPiece(u, mask, t, Kept(t), b)
    BY <1>7, <1>11, PackedPiece
  <2>2. vl \in 0 .. Len(u)
    BY <1>3, <1>7
  <2>. QED  BY <2>1, <2>2, Zenon DEF KeepsPiece
<1>17. Len(k) = vl => k[vl] = t[b + vl]
  <2>. HIDE DEF u, k
  <2>. QED  BY <1>3, <1>7, <1>13, <1>14
<1>. HIDE DEF k
<1>18. (vl - Len(k)) % 2 = IF IsFirst(t, b + vl) THEN 1 ELSE 0
  <2>. DEFINE p == Packed(t, Kept(t))
  <2>1. b \in 0 .. Len(t) /\ b + vl \in 0 .. Len(t)
    BY <1>3
  <2>2. \A m : \A j \in 0 .. Len(t) : Packed(t, m)[j] \in Seq(M!Bytes)
    BY PackedType
  <2>3. p[b] \in Seq(M!Bytes)
    BY <2>1, <2>2
  <2>4. \A j \in 0 .. Len(t) : \E h \in Nat :
          j = Len(p[j]) + 2 * h + (IF IsFirst(t, j) THEN 1 ELSE 0)
    BY KeptParity
  <2>5. p[b + vl] = p[b] \o k
    BY <1>16
  <2>. HIDE DEF p
  <2>6. ~IsFirst(t, b)
    BY <1>1, <1>2, <1>3, PairFacts
  <2>7. PICK h \in Nat : b = Len(p[b]) + 2 * h + (IF IsFirst(t, b) THEN 1 ELSE 0)
    BY <2>1, <2>4
  <2>8. PICK g \in Nat :
          b + vl = Len(p[b + vl]) + 2 * g + (IF IsFirst(t, b + vl) THEN 1 ELSE 0)
    BY <2>1, <2>4
  <2>9. PICK a \in Nat, c \in Nat : a = Len(p[b]) /\ c = Len(k)
    BY <1>13, <2>3
  <2>10. Len(p[b + vl]) = a + c
    BY <1>13, <2>3, <2>5, <2>9
  <2>11. b = a + 2 * h
    <3>1. b = a + 2 * h + 0
      BY <2>6, <2>7, <2>9, Zenon
    <3>. QED  BY <3>1
  <2>12. PICK f \in 0 .. 1 : f = IF IsFirst(t, b + vl) THEN 1 ELSE 0
    OBVIOUS
  <2>13. b + vl = (a + c) + 2 * g + f
    BY <2>8, <2>10, <2>12, Zenon
  <2>14. vl - c = 2 * (g - h) + f
    BY <1>3, <2>11, <2>13
  <2>15. vl \in Nat /\ g - h \in Int
    BY <1>3
  <2>16. (vl - c) % 2 = f
    BY <2>14, <2>15
  <2>. QED  BY <2>9, <2>12, <2>16
<1>. QED  BY <1>1, <1>2, <1>13, <1>15, <1>16, <1>17, <1>18

-----------------------------------------------------------------------------
(* The steps.                                                              *)

\* what a step has stored is never ahead of what it has read
LEMMA DestBehind ==
  ASSUME MergeInv, kernel \in MergeKernels, pc \in { "loop", "last" }
  PROVE  /\ Done \in 0 .. Len(input) /\ dest \in 0 .. Done
         /\ Packed(input, Kept(input))[Done] \in Seq(M!Bytes)
<1>1. /\ input \in Seq(M!Bytes) /\ out \in Seq(M!Bytes) /\ Len(out) = Len(input)
      /\ src \in 0 .. Len(input) /\ dest \in 0 .. Len(input)
      /\ FrontMerged /\ MshiftInv
  BY DEF MergeInv, M!TypeOK, M!Length
<1>2. Done \in 0 .. Len(input)
  BY <1>1 DEF Done, MshiftInv
<1>3. \A m : \A j \in 0 .. Len(input) :
         Packed(input, m)[j] \in Seq(M!Bytes) /\ Len(Packed(input, m)[j]) =< j
  BY <1>1, PackedType
<1>4. PICK d \in 0 .. Len(input) : d = dest
  BY <1>1
<1>5. Len(SubSeq(out, 1, d)) = d
  BY <1>1, <1>4
<1>. QED  BY <1>1, <1>2, <1>3, <1>4, <1>5 DEF FrontMerged

LEMMA AdvanceKeeps ==
  ASSUME MergeInv, kernel \in MergeKernels, pc = "loop",
         NEW vl \in 1 .. n, NEW step \in Nat, NEW kept \in Seq(M!Bytes),
         Done + vl =< Len(input), Len(kept) =< vl,
         Packed(input, Kept(input))[Done + vl] = Packed(input, Kept(input))[Done] \o kept,
         Len(kept) = vl => kept[vl] = input[Done + vl],
         M!AdvanceBy(step, kept)
  PROVE  /\ out' \in Seq(M!Bytes) /\ Len(out') = Len(input)
         /\ dest' \in 0 .. Len(input)
         /\ src' = src + step /\ n' = n - step
         /\ kernel' = kernel /\ input' = input
         /\ SubSeq(out', 1, dest') = Packed(input, Kept(input))[Done + vl]
         /\ \A i \in 1 .. Len(input) : i >= Done + vl => out'[i] = input[i]
         /\ last' = out'[src']
<1>1. /\ input \in Seq(M!Bytes) /\ out \in Seq(M!Bytes) /\ Len(out) = Len(input)
      /\ src \in 0 .. Len(input) /\ n = Len(input) - src /\ dest \in Nat
      /\ FrontMerged /\ RestThere
  BY DEF MergeInv, M!TypeOK, M!Length
<1>2. Done \in 0 .. Len(input) /\ dest \in 0 .. Done
  BY DestBehind
<1>3. PICK b \in Nat, L \in Nat, k \in Nat, d \in Nat :
        b = Done /\ L = Len(input) /\ k = Len(kept) /\ d = dest
  <2>1. Len(input) \in Nat /\ Len(kept) \in Nat
    BY <1>1
  <2>2. Done \in Nat /\ dest \in Nat
    BY <1>1, <1>2
  <2>. QED  BY <2>1, <2>2
<1>4. vl \in Nat /\ vl >= 1 /\ b + vl =< L /\ k =< vl /\ d =< b /\ d + k =< L
  BY <1>1, <1>2, <1>3
<1>5. /\ out' = M!Stored(kept) /\ dest' = dest + Len(kept)
      /\ src' = src + step /\ n' = n - step /\ last' = out'[(src' - 1) + 1]
      /\ kernel' = kernel /\ input' = input
  BY DEF M!AdvanceBy, M!Byte
<1>6. /\ out' \in Seq(M!Bytes) /\ Len(out') = L
      /\ SubSeq(out', 1, d + k) = SubSeq(out, 1, d) \o kept
      /\ \A i \in 1 .. L : i > d + k => out'[i] = out[i]
      /\ \A i \in 1 .. k : out'[d + i] = kept[i]
  BY <1>1, <1>3, <1>4, <1>5, StoredInOrder
<1>7. dest' \in 0 .. L /\ (src' - 1) + 1 = src'
  BY <1>1, <1>3, <1>4, <1>5
<1>8. SubSeq(out', 1, dest') = Packed(input, Kept(input))[Done + vl]
  BY <1>1, <1>3, <1>5, <1>6 DEF FrontMerged
<1>9. ASSUME NEW i \in 1 .. L, i >= b + vl PROVE out'[i] = input[i]
  <2>1. CASE i > d + k
    <3>1. out'[i] = out[i] /\ i > b
      BY <1>4, <1>6, <1>9, <2>1
    <3>. QED  BY <1>1, <1>3, <3>1 DEF RestThere
  <2>2. CASE i =< d + k
    <3>1. i = b + vl /\ d = b /\ k = vl /\ vl \in 1 .. k /\ i = d + vl
      BY <1>4, <1>9, <2>2
    <3>. QED  BY <1>3, <1>6, <3>1
  <2>. QED  BY <1>4, <2>1, <2>2
<1>. QED  BY <1>3, <1>5, <1>6, <1>7, <1>8, <1>9

LEMMA ChunkVslideStep ==
  ASSUME MergeInv, M!ChunkVslide
  PROVE  MergeInv'
<1>1. kernel \in M!VslideVariants /\ pc = "loop" /\ kernel \notin M!MshiftVariants
      /\ kernel \in MergeKernels
  BY KernelFacts DEF M!ChunkVslide
<1>2. /\ M!TypeOK /\ input \in Seq(M!Bytes) /\ src \in 0 .. Len(input)
      /\ n = Len(input) - src /\ n >= 2 /\ Done = src
  BY <1>1 DEF MergeInv, M!TypeOK, M!Length, VslideInv, Done
<1>3. n \in Nat \ {0}
  BY <1>2
<1>4. PICK vl \in M!LegalVl(n, VLMAX) : M!AdvanceBy(vl, M!KeptVslide(vl))
  BY DEF M!ChunkVslide
<1>5. vl \in 1 .. n
  BY <1>3, <1>4, LegalVlFacts
<1>6. PICK kept \in Seq(M!Bytes) : kept = M!KeptVslide(vl)
  BY <1>1, <1>5, VslideKeeps
<1>7. /\ Len(kept) =< vl
      /\ Packed(input, Kept(input))[Done + vl] =
           Packed(input, Kept(input))[Done] \o kept
      /\ Len(kept) = vl => kept[vl] = input[Done + vl]
  BY <1>1, <1>2, <1>5, <1>6, VslideKeeps
<1>8. Done + vl =< Len(input) /\ vl \in Nat
  BY <1>2, <1>5
<1>9. M!AdvanceBy(vl, kept)
  BY <1>4, <1>6
<1>10. /\ out' \in Seq(M!Bytes) /\ Len(out') = Len(input)
       /\ dest' \in 0 .. Len(input)
       /\ src' = src + vl /\ n' = n - vl
       /\ kernel' = kernel /\ input' = input
       /\ SubSeq(out', 1, dest') = Packed(input, Kept(input))[Done + vl]
       /\ \A i \in 1 .. Len(input) : i >= Done + vl => out'[i] = input[i]
       /\ last' = out'[src']
  BY <1>1, <1>5, <1>7, <1>8, <1>9, AdvanceKeeps
<1>11. src' \in 1 .. Len(input) /\ n' = Len(input) - src' /\ Done' = src' /\ src' = Done + vl
  BY <1>1, <1>2, <1>5, <1>10 DEF Done
<1>12. last' = input[src'] /\ input[src'] \in M!Bytes
  <2>1. src' >= Done + vl
    BY <1>11
  <2>2. out'[src'] = input[src']
    BY <1>10, <1>11, <2>1
  <2>. QED  BY <1>2, <1>10, <1>11, <2>2
<1>13. pc' = (IF n' > 1 THEN "loop" ELSE "last")
  BY DEF M!ChunkVslide
<1>14. M!TypeOK'
  BY <1>2, <1>10, <1>11, <1>12, <1>13 DEF M!TypeOK, M!Length
<1>15. FrontMerged' /\ RestThere'
  BY <1>2, <1>10, <1>11, <1>12 DEF FrontMerged, RestThere
<1>16. VslideInv' /\ MshiftInv'
  BY <1>1, <1>10, <1>11, <1>13 DEF VslideInv, MshiftInv
<1>. QED  BY <1>13, <1>14, <1>15, <1>16 DEF MergeInv

LEMMA ChunkMshiftStep ==
  ASSUME MergeInv, M!ChunkMshift
  PROVE  MergeInv'
<1>1. kernel \in M!MshiftVariants /\ pc = "loop" /\ kernel \notin M!VslideVariants
      /\ kernel \in MergeKernels
  BY KernelFacts DEF M!ChunkMshift
<1>2. /\ M!TypeOK /\ input \in Seq(M!Bytes) /\ src \in 1 .. Len(input)
      /\ n = Len(input) - src /\ n >= 1 /\ Done = src - 1
  BY <1>1 DEF MergeInv, M!TypeOK, M!Length, MshiftInv, Done
<1>3. n \in Nat \ {0}
  BY <1>2
<1>4. PICK vl \in M!LegalVl(n, VLMAX) :
        M!AdvanceBy(vl + M!Skipped(vl, Len(M!KeptMshift(vl))), M!KeptMshift(vl))
  BY DEF M!ChunkMshift
<1>5. vl \in 1 .. n
  BY <1>3, <1>4, LegalVlFacts
<1>6. PICK kept \in Seq(M!Bytes) : kept = M!KeptMshift(vl)
  BY <1>1, <1>5, MshiftKeeps
<1>7. /\ Len(kept) =< vl
      /\ Packed(input, Kept(input))[Done + vl] =
           Packed(input, Kept(input))[Done] \o kept
      /\ Len(kept) = vl => kept[vl] = input[Done + vl]
      /\ (vl - Len(kept)) % 2 = IF IsFirst(input, Done + vl) THEN 1 ELSE 0
  BY <1>1, <1>5, <1>6, MshiftKeeps
<1>23. Done \in Nat /\ Len(input) \in Nat
  BY <1>2
<1>8. PICK b \in Nat, L \in Nat : b = Done /\ L = Len(input)
  BY <1>23
<1>9. /\ b + vl =< L - 1 /\ vl \in Nat /\ vl >= 1 /\ src = b + 1 /\ n = L - (b + 1)
      /\ Done + vl =< Len(input) /\ vl =< n
  BY <1>2, <1>5, <1>8
<1>. DEFINE skips == vl < n /\ IsFirst(input, b + vl)
<1>10. PICK step \in Nat : step = IF skips THEN vl + 1 ELSE vl
  BY <1>9
<1>11. M!Skipped(vl, Len(kept)) = IF skips THEN 1 ELSE 0
  BY <1>7, <1>8 DEF M!Skipped
<1>12. M!AdvanceBy(step, kept)
  BY <1>4, <1>6, <1>9, <1>10, <1>11
<1>13. /\ out' \in Seq(M!Bytes) /\ Len(out') = L
       /\ dest' \in 0 .. L
       /\ src' = src + step /\ n' = n - step
       /\ kernel' = kernel /\ input' = input
       /\ SubSeq(out', 1, dest') = Packed(input, Kept(input))[b + vl]
       /\ \A i \in 1 .. L : i >= b + vl => out'[i] = input[i]
       /\ last' = out'[src']
  BY <1>1, <1>5, <1>7, <1>8, <1>9, <1>12, AdvanceKeeps
<1>24. src' = src + step /\ n' = n - step
  BY <1>13
<1>14. /\ src' \in 2 .. L /\ n' = L - src' /\ n' >= 0
       /\ src' - 1 = IF skips THEN b + vl + 1 ELSE b + vl
       /\ src' = IF skips THEN b + vl + 2 ELSE b + vl + 1
  <2>1. CASE skips
    <3>1. vl < n /\ step = vl + 1
      BY <1>10, <2>1
    <3>3. src' = b + vl + 2 /\ n' = n - (vl + 1)
      BY <1>9, <1>24, <3>1
    <3>4. b + vl + 2 \in 2 .. L /\ n - (vl + 1) = L - (b + vl + 2)
      BY <1>9, <3>1
    <3>2. src' = b + vl + 2 /\ n' = L - src' /\ src' \in 2 .. L
      BY <3>3, <3>4
    <3>. QED  BY <1>9, <2>1, <3>2
  <2>2. CASE ~skips
    <3>1. step = vl
      BY <1>10, <2>2
    <3>3. src' = b + vl + 1 /\ n' = n - vl
      BY <1>9, <1>24, <3>1
    <3>4. b + vl + 1 \in 2 .. L /\ n - vl = L - (b + vl + 1)
      BY <1>9
    <3>2. src' = b + vl + 1 /\ n' = L - src' /\ src' \in 2 .. L
      BY <3>3, <3>4
    <3>. QED  BY <1>9, <2>2, <3>2
  <2>. QED  BY <2>1, <2>2
<1>15. Done' = src' - 1
  BY <1>1, <1>13 DEF Done
<1>16. /\ last' = input[src'] /\ input[src'] \in M!Bytes
       /\ out'[src' - 1] = input[src' - 1]
       /\ \A i \in 1 .. L : i > Done' => out'[i] = input[i]
  <2>1. /\ src' >= b + vl /\ src' \in 1 .. L
        /\ src' - 1 >= b + vl /\ src' - 1 \in 1 .. L
    BY <1>9, <1>14
  <2>2. out'[src'] = input[src'] /\ out'[src' - 1] = input[src' - 1]
    BY <1>13, <2>1
  <2>3. ASSUME NEW i \in 1 .. L, i > Done' PROVE i >= b + vl
    <3>1. i > src' - 1
      BY <1>15, <2>3, Zenon
    <3>2. src' \in Nat
      BY <2>1
    <3>3. b + vl \in Nat
      BY <1>9
    <3>4. PICK x \in Nat, y \in Nat : x = src' /\ y = b + vl
      BY <3>2, <3>3
    <3>5. x - 1 >= y /\ i > x - 1
      BY <2>1, <3>1, <3>4, Zenon
    <3>6. i >= y
      BY ONLY <3>5, i \in 1 .. L, L \in Nat, x \in Nat, y \in Nat
    <3>. QED  BY <3>4, <3>6, Zenon
  <2>4. \A i \in 1 .. L : i > Done' => out'[i] = input[i]
    BY <1>13, <2>3
  <2>5. input[src'] \in M!Bytes
    BY <1>2, <1>8, <2>1
  <2>6. last' = input[src']
    BY <1>13, <2>2
  <2>. QED  BY <2>2, <2>4, <2>5, <2>6
<1>17. pc' = (IF n' > 0 THEN "loop" ELSE "last")
  BY DEF M!ChunkMshift
<1>18. M!TypeOK'
  <2>1. /\ src' \in 0 .. Len(input') /\ n' = Len(input') - src'
        /\ dest' \in 0 .. Len(input') /\ Len(out') = Len(input')
    BY <1>8, <1>13, <1>14
  <2>2. last' \in M!Bytes
    BY <1>16
  <2>3. kernel' \in M!VslideVariants \cup M!MshiftVariants
    BY <1>1, <1>13
  <2>4. input' \in Seq(M!Bytes) /\ Len(input') =< MaxLen
    BY <1>2, <1>13 DEF M!TypeOK, M!Length
  <2>. QED  BY <1>13, <1>17, <2>1, <2>2, <2>3, <2>4 DEF M!TypeOK, M!Length
<1>19. SubSeq(out', 1, dest') = Packed(input, Kept(input))[src' - 1]
  <2>1. CASE ~skips
    BY <1>13, <1>14, <2>1
  <2>2. CASE skips
    <3>1. b + vl + 1 \notin Kept(input)
      BY <1>8, <1>9, <2>2, PairFacts DEF Kept
    <3>2. OneByOne(Packed(input, Kept(input)), input, Kept(input))
      BY <1>2, PackedNext
    <3>3. b + vl \in 0 .. Len(input) - 1
      BY <1>8, <1>9
    <3>4. Packed(input, Kept(input))[b + vl + 1] = Packed(input, Kept(input))[b + vl]
      BY <3>1, <3>2, <3>3, Zenon DEF OneByOne
    <3>. QED  BY <1>13, <1>14, <2>2, <3>4
  <2>. QED  BY <2>1, <2>2
<1>20. FrontMerged' /\ RestThere'
  <2>1. FrontMerged'
    BY <1>13, <1>15, <1>19 DEF FrontMerged
  <2>2. src' # 0 /\ Len(input') = L /\ input' = input
    BY <1>8, <1>13, <1>14
  <2>3. last' = IF src' = 0 THEN M!Nothing ELSE input'[src']
    BY <1>16, <2>2
  <2>4. \A i \in 1 .. Len(input') : i > Done' => out'[i] = input'[i]
    BY <1>16, <2>2
  <2>. QED  BY <2>1, <2>3, <2>4 DEF RestThere
<1>21. ASSUME n' > 0 PROVE ~IsSecond(input, src')
  <2>1. CASE skips
    <3>1. input[b + vl + 1] = M!Newline /\ src' - 1 = b + vl + 1
      BY <1>14, <2>1 DEF IsFirst
    <3>. QED  BY <3>1, ByteFacts DEF IsSecond
  <2>2. CASE ~skips
    <3>1. vl < n
      BY <1>9, <1>14, <1>21, <2>2
    <3>2. ~IsFirst(input, b + vl) /\ b + vl \in Nat /\ src' = b + vl + 1
      BY <1>9, <1>14, <2>2, <3>1
    <3>. QED  BY <1>8, <3>2, PairFacts
  <2>. QED  BY <2>1, <2>2
<1>22. VslideInv' /\ MshiftInv'
  BY <1>1, <1>13, <1>14, <1>16, <1>17, <1>21 DEF VslideInv, MshiftInv
<1>. QED  BY <1>17, <1>18, <1>20, <1>22 DEF MergeInv

\* The last byte: it is kept unless it is the newline of a pair.
LEMMA LastByte ==
  ASSUME NEW t \in Seq(M!Bytes), Len(t) >= 1
  PROVE  Packed(t, Kept(t))[Len(t)] =
           IF IsSecond(t, Len(t)) THEN Packed(t, Kept(t))[Len(t) - 1]
           ELSE Append(Packed(t, Kept(t))[Len(t) - 1], t[Len(t)])
<1>1. OneByOne(Packed(t, Kept(t)), t, Kept(t))
  BY PackedNext
<1>2. Len(t) - 1 \in 0 .. Len(t) - 1 /\ (Len(t) - 1) + 1 = Len(t) /\ Len(t) \in 1 .. Len(t)
  OBVIOUS
<1>3. Len(t) \in Kept(t) <=> ~IsSecond(t, Len(t))
  BY <1>2 DEF Kept, IsFirst
<1>4. \A k \in 0 .. Len(t) - 1 :
         /\ k + 1 \in Kept(t)
              => Packed(t, Kept(t))[k + 1] = Append(Packed(t, Kept(t))[k], t[k + 1])
         /\ k + 1 \notin Kept(t) => Packed(t, Kept(t))[k + 1] = Packed(t, Kept(t))[k]
  BY <1>1, Zenon DEF OneByOne
<1>. QED  BY <1>2, <1>3, <1>4

\* The step that stores the last byte, or leaves it out.
LEMMA LastKeeps ==
  ASSUME MergeInv, kernel \in MergeKernels, pc = "last", Len(input) >= 1,
         Done = Len(input) - 1,
         IF IsSecond(input, Len(input))
           THEN out' = out /\ dest' = dest
           ELSE out' = M!Stored(<< input[Len(input)] >>) /\ dest' = dest + 1
  PROVE  /\ out' \in Seq(M!Bytes) /\ Len(out') = Len(input) /\ dest' \in 0 .. Len(input)
         /\ SubSeq(out', 1, dest') = M!ScalarMerge(input)
<1>1. /\ input \in Seq(M!Bytes) /\ out \in Seq(M!Bytes) /\ Len(out) = Len(input)
      /\ FrontMerged /\ dest \in 0 .. Len(input) /\ dest \in Nat /\ Len(input) \in Nat
  BY DEF MergeInv, M!TypeOK, M!Length
<1>2. dest + 1 =< Len(input)
  BY <1>1, DestBehind
<1>3. PICK e \in M!Bytes : e = input[Len(input)]
  BY <1>1
<1>4. PICK q \in Seq(M!Bytes) : q = SubSeq(out, 1, dest)
  <2>1. PICK d \in 0 .. Len(out) : d = dest
    BY <1>1
  <2>2. SubSeq(out, 1, d) \in Seq(M!Bytes)
    BY <1>1
  <2>. QED  BY <2>1, <2>2
<1>5. q = Packed(input, Kept(input))[Len(input) - 1]
  BY <1>4 DEF FrontMerged, MergeInv
<1>6. M!ScalarMerge(input) = IF IsSecond(input, Len(input)) THEN q ELSE Append(q, e)
  BY <1>1, <1>3, <1>5, LastByte, ScalarMergeIsKept
<1>7. CASE IsSecond(input, Len(input))
  BY <1>1, <1>4, <1>6, <1>7
<1>8. CASE ~IsSecond(input, Len(input))
  <2>1. << e >> \in Seq(M!Bytes) /\ Len(<< e >>) = 1 /\ out' = M!Stored(<< e >>)
        /\ dest' = dest + 1
    BY <1>3, <1>8
  <2>2. PICK s \in Seq(M!Bytes) : s = << e >>
    BY <2>1
  <2>3. dest + Len(s) =< Len(out) /\ Len(s) = 1
    BY <1>1, <1>2, <2>1, <2>2
  <2>4. /\ M!Stored(s) \in Seq(M!Bytes) /\ Len(M!Stored(s)) = Len(out)
        /\ SubSeq(M!Stored(s), 1, dest + Len(s)) = SubSeq(out, 1, dest) \o s
    BY <1>1, <2>3, StoredInOrder
  <2>5. Append(q, e) = q \o << e >>
    BY AppendIsConcat
  <2>6. SubSeq(out', 1, dest') = q \o << e >>
    BY <1>4, <2>1, <2>2, <2>3, <2>4
  <2>7. out' \in Seq(M!Bytes) /\ Len(out') = Len(input) /\ dest' \in 0 .. Len(input)
    BY <1>1, <1>2, <2>1, <2>2, <2>4
  <2>. QED  BY <1>6, <1>8, <2>5, <2>6, <2>7, Zenon
<1>. QED  BY <1>7, <1>8

LEMMA LastVslideStep ==
  ASSUME MergeInv, M!LastVslide
  PROVE  MergeInv'
<1>1. kernel \in M!VslideVariants /\ pc = "last" /\ kernel \notin M!MshiftVariants
      /\ kernel \in MergeKernels /\ pc' = "done" /\ kernel' = kernel /\ input' = input
      /\ src' = src /\ n' = n /\ last' = last
  BY KernelFacts DEF M!LastVslide
<1>2. /\ M!TypeOK /\ input \in Seq(M!Bytes) /\ src \in 0 .. Len(input)
      /\ n = Len(input) - src /\ n =< 1 /\ Done = src /\ RestThere /\ FrontMerged
      /\ out \in Seq(M!Bytes) /\ Len(out) = Len(input) /\ Len(input) \in Nat
      /\ dest \in 0 .. Len(input)
  BY <1>1 DEF MergeInv, M!TypeOK, M!Length, VslideInv, Done
<1>3. /\ out' \in Seq(M!Bytes) /\ Len(out') = Len(input) /\ dest' \in 0 .. Len(input)
      /\ SubSeq(out', 1, dest') = M!ScalarMerge(input)
  <2>1. CASE n = 0
    <3>1. src = Len(input) /\ ~(n > 0)
      BY <1>2, <2>1
    <3>2. out' = out /\ dest' = dest
      BY <3>1 DEF M!LastVslide
    <3>. QED  BY <1>2, <3>1, <3>2, ScalarMergeIsKept DEF FrontMerged
  <2>2. CASE n = 1
    <3>1. src = Len(input) - 1 /\ n > 0 /\ Len(input) >= 1 /\ src + 1 = Len(input)
          /\ Len(input) \in 1 .. Len(input) /\ Len(input) > Done
      BY <1>2, <2>2
    <3>2. M!Byte(out, src) = input[Len(input)]
      BY <1>2, <3>1 DEF M!Byte, RestThere
    <3>3. (last = M!Backslash /\ input[Len(input)] = M!Newline)
             <=> IsSecond(input, Len(input))
      <4>1. CASE src = 0
        BY <1>2, <3>1, <4>1, ByteFacts DEF RestThere, IsSecond
      <4>2. CASE src # 0
        <5>1. last = input[Len(input) - 1] /\ Len(input) \in 2 .. Len(input)
          BY <1>2, <3>1, <4>2 DEF RestThere
        <5>. QED  BY <5>1 DEF IsSecond
      <4>. QED  BY <4>1, <4>2
    <3>4. IF IsSecond(input, Len(input))
            THEN out' = out /\ dest' = dest
            ELSE out' = M!Stored(<< input[Len(input)] >>) /\ dest' = dest + 1
      BY <3>1, <3>2, <3>3 DEF M!LastVslide
    <3>5. Done = Len(input) - 1
      BY <1>2, <3>1
    <3>. QED  BY <1>1, <3>1, <3>4, <3>5, LastKeeps
  <2>. QED  BY <1>2, <2>1, <2>2
<1>. QED  BY <1>1, <1>2, <1>3 DEF MergeInv, M!TypeOK, M!Length

LEMMA LastMshiftStep ==
  ASSUME MergeInv, M!LastMshift
  PROVE  MergeInv'
<1>1. kernel \in M!MshiftVariants /\ pc = "last"
      /\ kernel \in MergeKernels /\ pc' = "done" /\ kernel' = kernel /\ input' = input
      /\ src' = src /\ n' = n /\ last' = last
  BY KernelFacts DEF M!LastMshift
<1>2. /\ M!TypeOK /\ input \in Seq(M!Bytes) /\ src \in 2 .. Len(input)
      /\ n = Len(input) - src /\ n = 0 /\ Done = src - 1 /\ RestThere /\ FrontMerged
      /\ out \in Seq(M!Bytes) /\ Len(out) = Len(input) /\ Len(input) \in Nat
      /\ dest \in 0 .. Len(input) /\ out[src - 1] = input[src - 1]
  BY <1>1 DEF MergeInv, M!TypeOK, M!Length, MshiftInv, Done
<1>3. /\ src = Len(input) /\ Len(input) >= 1 /\ Done = Len(input) - 1
      /\ (src - 2) + 1 = src - 1 /\ (src - 1) + 1 = src /\ src # 0
      /\ Len(input) \in 2 .. Len(input) /\ Len(input) \in 1 .. Len(input)
      /\ Len(input) > Done
  BY <1>2
<1>4. /\ M!Byte(out, src - 2) = input[Len(input) - 1]
      /\ M!Byte(out, src - 1) = input[Len(input)]
      /\ last = input[Len(input)]
  BY <1>2, <1>3 DEF M!Byte, RestThere
<1>5. (M!Byte(out, src - 2) = M!Backslash /\ M!Byte(out, src - 1) = M!Newline)
        <=> IsSecond(input, Len(input))
  BY <1>3, <1>4 DEF IsSecond
<1>6. IF IsSecond(input, Len(input))
        THEN out' = out /\ dest' = dest
        ELSE out' = M!Stored(<< input[Len(input)] >>) /\ dest' = dest + 1
  BY <1>4, <1>5 DEF M!LastMshift
<1>7. /\ out' \in Seq(M!Bytes) /\ Len(out') = Len(input) /\ dest' \in 0 .. Len(input)
      /\ SubSeq(out', 1, dest') = M!ScalarMerge(input)
  BY <1>1, <1>3, <1>6, LastKeeps
<1>. QED  BY <1>1, <1>2, <1>7 DEF MergeInv, M!TypeOK, M!Length

LEMMA EnterSteps ==
  ASSUME MergeInv, M!EnterVslide \/ M!EnterMshift \/ M!EnterMshiftShort
  PROVE  MergeInv'
<1>1. /\ kernel \in MergeKernels /\ pc = "entry" /\ kernel' = kernel /\ input' = input
      /\ out' = out /\ M!TypeOK /\ AtEntry
  BY KernelFacts DEF M!EnterVslide, M!EnterMshift, M!EnterMshiftShort, MergeInv
<1>2. /\ input \in Seq(M!Bytes) /\ Len(input) \in Nat /\ out = input /\ src = 0
      /\ dest = 0 /\ n = Len(input) /\ last = M!Nothing
  BY <1>1 DEF AtEntry, M!TypeOK, M!Length
<1>3. OneByOne(Packed(input, Kept(input)), input, Kept(input))
  BY <1>2, PackedNext
<1>4. Packed(input, Kept(input))[0] = << >> /\ SubSeq(out, 1, 0) = << >>
  BY <1>2, <1>3 DEF OneByOne
<1>5. CASE M!EnterVslide
  <2>1. /\ kernel \in M!VslideVariants /\ kernel \notin M!MshiftVariants
        /\ pc' = (IF n < 2 THEN "last" ELSE "loop")
        /\ src' = src /\ dest' = dest /\ n' = n /\ last' = last
    BY <1>5, KernelFacts DEF M!EnterVslide
  <2>2. M!TypeOK'
    BY <1>1, <1>2, <2>1 DEF M!TypeOK, M!Length
  <2>3. Done' = 0
    BY <1>1, <1>2, <2>1 DEF Done
  <2>4. FrontMerged' /\ RestThere'
    BY <1>1, <1>2, <1>4, <2>1, <2>3 DEF FrontMerged, RestThere
  <2>5. VslideInv' /\ MshiftInv'
    BY <1>1, <1>2, <2>1 DEF VslideInv, MshiftInv
  <2>. QED  BY <2>1, <2>2, <2>4, <2>5 DEF MergeInv
<1>6. CASE M!EnterMshift
  <2>1. /\ kernel \in M!MshiftVariants /\ kernel \notin M!VslideVariants
        /\ pc' = "loop" /\ Len(input) >= 2
        /\ src' = 1 /\ dest' = dest /\ n' = Len(input) - 1 /\ last' = out[0 + 1]
    BY <1>6, KernelFacts DEF M!EnterMshift, M!Length, M!Byte
  <2>2. last' = input[1] /\ input[1] \in M!Bytes
    BY <1>2, <2>1
  <2>3. M!TypeOK'
    BY <1>1, <1>2, <2>1, <2>2 DEF M!TypeOK, M!Length
  <2>4. Done' = 0
    BY <1>1, <2>1 DEF Done
  <2>7. FrontMerged'
    BY <1>1, <1>2, <1>4, <2>1, <2>4 DEF FrontMerged
  <2>8. \A i \in 1 .. Len(input') : i > Done' => out'[i] = input'[i]
    BY <1>1, <1>2
  <2>9. last' = IF src' = 0 THEN M!Nothing ELSE input'[src']
    BY <1>1, <2>1, <2>2
  <2>5. FrontMerged' /\ RestThere'
    BY <2>7, <2>8, <2>9 DEF RestThere
  <2>6. VslideInv' /\ MshiftInv'
    BY <1>1, <1>2, <2>1 DEF VslideInv, MshiftInv, IsSecond
  <2>. QED  BY <2>1, <2>3, <2>5, <2>6 DEF MergeInv
<1>7. CASE M!EnterMshiftShort
  <2>1. /\ Len(input) < 2 /\ dest' = Len(input) /\ pc' = "done"
        /\ src' = src /\ n' = n /\ last' = last
    BY <1>7 DEF M!EnterMshiftShort, M!Length
  <2>2. M!TypeOK'
    BY <1>1, <1>2, <2>1 DEF M!TypeOK, M!Length
  <2>3. M!ScalarMerge(input) = Packed(input, Kept(input))[Len(input)]
    BY <1>2, ScalarMergeIsKept
  <2>4. \A i \in 1 .. Len(input) : i \in Kept(input)
    BY <1>2, <2>1 DEF Kept, IsFirst, IsSecond
  <2>5. \A m : \A j \in 0 .. Len(input) :
          /\ Len(Packed(input, m)[j]) = j => Packed(input, m)[j] = SubSeq(input, 1, j)
          /\ (\A i \in 1 .. j : i \in m) => Len(Packed(input, m)[j]) = j
    BY <1>2, PackedType
  <2>6. Len(input) \in 0 .. Len(input)
    BY <1>2
  <2>7. Packed(input, Kept(input))[Len(input)] = SubSeq(input, 1, Len(input))
    BY <2>4, <2>5, <2>6
  <2>. QED  BY <1>1, <1>2, <2>1, <2>2, <2>3, <2>7 DEF MergeInv
<1>. QED  BY <1>5, <1>6, <1>7

\* A step of a transcoder goes on with the call, from where mergelines cannot be.
TranscoderOnly ==
  /\ kernel' = kernel /\ input' = input
  /\ pc \in { "scalar", "pairs" } \/ kernel \in T!Rvv8Kernels \cup T!Rvv16Kernels

LEMMA TranscoderSteps ==
  ASSUME T!Next
  PROVE  TranscoderOnly \/ UNCHANGED T!uvars
<1>1. CASE T!ScalarNext
  <2>1. CASE T!Utf8ToUtf16
    <3>1. T!Round("utf8", "utf16")
      BY <2>1, Zenon DEF T!Utf8ToUtf16
    <3>. QED  BY <3>1 DEF TranscoderOnly, T!call, T!Round
  <2>2. CASE T!Utf8ToUtf32
    <3>1. T!Round("utf8", "utf32")
      BY <2>2, Zenon DEF T!Utf8ToUtf32
    <3>. QED  BY <3>1 DEF TranscoderOnly, T!call, T!Round
  <2>3. CASE T!Utf16ToUtf8
    <3>1. T!Round("utf16", "utf8")
      BY <2>3, Zenon DEF T!Utf16ToUtf8
    <3>. QED  BY <3>1 DEF TranscoderOnly, T!call, T!Round
  <2>4. CASE T!Utf32ToUtf8
    <3>1. T!Round("utf32", "utf8")
      BY <2>4, Zenon DEF T!Utf32ToUtf8
    <3>. QED  BY <3>1 DEF TranscoderOnly, T!call, T!Round
  <2>5. CASE T!Utf32ToUtf16
    <3>1. T!Round("utf32", "utf16")
      BY <2>5, Zenon DEF T!Utf32ToUtf16
    <3>. QED  BY <3>1 DEF TranscoderOnly, T!call, T!Round
  <2>6. CASE T!ScalarReturn
    BY <2>6 DEF T!ScalarReturn, TranscoderOnly, T!call
  <2>. QED  BY <1>1, <2>1, <2>2, <2>3, <2>4, <2>5, <2>6 DEF T!ScalarNext
<1>2. CASE T!Utf8ToNNext
  <2>1. CASE T!EnterShort
    BY <2>1 DEF T!EnterShort, TranscoderOnly, T!call
  <2>2. CASE T!EnterLoop
    BY <2>2 DEF T!EnterLoop, TranscoderOnly, T!call
  <2>3. CASE T!AsciiChunk8
    BY <2>3 DEF T!AsciiChunk8, TranscoderOnly, T!call, T!InLoop8, T!Advance8
  <2>4. CASE T!Reject
    BY <2>4 DEF T!Reject, TranscoderOnly, T!call, T!InLoop8
  <2>5. CASE T!DecodeChunk
    BY <2>5 DEF T!DecodeChunk, TranscoderOnly, T!call, T!InLoop8, T!Advance8
  <2>6. CASE T!LeaveLoop8
    BY <2>6 DEF T!LeaveLoop8, TranscoderOnly, T!call
  <2>. QED  BY <1>2, <2>1, <2>2, <2>3, <2>4, <2>5, <2>6 DEF T!Utf8ToNNext
<1>3. CASE T!Utf16To8Next
  <2>1. CASE T!AsciiChunk16
    BY <2>1 DEF T!AsciiChunk16, TranscoderOnly, T!call, T!InLoop16, T!Advance16
  <2>2. CASE T!TwoByteChunk
    BY <2>2 DEF T!TwoByteChunk, TranscoderOnly, T!call, T!InLoop16, T!Advance16
  <2>3. CASE T!PrefixChunk
    BY <2>3 DEF T!PrefixChunk, TranscoderOnly, T!call, T!InLoop16, T!Advance16
  <2>4. CASE T!Pair
    BY <2>4 DEF T!Pair, TranscoderOnly, T!call, T!Advance16
  <2>5. CASE T!BadPair
    BY <2>5 DEF T!BadPair, TranscoderOnly, T!call
  <2>6. CASE T!NoMorePairs
    BY <2>6 DEF T!NoMorePairs, TranscoderOnly, T!call
  <2>7. CASE T!Return16
    BY <2>7 DEF T!Return16, TranscoderOnly, T!call
  <2>. QED  BY <1>3, <2>1, <2>2, <2>3, <2>4, <2>5, <2>6, <2>7 DEF T!Utf16To8Next
<1>4. CASE T!Terminating
  BY <1>4 DEF T!Terminating
<1>. QED  BY <1>1, <1>2, <1>3, <1>4 DEF T!Next

\* The invariant speaks of these variables only.
LEMMA MergeInvStutters ==
  ASSUME MergeInv, UNCHANGED << kernel, input, pc, src, dest, out, n, last >>
  PROVE  MergeInv'
<1>1. M!TypeOK => M!TypeOK'
  BY DEF M!TypeOK, M!Length
<1>2. Done' = Done
  BY DEF Done
<1>3. (AtEntry => AtEntry') /\ (FrontMerged => FrontMerged') /\ (RestThere => RestThere')
  BY <1>2 DEF AtEntry, FrontMerged, RestThere
<1>4. (VslideInv => VslideInv') /\ (MshiftInv => MshiftInv')
  BY DEF VslideInv, MshiftInv
<1>. QED  BY <1>1, <1>3, <1>4 DEF MergeInv

LEMMA TranscoderKeeps ==
  ASSUME MergeInv, T!Next, UNCHANGED last
  PROVE  MergeInv'
<1>1. CASE UNCHANGED T!uvars
  BY <1>1, MergeInvStutters DEF T!uvars
<1>2. CASE TranscoderOnly
  <2>1. kernel \notin MergeKernels
    BY <1>2, KernelFacts DEF TranscoderOnly, T!Kernels, MergeInv, M!TypeOK
  <2>. QED  BY <1>2, <2>1 DEF TranscoderOnly, MergeInv
<1>. QED  BY <1>1, <1>2, TranscoderSteps

LEMMA MergeInit ==
  ASSUME Init
  PROVE  MergeInv
<1>1. CASE M!Init
  <2>1. PICK l \in 0 .. MaxLen : input \in [1 .. l -> M!Bytes]
    BY <1>1 DEF M!Init
  <2>2. input \in Seq(M!Bytes) /\ Len(input) = l /\ l \in Nat /\ Len(input) =< MaxLen
    BY <2>1, MaxLenAssumption
  <2>3. /\ pc = "entry" /\ out = input /\ src = 0 /\ dest = 0 /\ n = Len(input)
        /\ last = M!Nothing /\ kernel \in M!VslideVariants \cup M!MshiftVariants
    BY <1>1 DEF M!Init, M!Length
  <2>. QED  BY <2>2, <2>3 DEF MergeInv, M!TypeOK, M!Length, AtEntry
<1>2. CASE T!Init
  BY <1>2, KernelFacts DEF T!Init, MergeInv
<1>. QED  BY <1>1, <1>2 DEF Init

LEMMA MergeStep ==
  ASSUME MergeInv, [Next]_vars
  PROVE  MergeInv'
<1>1. CASE M!EnterVslide \/ M!EnterMshift \/ M!EnterMshiftShort
  BY <1>1, EnterSteps
<1>2. CASE M!ChunkVslide
  BY <1>2, ChunkVslideStep
<1>3. CASE M!ChunkMshift
  BY <1>3, ChunkMshiftStep
<1>4. CASE M!LastVslide
  BY <1>4, LastVslideStep
<1>5. CASE M!LastMshift
  BY <1>5, LastMshiftStep
<1>6. CASE M!Terminating
  BY <1>6, MergeInvStutters DEF M!Terminating, M!vars
<1>7. CASE T!Next /\ UNCHANGED last
  BY <1>7, TranscoderKeeps
<1>8. CASE UNCHANGED vars
  BY <1>8, MergeInvStutters DEF vars
<1>. QED  BY <1>1, <1>2, <1>3, <1>4, <1>5, <1>6, <1>7, <1>8 DEF Next, M!Next

LEMMA MergeInvariant == Spec => []MergeInv
BY MergeInit, MergeStep, PTL DEF Spec

\* The text is merged in place, yet whatever a kernel still reads of it, the
\* bytes ahead, the byte before them and for mshift the one before that, is
\* what the caller put there: no store is in front of a load.
THEOREM MergeReadsTheText == Spec => []InputIntact
<1>1. ASSUME MergeInv PROVE InputIntact
  <2>. SUFFICES ASSUME kernel \in MergeKernels, pc \in { "loop", "last" }
                PROVE  /\ \A i \in src .. Len(input) - 1 : out[i + 1] = input[i + 1]
                       /\ src > 0 => last = input[(src - 1) + 1]
                       /\ pc = "last" /\ kernel \in M!MshiftVariants =>
                            \A i \in src - 2 .. src - 1 : out[i + 1] = input[i + 1]
    BY DEF InputIntact, M!InputIntact, M!Byte, M!Length
  <2>1. /\ input \in Seq(M!Bytes) /\ src \in 0 .. Len(input) /\ RestThere /\ MshiftInv
        /\ Done =< src
    BY <1>1 DEF MergeInv, M!TypeOK, M!Length, Done
  <2>2. ASSUME NEW i \in src .. Len(input) - 1 PROVE out[i + 1] = input[i + 1]
    <3>1. i + 1 \in 1 .. Len(input) /\ i + 1 > Done
      BY <2>1 DEF Done
    <3>. QED  BY <2>1, <3>1 DEF RestThere
  <2>3. ASSUME src > 0 PROVE last = input[(src - 1) + 1]
    BY <2>1, <2>3 DEF RestThere
  <2>4. ASSUME pc = "last", kernel \in M!MshiftVariants, NEW i \in src - 2 .. src - 1
        PROVE  out[i + 1] = input[i + 1]
    <3>1. src >= 2 /\ out[src - 1] = input[src - 1] /\ Done = src - 1
      BY <2>1, <2>4 DEF MshiftInv, Done
    <3>2. i + 1 = src - 1 \/ i + 1 = src
      BY <2>1
    <3>3. src \in 1 .. Len(input) /\ src > Done
      BY <2>1, <3>1
    <3>4. out[src] = input[src]
      BY <2>1, <3>3 DEF RestThere
    <3>. QED  BY <3>1, <3>2, <3>4
  <2>. QED  BY <2>2, <2>3, <2>4
<1>. QED  BY <1>1, MergeInvariant, PTL

\* A kernel returns with what mergelines_scalar makes of the text, wherever
\* vsetvli cut it and wherever the pairs fall.
THEOREM MergeReturnsAll ==
  Spec => [](kernel \in MergeKernels /\ pc = "done" =>
               SubSeq(out, 1, dest) = M!ScalarMerge(input))
<1>1. MergeInv => (kernel \in MergeKernels /\ pc = "done" =>
                     SubSeq(out, 1, dest) = M!ScalarMerge(input))
  BY DEF MergeInv
<1>. QED  BY <1>1, MergeInvariant, PTL

\* While it runs, no index is outside the text and nothing but the text's
\* bytes is in memory.
THEOREM MergeTypeCorrect == Spec => [](kernel \in MergeKernels => M!TypeOK)
<1>1. MergeInv => (kernel \in MergeKernels => M!TypeOK)
  BY DEF MergeInv
<1>. QED  BY <1>1, MergeInvariant, PTL

-----------------------------------------------------------------------------
(* The output only grows.                                                  *)

LEMMA PackedGrows ==
  ASSUME NEW t \in Seq(M!Bytes), NEW m, NEW j \in 0 .. Len(t)
  PROVE  \A k \in j .. Len(t) :
           Len(Packed(t, m)[j]) =< Len(Packed(t, m)[k])
             /\ SubSeq(Packed(t, m)[k], 1, Len(Packed(t, m)[j])) = Packed(t, m)[j]
<1>. DEFINE p == Packed(t, m)
            A(k) == Len(p[j]) =< Len(p[k]) /\ SubSeq(p[k], 1, Len(p[j])) = p[j]
            Good == { k \in 0 .. Len(t) : k >= j => A(k) }
<1>1. Len(t) \in Nat /\ j \in Nat
  OBVIOUS
<1>2. OneByOne(p, t, m)
  BY PackedNext
<1>3. \A k \in 0 .. Len(t) : p[k] \in Seq(M!Bytes)
  <2>1. \A mm : \A k \in 0 .. Len(t) : Packed(t, mm)[k] \in Seq(M!Bytes)
    BY PackedType
  <2>. QED  BY <2>1
<1>. HIDE DEF p
<1>4. A(j)
  <2>1. PICK x \in Seq(M!Bytes) : x = p[j]
    BY <1>3
  <2>2. SubSeq(x, 1, Len(x)) = x
    OBVIOUS
  <2>. QED  BY <2>1, <2>2
<1>5. ASSUME NEW k \in 0 .. Len(t) - 1, A(k) PROVE A(k + 1)
  <2>1. k \in 0 .. Len(t) /\ k + 1 \in 1 .. Len(t)
    BY <1>1
  <2>2. PICK x \in Seq(M!Bytes), y \in Seq(M!Bytes), e \in M!Bytes :
          x = p[j] /\ y = p[k] /\ e = t[k + 1]
    BY <1>3, <2>1
  <2>3. Len(x) =< Len(y) /\ SubSeq(y, 1, Len(x)) = x
    BY <1>5, <2>2
  <2>4. Len(Append(y, e)) = Len(y) + 1 /\ SubSeq(Append(y, e), 1, Len(x)) = SubSeq(y, 1, Len(x))
    BY <2>3
  <2>5. CASE p[k + 1] = y
    BY <2>2, <2>3, <2>5
  <2>6. CASE p[k + 1] = Append(y, e)
    <3>1. Len(x) =< Len(y) + 1
      BY <2>3
    <3>. QED  BY <2>2, <2>3, <2>4, <2>6, <3>1
  <2>. QED  BY <1>2, <2>2, <2>5, <2>6 DEF OneByOne
<1>. HIDE DEF A
<1>6. 0 \in Good /\ \A k \in 0 .. Len(t) - 1 : k \in Good => k + 1 \in Good
  <2>1. 0 \in Good
    BY <1>1, <1>4
  <2>2. ASSUME NEW k \in 0 .. Len(t) - 1, k \in Good PROVE k + 1 \in Good
    <3>1. k + 1 \in 0 .. Len(t) /\ (k + 1 >= j => k + 1 = j \/ k >= j)
      BY <1>1
    <3>. QED  BY <1>4, <1>5, <2>2, <3>1
  <2>. QED  BY <2>1, <2>2
<1>7. \A k \in Good : k >= j => A(k)
  OBVIOUS
<1>. HIDE DEF Good
<1>8. \A k \in 0 .. Len(t) : k \in Good
  BY <1>1, <1>6, Induction
<1>9. ASSUME NEW k \in j .. Len(t) PROVE A(k)
  <2>1. k \in 0 .. Len(t) /\ k >= j
    BY <1>1
  <2>. QED  BY <1>7, <1>8, <2>1
<1>. QED  BY <1>9 DEF A, p

\* the bytes the output accounts for, at any time
Accounted == IF pc = "entry" THEN 0 ELSE IF pc = "done" THEN Len(input) ELSE Done

OutputInv ==
  kernel \in MergeKernels =>
    /\ input \in Seq(M!Bytes) /\ Accounted \in 0 .. Len(input)
    /\ SubSeq(out, 1, dest) = Packed(input, Kept(input))[Accounted]

LEMMA OutputIsPacked ==
  ASSUME MergeInv
  PROVE  OutputInv
<1>. SUFFICES ASSUME kernel \in MergeKernels
              PROVE  /\ input \in Seq(M!Bytes) /\ Accounted \in 0 .. Len(input)
                     /\ SubSeq(out, 1, dest) = Packed(input, Kept(input))[Accounted]
  BY DEF OutputInv
<1>1. /\ input \in Seq(M!Bytes) /\ Len(input) \in Nat /\ out \in Seq(M!Bytes)
      /\ pc \in { "entry", "loop", "last", "done" }
  BY DEF MergeInv, M!TypeOK
<1>2. CASE pc = "entry"
  <2>1. OneByOne(Packed(input, Kept(input)), input, Kept(input))
    BY <1>1, PackedNext
  <2>2. dest = 0
    BY <1>2 DEF MergeInv, AtEntry
  <2>3. SubSeq(out, 1, 0) = << >>
    BY <1>1
  <2>4. Accounted = 0 /\ 0 \in 0 .. Len(input)
    BY <1>1, <1>2 DEF Accounted
  <2>5. Packed(input, Kept(input))[0] = << >>
    BY <2>1 DEF OneByOne
  <2>. QED  BY <1>1, <2>2, <2>3, <2>4, <2>5, Zenon
<1>3. CASE pc \in { "loop", "last" }
  <2>1. Accounted = Done
    BY <1>3 DEF Accounted
  <2>2. FrontMerged
    BY <1>3 DEF MergeInv
  <2>3. Done \in 0 .. Len(input)
    BY <1>3, DestBehind
  <2>. QED  BY <1>1, <2>1, <2>2, <2>3 DEF FrontMerged
<1>4. CASE pc = "done"
  <2>1. Accounted = Len(input) /\ Len(input) \in 0 .. Len(input)
    BY <1>1, <1>4 DEF Accounted
  <2>2. SubSeq(out, 1, dest) = M!ScalarMerge(input)
    BY <1>4 DEF MergeInv
  <2>3. M!ScalarMerge(input) = Packed(input, Kept(input))[Len(input)]
    BY <1>1, ScalarMergeIsKept
  <2>. QED  BY <1>1, <2>1, <2>2, <2>3, Zenon
<1>. QED  BY <1>1, <1>2, <1>3, <1>4

\* A step goes on with the call, accounts for no fewer bytes, and the call
\* stays finished.
GoesOn ==
  /\ kernel' = kernel /\ input' = input
  /\ Accounted =< Accounted'
  /\ pc = "done" => UNCHANGED << pc, out, dest >>

LEMMA MergeGoesOn ==
  ASSUME MergeInv, OutputInv, OutputInv', kernel \in MergeKernels, [Next]_vars
  PROVE  GoesOn
<1>1. /\ pc \in { "entry", "loop", "last", "done" } /\ src \in 0 .. Len(input)
      /\ Len(input) \in Nat /\ Accounted \in 0 .. Len(input)
      /\ n = Len(input) - src /\ Done =< src
      /\ kernel \notin T!Rvv8Kernels /\ kernel \notin T!Rvv16Kernels
  BY KernelFacts DEF MergeInv, OutputInv, M!TypeOK, M!Length, T!Kernels, Done
<1>2. kernel' = kernel /\ input' = input => Accounted' \in 0 .. Len(input)
  BY DEF OutputInv
<1>3. CASE UNCHANGED << kernel, input, pc, src, dest, out, n, last >>
  <2>1. Accounted' = Accounted
    BY <1>3 DEF Accounted, Done
  <2>. QED  BY <1>1, <1>3, <2>1 DEF GoesOn
<1>4. CASE pc = "entry" /\ kernel' = kernel /\ input' = input
  <2>1. Accounted = 0
    BY <1>4 DEF Accounted
  <2>. QED  BY <1>1, <1>2, <1>4, <2>1 DEF GoesOn
<1>5. CASE pc = "last" /\ pc' = "done" /\ kernel' = kernel /\ input' = input
  <2>1. Accounted' = Len(input)
    BY <1>5 DEF Accounted
  <2>. QED  BY <1>1, <1>5, <2>1 DEF GoesOn
<1>6. CASE /\ pc = "loop" /\ pc' \in { "loop", "last" } /\ kernel' = kernel /\ input' = input
           /\ \E k \in Nat : src' = src + k
  <2>1. Accounted = Done /\ Accounted' = Done'
    BY <1>6 DEF Accounted
  <2>2. PICK k \in Nat : src' = src + k
    BY <1>6
  <2>3. Done =< Done'
    BY <1>1, <1>6, <2>2 DEF Done
  <2>. QED  BY <1>6, <2>1, <2>3 DEF GoesOn
<1>7. CASE M!EnterVslide \/ M!EnterMshift \/ M!EnterMshiftShort
  BY <1>4, <1>7 DEF M!EnterVslide, M!EnterMshift, M!EnterMshiftShort
<1>8. CASE M!LastVslide \/ M!LastMshift
  BY <1>5, <1>8 DEF M!LastVslide, M!LastMshift
<1>9. CASE M!ChunkVslide
  <2>1. PICK vl \in M!LegalVl(n, VLMAX) : M!AdvanceBy(vl, M!KeptVslide(vl))
    BY <1>9 DEF M!ChunkVslide
  <2>2. vl \in Nat
    BY VlmaxAssumption DEF M!LegalVl
  <2>. QED  BY <1>6, <1>9, <2>1, <2>2 DEF M!ChunkVslide, M!AdvanceBy
<1>10. CASE M!ChunkMshift
  <2>1. PICK vl \in M!LegalVl(n, VLMAX) :
          M!AdvanceBy(vl + M!Skipped(vl, Len(M!KeptMshift(vl))), M!KeptMshift(vl))
    BY <1>10 DEF M!ChunkMshift
  <2>2. kernel \in M!MshiftVariants /\ pc = "loop"
    BY <1>10 DEF M!ChunkMshift
  <2>3. n \in Nat \ {0}
    BY <1>1, <2>2, KernelFacts DEF MergeInv, MshiftInv
  <2>4. vl \in 1 .. n
    BY <2>1, <2>3, LegalVlFacts
  <2>5. (vl - Len(M!KeptMshift(vl))) % 2 \in 0 .. 1
    BY <2>2, <2>4, MshiftKeeps
  <2>6. vl + M!Skipped(vl, Len(M!KeptMshift(vl))) \in Nat
    BY <2>3, <2>4, <2>5 DEF M!Skipped
  <2>. QED  BY <1>6, <1>10, <2>1, <2>6 DEF M!ChunkMshift, M!AdvanceBy
<1>11. CASE T!Next /\ UNCHANGED last
  <2>1. UNCHANGED T!uvars
    BY <1>1, <1>11, TranscoderSteps DEF TranscoderOnly
  <2>. QED  BY <1>3, <1>11, <2>1 DEF T!uvars
<1>12. CASE M!Terminating
  BY <1>3, <1>12 DEF M!Terminating, M!vars
<1>13. CASE UNCHANGED vars
  BY <1>3, <1>13 DEF vars
<1>. QED  BY <1>7, <1>8, <1>9, <1>10, <1>11, <1>12, <1>13 DEF Next, M!Next

\* What is written, w, grows as the beginning of the result.
LEMMA MergeGrows ==
  ASSUME MergeInv, OutputInv, OutputInv', kernel \in MergeKernels, [Next]_vars
  PROVE  /\ Abstract!IsPrefix(SubSeq(out, 1, dest), SubSeq(out, 1, dest)')
         /\ Abstract!IsPrefix(SubSeq(out, 1, dest)', M!ScalarMerge(input))
<1>1. GoesOn
  BY MergeGoesOn
<1>2. /\ input \in Seq(M!Bytes) /\ Len(input) \in Nat /\ Accounted \in 0 .. Len(input)
      /\ SubSeq(out, 1, dest) = Packed(input, Kept(input))[Accounted]
  BY DEF OutputInv
<1>3. /\ Accounted' \in Accounted .. Len(input)
      /\ SubSeq(out, 1, dest)' = Packed(input, Kept(input))[Accounted']
  <2>1. /\ Accounted' \in 0 .. Len(input')
        /\ SubSeq(out, 1, dest)' = Packed(input', Kept(input'))[Accounted']
    BY <1>1 DEF OutputInv, GoesOn
  <2>. QED  BY <1>1, <1>2, <2>1 DEF GoesOn
<1>4. M!ScalarMerge(input) = Packed(input, Kept(input))[Len(input)]
  BY <1>2, ScalarMergeIsKept
<1>5. PICK p : p = Packed(input, Kept(input))
  OBVIOUS
<1>6. \A k \in 0 .. Len(input) : p[k] \in Seq(M!Bytes)
  <2>1. \A mm : \A k \in 0 .. Len(input) : Packed(input, mm)[k] \in Seq(M!Bytes)
    BY <1>2, PackedType
  <2>. QED  BY <1>5, <2>1
<1>7. \A j \in 0 .. Len(input) : \A k \in j .. Len(input) : Abstract!IsPrefix(p[j], p[k])
  <2>1. SUFFICES ASSUME NEW j \in 0 .. Len(input), NEW k \in j .. Len(input)
                 PROVE  Abstract!IsPrefix(p[j], p[k])
    OBVIOUS
  <2>2. k \in 0 .. Len(input)
    BY <1>2, <2>1
  <2>3. PICK a \in Seq(M!Bytes), b \in Seq(M!Bytes) : a = p[j] /\ b = p[k]
    BY <1>6, <2>1, <2>2
  <2>4. Len(a) =< Len(b) /\ SubSeq(b, 1, Len(a)) = a
    <3>1. Len(p[j]) =< Len(p[k]) /\ SubSeq(p[k], 1, Len(p[j])) = p[j]
      BY <1>2, <1>5, <2>1, PackedGrows
    <3>. QED  BY <2>3, <3>1
  <2>5. SubSeq(a, 1, Len(a)) = a
    OBVIOUS
  <2>6. Abstract!IsPrefix(a, b)
    BY <2>4, <2>5 DEF Abstract!IsPrefix
  <2>. QED  BY <2>3, <2>6
<1>8. Abstract!IsPrefix(p[Accounted], p[Accounted'])
  BY <1>2, <1>3, <1>7
<1>9. Abstract!IsPrefix(p[Accounted'], p[Len(input)])
  <2>1. Accounted' \in 0 .. Len(input) /\ Len(input) \in Accounted' .. Len(input)
    BY <1>2, <1>3
  <2>. QED  BY <1>7, <2>1
<1>. QED  BY <1>2, <1>3, <1>4, <1>5, <1>8, <1>9, Zenon

\* What InOrderOutput says of a step, for the kernels of mergelines.
MergeWrites ==
  kernel \in MergeKernels => Abstract!Write \/ UNCHANGED Abstract!vars

LEMMA MergeWritesStep ==
  ASSUME MergeInv, MergeInv', OutputInv, OutputInv', [Next]_vars
  PROVE  MergeWrites
<1>. SUFFICES ASSUME kernel \in MergeKernels
              PROVE  Abstract!Write \/ UNCHANGED Abstract!vars
  BY DEF MergeWrites
<1>1. GoesOn
  BY MergeGoesOn
<1>2. CASE pc = "done"
  BY <1>1, <1>2 DEF GoesOn, Abstract!vars
<1>3. CASE pc # "done"
  <2>1. /\ Abstract!IsPrefix(SubSeq(out, 1, dest), SubSeq(out, 1, dest)')
        /\ Abstract!IsPrefix(SubSeq(out, 1, dest)', M!ScalarMerge(input))
    BY MergeGrows
  <2>2. pc' = "done" => SubSeq(out, 1, dest)' = M!ScalarMerge(input)
    BY <1>1 DEF MergeInv, GoesOn
  <2>3. (pc = "done")' \in { FALSE, SubSeq(out, 1, dest)' = M!ScalarMerge(input) }
    BY <2>2
  <2>4. Abstract!Write
    BY <1>1, <1>3, <2>1, <2>3 DEF Abstract!Write, GoesOn
  <2>. QED  BY <2>4
<1>. QED  BY <1>2, <1>3

\* The same step by step: in a call of a mergelines kernel the output is the
\* beginning of what mergelines_scalar makes of the text, grows, is never
\* taken back, and is all of it on return.  These are the initial states and
\* the steps of InOrderOutput; that the call returns is left to the run.
THEOREM MergeImplementsInOrderOutput ==
  Spec /\ kernel \in MergeKernels =>
    Abstract!Init /\ [][Abstract!Write]_(Abstract!vars)
<1>1. Init /\ kernel \in MergeKernels => Abstract!Init
  <2>1. SUFFICES ASSUME Init, kernel \in MergeKernels
                 PROVE  Abstract!Init
    OBVIOUS
  <2>2. MergeInv
    BY <2>1, MergeInit
  <2>3. M!Init
    BY <2>1, KernelFacts DEF Init, T!Init
  <2>4. pc = "entry" /\ dest = 0
    BY <2>3 DEF M!Init
  <2>5. SubSeq(out, 1, 0) = << >>
    BY <2>1, <2>2 DEF MergeInv, M!TypeOK
  <2>. QED  BY <2>1, <2>4, <2>5 DEF Abstract!Init
<1>2. MergeInv => OutputInv
  BY OutputIsPacked
<1>3. ASSUME MergeInv, MergeInv', OutputInv, OutputInv', kernel \in MergeKernels, [Next]_vars
      PROVE  (kernel \in MergeKernels)' /\ [Abstract!Write]_(Abstract!vars)
  <2>1. Abstract!Write \/ UNCHANGED Abstract!vars
    BY <1>3, MergeWritesStep DEF MergeWrites
  <2>2. kernel' = kernel
    BY <1>3, MergeGoesOn DEF GoesOn
  <2>3. MergeKernels' = MergeKernels
    BY DEF MergeKernels, M!VslideVariants, M!MshiftVariants
  <2>. QED  BY <1>3, <2>1, <2>2, <2>3
<1>. QED  BY <1>1, <1>2, <1>3, MergeInvariant, PTL DEF Spec

-----------------------------------------------------------------------------
(* The transcoders.  Characters and their units.                           *)

(* Unicode.                                                                *)

LEMMA UnicodeNumbers == T!BeyondTwoBytes = 65536 /\ T!LastCharacter = 1114111
BY SMT DEF T!BeyondTwoBytes, T!LastCharacter

LEMMA CharacterFacts ==
  ASSUME NEW c \in Int
  PROVE  T!IsCharacter(c) <=> c >= 0 /\ c =< 1114111 /\ (c < 55296 \/ c > 57343)
<1>1. T!LastCharacter \in Nat
  BY SMT DEF T!LastCharacter
<1>2. T!IsCharacter(c) <=> c >= 0 /\ c =< T!LastCharacter /\ (c < 55296 \/ c > 57343)
  BY <1>1, SMT DEF T!IsCharacter
<1>. QED  BY <1>2, UnicodeNumbers, SMT

LEMMA SurrogateFacts ==
  ASSUME NEW c \in Int
  PROVE  T!IsSurrogate(c) <=> c >= 55296 /\ c =< 57343
BY SMT DEF T!IsSurrogate

\* the bits of a character in bytes
Two(c)   == << 192 + c \div 64, 128 + (c % 64) >>
Three(c) == << 224 + c \div 4096, 128 + ((c \div 64) % 64), 128 + (c % 64) >>
Four(c)  == << 240 + c \div 262144, 128 + ((c \div 4096) % 64),
               128 + ((c \div 64) % 64), 128 + (c % 64) >>

LEMMA Utf8Is ==
  ASSUME NEW c \in Nat
  PROVE  /\ c < 128 => T!Utf8(c) = << c >>
         /\ c >= 128 /\ c < 2048 => T!Utf8(c) = Two(c)
         /\ c >= 2048 /\ c < 65536 => T!Utf8(c) = Three(c)
         /\ c >= 65536 => T!Utf8(c) = Four(c)
<1>1. c \div 1 = c
  BY SMT
<1>2. T!BeyondTwoBytes \in Nat /\ T!BeyondTwoBytes = 65536
  BY SMT DEF T!BeyondTwoBytes
<1>3. c < 128 => T!Utf8(c) = << c >>
  BY <1>2, SMT DEF T!Utf8
<1>4. c >= 128 /\ c < 2048 => T!Utf8(c) = Two(c)
  BY <1>1, <1>2, SMT DEF T!Utf8, Two
<1>5. c >= 2048 /\ c < 65536 => T!Utf8(c) = Three(c)
  BY <1>1, <1>2, SMT DEF T!Utf8, Three
<1>6. c >= 65536 => T!Utf8(c) = Four(c)
  BY <1>1, <1>2, SMT DEF T!Utf8, Four
<1>. QED  BY <1>3, <1>4, <1>5, <1>6, SMT

LEMMA Utf16Is ==
  ASSUME NEW c \in Nat
  PROVE  /\ c < 65536 => T!Utf16(c) = << c >>
         /\ c >= 65536 =>
              T!Utf16(c) = << 55296 + (c - 65536) \div 1024, 56320 + (c % 1024) >>
BY SMT DEF T!Utf16, T!BeyondTwoBytes

Forms == { "utf8", "utf16", "utf32" }

\* the units of a character, by the first of them
Leading(form, b) ==
  CASE form = "utf8"  -> T!Length8(b)
    [] form = "utf16" -> (IF T!IsSurrogate(b) THEN 2 ELSE 1)
    [] form = "utf32" -> 1

LEMMA Length8Is ==
  ASSUME NEW b \in Nat
  PROVE  /\ b < 128 => T!Length8(b) = 1
         /\ b >= 128 /\ b < 192 => T!Length8(b) = 0
         /\ b >= 192 /\ b < 224 => T!Length8(b) = 2
         /\ b >= 224 /\ b < 240 => T!Length8(b) = 3
         /\ b >= 240 /\ b < 248 => T!Length8(b) = 4
         /\ b >= 248 => T!Length8(b) = 0
BY DEF T!Length8

LEMMA EncodedFacts ==
  ASSUME NEW form \in Forms, NEW c \in Nat, T!IsCharacter(c)
  PROVE  /\ T!Encoded(form, c) \in Seq(Nat)
         /\ Len(T!Encoded(form, c)) \in 1 .. 4
         /\ Len(T!Encoded(form, c)) = Leading(form, T!Encoded(form, c)[1])
<1>. DEFINE P(x) == x \in Seq(Nat) /\ Len(x) \in 1 .. 4 /\ Len(x) = Leading(form, x[1])
<1>0. c =< 1114111 /\ (c < 55296 \/ c > 57343)
  BY CharacterFacts
<1>1. CASE form = "utf8"
  <2>1. T!Encoded(form, c) = T!Utf8(c)
    BY <1>1 DEF T!Encoded
  <2>2. \A b : Leading(form, b) = T!Length8(b)
    BY <1>1 DEF Leading
  <2>3. CASE c < 128
    <3>1. T!Utf8(c) = << c >> /\ T!Length8(c) = 1
      BY <2>3, Utf8Is, Length8Is
    <3>. QED  BY <2>1, <2>2, <3>1
  <2>4. CASE c >= 128 /\ c < 2048
    <3>1. PICK a, b \in Nat : a = 192 + c \div 64 /\ b = 128 + (c % 64)
      OBVIOUS
    <3>2. a >= 192 /\ a < 224
      BY <2>4, <3>1
    <3>3. T!Utf8(c) = Two(c)
      BY <2>4, Utf8Is, SMT
    <3>4. T!Length8(a) = 2
      BY <3>2, Length8Is
    <3>. QED  BY <2>1, <2>2, <3>1, <3>3, <3>4 DEF Two
  <2>5. CASE c >= 2048 /\ c < 65536
    <3>1. PICK a, b, d \in Nat : /\ a = 224 + c \div 4096 /\ b = 128 + ((c \div 64) % 64)
                                 /\ d = 128 + (c % 64)
      OBVIOUS
    <3>2. a >= 224 /\ a < 240
      BY <2>5, <3>1, SMT
    <3>3. T!Utf8(c) = << a, b, d >> /\ T!Length8(a) = 3
      BY <2>5, <3>1, <3>2, Utf8Is, Length8Is, SMT DEF Three
    <3>. QED  BY <2>1, <2>2, <3>3
  <2>6. CASE c >= 65536
    <3>1. PICK a, b, d, e \in Nat :
            /\ a = 240 + c \div 262144 /\ b = 128 + ((c \div 4096) % 64)
            /\ d = 128 + ((c \div 64) % 64) /\ e = 128 + (c % 64)
      BY SMT
    <3>2. a >= 240 /\ a < 248
      BY <1>0, <3>1, SMT
    <3>3. T!Utf8(c) = << a, b, d, e >> /\ T!Length8(a) = 4
      BY <2>6, <3>1, <3>2, Utf8Is, Length8Is, SMT DEF Four
    <3>. QED  BY <2>1, <2>2, <3>3
  <2>. QED  BY <2>3, <2>4, <2>5, <2>6, SMT
<1>2. CASE form = "utf16"
  <2>1. T!Encoded(form, c) = T!Utf16(c)
    BY <1>2 DEF T!Encoded
  <2>2. \A b : Leading(form, b) = IF T!IsSurrogate(b) THEN 2 ELSE 1
    BY <1>2 DEF Leading
  <2>3. CASE c < 65536
    <3>1. T!Utf16(c) = << c >>
      BY <2>3, Utf16Is, SMT
    <3>2. ~T!IsSurrogate(c)
      BY <1>0, SurrogateFacts, SMT
    <3>. QED  BY <2>1, <2>2, <3>1, <3>2
  <2>4. CASE c >= 65536
    <3>1. PICK a, b \in Nat : /\ a = 55296 + (c - 65536) \div 1024
                              /\ b = 56320 + (c % 1024)
      BY <2>4, SMT
    <3>2. T!Utf16(c) = << a, b >>
      BY <2>4, <3>1, Utf16Is, SMT
    <3>3. T!IsSurrogate(a)
      <4>1. a >= 55296 /\ a =< 57343
        BY <1>0, <2>4, <3>1, SMT
      <4>. QED  BY <4>1, SurrogateFacts
    <3>. QED  BY <2>1, <2>2, <3>2, <3>3
  <2>. QED  BY <2>3, <2>4, SMT
<1>3. CASE form = "utf32"
  BY <1>3 DEF T!Encoded, Leading
<1>. QED  BY <1>1, <1>2, <1>3 DEF Forms

\* Units that are a character are all that encoding it gives.
LEMMA EncodesFacts ==
  ASSUME NEW form \in Forms, NEW u, T!Encodes(form, u)
  PROVE  /\ T!Payload(form, u) \in Nat
         /\ T!IsCharacter(T!Payload(form, u))
         /\ T!Encoded(form, T!Payload(form, u)) = u
         /\ Len(u) = Leading(form, u[1]) /\ Len(u) \in 1 .. 4
<1>. DEFINE c == T!Payload(form, u)
<1>1. T!IsCharacter(c) /\ T!Encoded(form, c) = u
  BY DEF T!Encodes
<1>. HIDE DEF c
<1>2. c \in Nat
  <2>1. T!LastCharacter \in Nat
    BY SMT DEF T!LastCharacter
  <2>. QED  BY <1>1, <2>1 DEF T!IsCharacter
<1>3. /\ T!Encoded(form, c) \in Seq(Nat)
      /\ Len(T!Encoded(form, c)) \in 1 .. 4
      /\ Len(T!Encoded(form, c)) = Leading(form, T!Encoded(form, c)[1])
  BY <1>1, <1>2, EncodedFacts
<1>. QED  BY <1>1, <1>2, <1>3 DEF c

-----------------------------------------------------------------------------
(* The text from a unit on.                                                *)

(* A text, from any unit on.                                               *)

Piece(u, i, k) == SubSeq(u, i, i + k - 1)

\* the lengths of the characters that are at unit i
FitsAt(form, u, i) ==
  { k \in 1 .. 4 : i + k - 1 =< Len(u) /\ T!Encodes(form, Piece(u, i, k)) }

Converted(from, to, u, i, k) == T!Encoded(to, T!Payload(from, Piece(u, i, k)))

\* what Transcoded makes of u from unit i on, if f is what it makes of what follows
RestAt(from, to, u, i, f) ==
  IF i > Len(u) THEN << >>
  ELSE CHOOSE s \in { Converted(from, to, u, i, k) \o f[i + k] : k \in FitsAt(from, u, i) }
                    \cup (IF FitsAt(from, u, i) = {} THEN {<< T!Malformed >>} ELSE {}) : TRUE

\* the fixpoint Transcoded takes the first element of
Rest(from, to, u) ==
  CHOOSE f : f = [i \in 1 .. Len(u) + 1 |-> RestAt(from, to, u, i, f)]

LEMMA TranscodedIsRest ==
  ASSUME NEW from, NEW to, NEW u
  PROVE  T!Transcoded(from, to, u) = Rest(from, to, u)[1]
BY DEF T!Transcoded, Rest, RestAt, FitsAt, Converted, Piece

LEMMA RestAtFollows ==
  ASSUME NEW from, NEW to, NEW u, NEW i, NEW f, NEW g,
         \A k \in FitsAt(from, u, i) : f[i + k] = g[i + k]
  PROVE  RestAt(from, to, u, i, f) = RestAt(from, to, u, i, g)
<1>1. { Converted(from, to, u, i, k) \o f[i + k] : k \in FitsAt(from, u, i) }
      = { Converted(from, to, u, i, k) \o g[i + k] : k \in FitsAt(from, u, i) }
  OBVIOUS
<1>. DEFINE S(h) == { Converted(from, to, u, i, k) \o h[i + k] : k \in FitsAt(from, u, i) }
            Bad == IF FitsAt(from, u, i) = {} THEN {<< T!Malformed >>} ELSE {}
<1>2. \A h : RestAt(from, to, u, i, h) =
              IF i > Len(u) THEN << >> ELSE CHOOSE s \in S(h) \cup Bad : TRUE
  BY DEF RestAt
<1>3. S(f) = S(g)
  BY <1>1
<1>. HIDE DEF S, Bad
<1>. QED  BY <1>2, <1>3

LEMMA RestExists ==
  ASSUME NEW from, NEW to, NEW u, Len(u) \in Nat
  PROVE  \A i \in 1 .. Len(u) + 1 :
           Rest(from, to, u)[i] = RestAt(from, to, u, i, Rest(from, to, u))
<1>. DEFINE E(f, i) == RestAt(from, to, u, i, f)
            Top == Len(u) + 1
            Fixed(f, m) == f = [i \in Top - m .. Top |-> E(f, i)]
            Good == { m \in 0 .. Len(u) : \E f : Fixed(f, m) }
<1>0. \A i, k : k \in FitsAt(from, u, i) => k \in 1 .. 4 /\ i + k - 1 =< Len(u)
  BY DEF FitsAt
<1>1. Len(u) \in Nat
  OBVIOUS
<1>2. Fixed([i \in Top - 0 .. Top |-> << >>], 0)
  BY <1>1 DEF RestAt
<1>3. ASSUME NEW m \in 0 .. Len(u) - 1, NEW f, Fixed(f, m)
      PROVE  \E g : Fixed(g, m + 1)
  <2>. DEFINE a == Top - (m + 1)
              g == [i \in a .. Top |-> IF i > a THEN f[i] ELSE E(f, a)]
  <2>1. a \in 1 .. Len(u) /\ \A i \in a + 1 .. Top : i \in Top - m .. Top
    BY <1>1
  <2>2. \A i \in a + 1 .. Top : f[i] = E(f, i)
    BY <1>3, <2>1
  <2>3. g[a] = E(f, a) /\ \A i \in a + 1 .. Top : g[i] = f[i]
    BY <1>1, <2>1
  <2>4. g = [i \in a .. Top |-> g[i]]
    OBVIOUS
  <2>. HIDE DEF g
  <2>5. ASSUME NEW i \in a .. Top PROVE g[i] = E(g, i)
    <3>1. \A k \in FitsAt(from, u, i) : i + k \in a + 1 .. Top
      BY <1>0, <1>1, <2>1, SMTT(30)
    <3>2. E(g, i) = E(f, i)
      <4>1. \A k \in FitsAt(from, u, i) : g[i + k] = f[i + k]
        BY <2>3, <3>1
      <4>. QED  BY <4>1, RestAtFollows
    <3>3. i = a \/ i \in a + 1 .. Top
      BY <1>1, <2>1
    <3>. HIDE DEF E, a
    <3>. QED  BY <2>2, <2>3, <3>2, <3>3
  <2>. HIDE DEF E
  <2>6. g = [i \in a .. Top |-> E(g, i)]
    BY <2>4, <2>5
  <2>. QED  BY <2>6
<1>4. Rest(from, to, u) = CHOOSE f : Fixed(f, Len(u))
  <2>1. Top - Len(u) = 1
    BY <1>1
  <2>2. ASSUME NEW f
        PROVE  [i \in 1 .. Len(u) + 1 |-> RestAt(from, to, u, i, f)]
               = [i \in Top - Len(u) .. Top |-> E(f, i)]
    BY <2>1
  <2>. HIDE DEF E
  <2>. QED  BY <2>2 DEF Rest
<1>. HIDE DEF Fixed
<1>5. 0 \in Good /\ \A m \in 0 .. Len(u) - 1 : m \in Good => m + 1 \in Good
  BY <1>1, <1>2, <1>3
<1>6. \A m \in Good : \E f : Fixed(f, m)
  OBVIOUS
<1>. HIDE DEF Good
<1>7. \A m \in 0 .. Len(u) : m \in Good
  BY <1>1, <1>5, Induction
<1>8. \E f : Fixed(f, Len(u))
  BY <1>1, <1>6, <1>7
<1>9. Fixed(Rest(from, to, u), Len(u))
  BY <1>4, <1>8
<1>10. Top - Len(u) = 1
  BY <1>1
<1>. HIDE DEF E
<1>11. \A i \in 1 .. Len(u) + 1 : Rest(from, to, u)[i] = E(Rest(from, to, u), i)
  BY <1>9, <1>10 DEF Fixed
<1>. QED  BY <1>11 DEF E

\* No more than one character is at a place, and is all of its length there.
LEMMA OneFits ==
  ASSUME NEW form \in Forms, NEW u \in Seq(Nat), NEW i \in 1 .. Len(u),
         NEW k \in FitsAt(form, u, i)
  PROVE  /\ k \in 1 .. 4 /\ i + k - 1 =< Len(u) /\ k = Leading(form, u[i])
         /\ FitsAt(form, u, i) = {k}
         /\ Converted(form, "utf32", u, i, k) = << T!Payload(form, Piece(u, i, k)) >>
         /\ T!Payload(form, Piece(u, i, k)) \in Nat
         /\ \A to \in Forms : /\ Converted(form, to, u, i, k) \in Seq(Nat)
                              /\ Converted(form, to, u, i, k) # << >>
<1>1. ASSUME NEW l \in FitsAt(form, u, i)
      PROVE  l \in 1 .. 4 /\ i + l - 1 =< Len(u) /\ l = Leading(form, u[i])
  <2>1. l \in 1 .. 4 /\ i + l - 1 =< Len(u) /\ T!Encodes(form, Piece(u, i, l))
    BY DEF FitsAt
  <2>2. Len(Piece(u, i, l)) = l /\ Piece(u, i, l)[1] = u[i]
    <3>1. PICK j \in Nat : j = i + l - 1 /\ i =< j /\ j =< Len(u)
      BY <2>1
    <3>2. \A x \in i .. j : u[x] \in Nat
      BY <3>1
    <3>3. Len(SubSeq(u, i, j)) = j - i + 1 /\ SubSeq(u, i, j)[1] = u[i]
      BY <3>1, <3>2
    <3>. QED  BY <2>1, <3>1, <3>3 DEF Piece
  <2>. QED  BY <2>1, <2>2, EncodesFacts
<1>2. FitsAt(form, u, i) = {k}
  BY <1>1
<1>3. T!Encodes(form, Piece(u, i, k))
  BY DEF FitsAt
<1>. DEFINE c == T!Payload(form, Piece(u, i, k))
<1>4. c \in Nat /\ T!IsCharacter(c)
  BY <1>3, EncodesFacts
<1>. HIDE DEF c
<1>5. ASSUME NEW to \in Forms
      PROVE  T!Encoded(to, c) \in Seq(Nat) /\ T!Encoded(to, c) # << >>
  <2>1. T!Encoded(to, c) \in Seq(Nat) /\ Len(T!Encoded(to, c)) \in 1 .. 4
    BY <1>4, EncodedFacts
  <2>2. \A x : x = << >> => Len(x) = 0
    OBVIOUS
  <2>3. ~(0 \in 1 .. 4)
    OBVIOUS
  <2>. QED  BY <2>1, <2>2, <2>3, Zenon
<1>6. T!Encoded("utf32", c) = << c >>
  BY DEF T!Encoded
<1>. QED  BY <1>1, <1>2, <1>4, <1>5, <1>6 DEF Converted, c

LEMMA RestStep ==
  ASSUME NEW form \in Forms, NEW to \in Forms, NEW u \in Seq(Nat), NEW i \in 1 .. Len(u) + 1
  PROVE  /\ i > Len(u) => Rest(form, to, u)[i] = << >>
         /\ i =< Len(u) /\ FitsAt(form, u, i) = {} =>
              Rest(form, to, u)[i] = << T!Malformed >>
         /\ i =< Len(u) => \A k \in FitsAt(form, u, i) :
              Rest(form, to, u)[i] =
                Converted(form, to, u, i, k) \o Rest(form, to, u)[i + k]
<1>. DEFINE r == Rest(form, to, u)
<1>1. Len(u) \in Nat
  OBVIOUS
<1>2. r[i] = RestAt(form, to, u, i, r)
  BY <1>1, RestExists
<1>. HIDE DEF r
<1>3. i > Len(u) => r[i] = << >>
  BY <1>2 DEF RestAt
<1>4. ASSUME i =< Len(u), FitsAt(form, u, i) = {}
      PROVE  r[i] = << T!Malformed >>
  <2>1. RestAt(form, to, u, i, r) = CHOOSE s \in {<< T!Malformed >>} : TRUE
    BY <1>1, <1>4 DEF RestAt
  <2>. QED  BY <1>2, <2>1
<1>5. ASSUME i =< Len(u), NEW k \in FitsAt(form, u, i)
      PROVE  r[i] = Converted(form, to, u, i, k) \o r[i + k]
  <2>1. FitsAt(form, u, i) = {k}
    <3>1. i \in 1 .. Len(u)
      BY <1>1, <1>5
    <3>. QED  BY <3>1, OneFits
  <2>2. { Converted(form, to, u, i, l) \o r[i + l] : l \in {k} }
        = { Converted(form, to, u, i, k) \o r[i + k] }
    OBVIOUS
  <2>3. RestAt(form, to, u, i, r) =
          CHOOSE s \in { Converted(form, to, u, i, k) \o r[i + k] } : TRUE
    <3>1. ~(i > Len(u)) /\ {k} # {}
      BY <1>1, <1>5
    <3>. QED  BY <2>1, <2>2, <3>1, Zenon DEF RestAt
  <2>. QED  BY <1>2, <2>3
<1>. QED  BY <1>3, <1>4, <1>5 DEF r

LEMMA Downwards ==
  ASSUME NEW l \in Nat, NEW S, l + 1 \in S,
         \A i \in 1 .. l : (\A j \in i + 1 .. l + 1 : j \in S) => i \in S
  PROVE  \A i \in 1 .. l + 1 : i \in S
<1>. DEFINE Good == { m \in 0 .. l : \A j \in (l + 1) - m .. l + 1 : j \in S }
<1>1. 0 \in Good
  OBVIOUS
<1>2. ASSUME NEW m \in 0 .. l - 1, m \in Good PROVE m + 1 \in Good
  <2>. DEFINE i == (l + 1) - (m + 1)
  <2>1. i \in 1 .. l /\ \A j \in i + 1 .. l + 1 : j \in S
    BY <1>2
  <2>2. i \in S
    BY <2>1
  <2>3. \A j \in i .. l + 1 : j \in S
    <3>1. \A j \in i .. l + 1 : j = i \/ j \in i + 1 .. l + 1
      BY <2>1
    <3>. HIDE DEF i
    <3>. QED  BY <2>1, <2>2, <3>1
  <2>. QED  BY <2>3
<1>3. \A m \in Good : \A j \in (l + 1) - m .. l + 1 : j \in S
  OBVIOUS
<1>. HIDE DEF Good
<1>4. l \in Good
  <2>1. \A m \in 0 .. l : m \in Good
    BY <1>1, <1>2, Induction
  <2>. QED  BY <2>1
<1>. QED  BY <1>3, <1>4

LEMMA RestType ==
  ASSUME NEW form \in Forms, NEW to \in Forms, NEW u \in Seq(Nat)
  PROVE  \A i \in 1 .. Len(u) + 1 : Rest(form, to, u)[i] \in Seq(Int)
<1>. DEFINE r == Rest(form, to, u)
            Z == Seq(Int)
            S == { i \in 1 .. Len(u) + 1 : r[i] \in Z }
<1>0. Len(u) \in Nat
  OBVIOUS
<1>. HIDE DEF r, Z
<1>1. Len(u) + 1 \in S
  <2>1. r[Len(u) + 1] = << >>
    BY <1>0, RestStep DEF r
  <2>2. << >> \in Z
    BY EmptySeq DEF Z
  <2>. QED  BY <1>0, <2>1, <2>2
<1>2. ASSUME NEW i \in 1 .. Len(u), \A j \in i + 1 .. Len(u) + 1 : j \in S
      PROVE  i \in S
  <2>1. CASE FitsAt(form, u, i) = {}
    <3>1. r[i] = << T!Malformed >>
      BY <1>0, <2>1, RestStep DEF r
    <3>2. T!Malformed \in Int
      BY DEF T!Malformed
    <3>3. << T!Malformed >> \in Z
      BY <3>2 DEF Z
    <3>. QED  BY <1>0, <3>1, <3>3
  <2>2. CASE \E k : k \in FitsAt(form, u, i)
    <3>1. PICK k \in FitsAt(form, u, i) : TRUE
      BY <2>2
    <3>2. i + k \in i + 1 .. Len(u) + 1 /\ Converted(form, to, u, i, k) \in Seq(Nat)
      <4>1. k \in 1 .. 4 /\ i + k - 1 =< Len(u) /\ Converted(form, to, u, i, k) \in Seq(Nat)
        BY <3>1, OneFits
      <4>. QED  BY <1>0, <4>1
    <3>3. r[i] = Converted(form, to, u, i, k) \o r[i + k]
      <4>1. i \in 1 .. Len(u) + 1 /\ i =< Len(u)
        BY <1>0
      <4>. QED  BY <3>1, <4>1, RestStep DEF r
    <3>4. r[i + k] \in Seq(Int)
      BY <1>2, <3>2 DEF Z
    <3>5. PICK a \in Seq(Int), b \in Seq(Int) : a = Converted(form, to, u, i, k) /\ b = r[i + k]
      BY <3>2, <3>4, SeqMonotonic
    <3>6. a \o b \in Z
      BY DEF Z
    <3>7. r[i] \in Z
      BY <3>3, <3>5, <3>6
    <3>8. i \in 1 .. Len(u) + 1
      BY <1>0
    <3>. QED  BY <3>7, <3>8
  <2>. QED  BY <2>1, <2>2
<1>3. \A i \in S : r[i] \in Z
  OBVIOUS
<1>. HIDE DEF S
<1>4. \A i \in 1 .. Len(u) + 1 : i \in S
  BY <1>0, <1>1, <1>2, Downwards
<1>. QED  BY <1>3, <1>4 DEF r, Z

\* no place from unit i on is malformed
Sound(form, u, i) ==
  \A x \in DOMAIN Rest(form, "utf32", u)[i] : Rest(form, "utf32", u)[i][x] # T!Malformed

LEMMA Consed ==
  ASSUME NEW c \in Nat, NEW b \in Seq(Int)
  PROVE  /\ DOMAIN (<< c >> \o b) = 1 .. Len(b) + 1 /\ DOMAIN b = 1 .. Len(b)
         /\ Len(b) \in Nat /\ (<< c >> \o b)[1] = c
         /\ \A x \in 1 .. Len(b) : (<< c >> \o b)[x + 1] = b[x]
<1>1. << c >> \in Seq(Int) /\ Len(<< c >>) = 1 /\ << c >>[1] = c
  OBVIOUS
<1>2. PICK d \in Seq(Int) : d = << c >>
  BY <1>1
<1>3. /\ DOMAIN (d \o b) = 1 .. Len(d) + Len(b) /\ Len(b) \in Nat
      /\ \A x \in 1 .. Len(d) : (d \o b)[x] = d[x]
      /\ \A x \in 1 .. Len(b) : (d \o b)[x + Len(d)] = b[x]
  BY SMTT(30)
<1>4. DOMAIN b = 1 .. Len(b)
  OBVIOUS
<1>. QED  BY <1>1, <1>2, <1>3, <1>4

LEMMA SoundStep ==
  ASSUME NEW form \in Forms, NEW u \in Seq(Nat)
  PROVE  /\ Sound(form, u, Len(u) + 1)
         /\ \A i \in 1 .. Len(u) :
              Sound(form, u, i) <=> \E k \in FitsAt(form, u, i) : Sound(form, u, i + k)
<1>0. Len(u) \in Nat /\ "utf32" \in Forms
  BY DEF Forms
<1>. DEFINE r == Rest(form, "utf32", u)
<1>1. Sound(form, u, Len(u) + 1)
  <2>1. Len(u) + 1 \in 1 .. Len(u) + 1 /\ Len(u) + 1 > Len(u)
    BY <1>0
  <2>2. r[Len(u) + 1] = << >>
    BY <1>0, <2>1, RestStep
  <2>. QED  BY <2>2 DEF Sound
<1>2. ASSUME NEW i \in 1 .. Len(u)
      PROVE  Sound(form, u, i) <=> \E k \in FitsAt(form, u, i) : Sound(form, u, i + k)
  <2>0. i \in 1 .. Len(u) + 1 /\ i =< Len(u)
    BY <1>0
  <2>1. CASE FitsAt(form, u, i) = {}
    <3>1. r[i] = << T!Malformed >>
      BY <1>0, <2>0, <2>1, RestStep
    <3>2. 1 \in DOMAIN r[i] /\ r[i][1] = T!Malformed
      BY <3>1
    <3>. QED  BY <2>1, <3>2 DEF Sound
  <2>2. CASE FitsAt(form, u, i) # {}
    <3>1. PICK k : k \in FitsAt(form, u, i)
      BY <2>2
    <3>2. /\ k \in 1 .. 4 /\ i + k - 1 =< Len(u) /\ FitsAt(form, u, i) = {k}
          /\ Converted(form, "utf32", u, i, k) = << T!Payload(form, Piece(u, i, k)) >>
          /\ T!Payload(form, Piece(u, i, k)) \in Nat
      BY <3>1, OneFits
    <3>3. r[i] = Converted(form, "utf32", u, i, k) \o r[i + k]
      BY <1>0, <2>0, <3>1, RestStep
    <3>4. i + k \in 1 .. Len(u) + 1
      BY <1>0, <3>2
    <3>5. r[i + k] \in Seq(Int)
      BY <1>0, <3>4, RestType
    <3>6. PICK c \in Nat, b \in Seq(Int) :
            c = T!Payload(form, Piece(u, i, k)) /\ b = r[i + k]
      BY <3>2, <3>5
    <3>. HIDE DEF r
    <3>7. r[i] = << c >> \o b
      BY <3>2, <3>3, <3>6
    <3>8. \A m \in Int : m # c =>
            ((\A x \in DOMAIN (<< c >> \o b) : (<< c >> \o b)[x] # m)
               <=> \A x \in DOMAIN b : b[x] # m)
      <4>1. /\ DOMAIN (<< c >> \o b) = 1 .. Len(b) + 1 /\ DOMAIN b = 1 .. Len(b)
            /\ Len(b) \in Nat /\ (<< c >> \o b)[1] = c
            /\ \A x \in 1 .. Len(b) : (<< c >> \o b)[x + 1] = b[x]
        BY Consed
      <4>2. \A x \in 2 .. Len(b) + 1 : x - 1 \in 1 .. Len(b) /\ (x - 1) + 1 = x
        BY <4>1
      <4>3. \A x \in 1 .. Len(b) + 1 : x = 1 \/ x \in 2 .. Len(b) + 1
        BY <4>1
      <4>4. \A x \in 1 .. Len(b) : x + 1 \in 1 .. Len(b) + 1
        BY <4>1
      <4>5. PICK s : s = << c >> \o b
        OBVIOUS
      <4>6. /\ DOMAIN s = 1 .. Len(b) + 1 /\ DOMAIN b = 1 .. Len(b) /\ s[1] = c
            /\ \A x \in 1 .. Len(b) : s[x + 1] = b[x]
        BY <4>1, <4>5
      <4>7. \A x \in 2 .. Len(b) + 1 : s[x] = b[x - 1]
        BY <4>2, <4>6
      <4>8. 1 \in 1 .. Len(b) + 1
        BY <4>1
      <4>9. ASSUME NEW m \in Int, m # c
            PROVE  (\A x \in 1 .. Len(b) + 1 : s[x] # m) <=> \A x \in 1 .. Len(b) : b[x] # m
        <5>1. (\A x \in 1 .. Len(b) + 1 : s[x] # m) => \A x \in 1 .. Len(b) : b[x] # m
          BY <4>4, <4>6
        <5>2. (\A x \in 1 .. Len(b) : b[x] # m) => \A x \in 1 .. Len(b) + 1 : s[x] # m
          BY <4>2, <4>3, <4>6, <4>7, <4>9
        <5>. QED  BY <5>1, <5>2
      <4>. QED  BY <4>5, <4>6, <4>9
    <3>9. T!Malformed \in Int /\ T!Malformed # c
      BY DEF T!Malformed
    <3>10. Sound(form, u, i) <=> \A x \in DOMAIN (<< c >> \o b) : (<< c >> \o b)[x] # T!Malformed
      BY <3>7, Zenon DEF Sound, r
    <3>11. Sound(form, u, i + k) <=> \A x \in DOMAIN b : b[x] # T!Malformed
      BY <3>6, Zenon DEF Sound, r
    <3>12. Sound(form, u, i) <=> Sound(form, u, i + k)
      BY <3>8, <3>9, <3>10, <3>11
    <3>. QED  BY <3>2, <3>12
  <2>. QED  BY <2>1, <2>2
<1>. QED  BY <1>1, <1>2

-----------------------------------------------------------------------------
(* The front of a text.                                                    *)

\* the first j units
Front(u, j) == SubSeq(u, 1, j)

LEMMA FrontFacts ==
  ASSUME NEW u \in Seq(Nat), NEW j \in 0 .. Len(u)
  PROVE  /\ Front(u, j) \in Seq(Nat) /\ Len(Front(u, j)) = j
         /\ \A i \in 1 .. j : Front(u, j)[i] = u[i]
         /\ \A i \in 1 .. j, k \in 1 .. 4 :
              i + k - 1 =< j => Piece(Front(u, j), i, k) = Piece(u, i, k)
<1>1. Front(u, j) \in Seq(Nat) /\ Len(Front(u, j)) = j /\ \A i \in 1 .. j : Front(u, j)[i] = u[i]
  BY DEF Front
<1>2. ASSUME NEW i \in 1 .. j, NEW k \in 1 .. 4, i + k - 1 =< j
      PROVE  Piece(Front(u, j), i, k) = Piece(u, i, k)
  <2>1. i + k - 1 \in i .. j
    BY <1>2
  <2>2. PICK e \in i .. j : e = i + k - 1
    BY <2>1
  <2>3. PICK f \in Seq(Nat) : f = Front(u, j) /\ Len(f) = j /\ \A x \in 1 .. j : f[x] = u[x]
    BY <1>1
  <2>4. SubSeq(f, i, e) = SubSeq(u, i, e)
    <3>1. /\ 1 \in 1 .. Len(u) /\ j \in 1 .. Len(u)
          /\ i \in 1 .. j - 1 + 1 /\ e \in 1 .. j - 1 + 1
      BY <2>2
    <3>2. SubSeq(SubSeq(u, 1, j), i, e) = SubSeq(u, 1 + i - 1, 1 + e - 1)
      BY <3>1, SubSeqOfSubSeq
    <3>3. 1 + i - 1 = i /\ 1 + e - 1 = e
      BY <2>2
    <3>. QED  BY <2>3, <3>2, <3>3 DEF Front
  <2>. QED  BY <2>2, <2>3, <2>4 DEF Piece
<1>. QED  BY <1>1, <1>2

LEMMA FrontFits ==
  ASSUME NEW form, NEW u \in Seq(Nat), NEW j \in 0 .. Len(u), NEW i \in 1 .. j, NEW k
  PROVE  k \in FitsAt(form, Front(u, j), i) <=> k \in FitsAt(form, u, i) /\ i + k - 1 =< j
<1>1. Len(Front(u, j)) = j /\ Len(u) \in Nat /\ j \in Nat /\ j =< Len(u)
  BY FrontFacts
<1>2. k \in 1 .. 4 /\ i + k - 1 =< j => Piece(Front(u, j), i, k) = Piece(u, i, k)
  BY FrontFacts
<1>. QED  BY <1>1, <1>2, SMTT(30) DEF FitsAt

LEMMA ConcatThree ==
  ASSUME NEW a \in Seq(Int), NEW b \in Seq(Int), NEW c \in Seq(Int)
  PROVE  (a \o b) \o c = a \o (b \o c)
<1>. DEFINE x == (a \o b) \o c
            y == a \o (b \o c)
<1>1. x \in Seq(Int) /\ y \in Seq(Int)
  OBVIOUS
<1>2. Len(x) = Len(a) + Len(b) + Len(c) /\ Len(y) = Len(a) + Len(b) + Len(c)
  OBVIOUS
<1>3. \A i \in 1 .. Len(a) + Len(b) + Len(c) : x[i] = y[i]
  BY SMTT(30)
<1>. HIDE DEF x, y
<1>4. x = y
  BY <1>1, <1>2, <1>3, SeqEqual, Zenon
<1>. QED  BY <1>4 DEF x, y

\* A text splits where a text ends.
LEMMA Splits ==
  ASSUME NEW form \in Forms, NEW to \in Forms, NEW u \in Seq(Nat), NEW j \in 0 .. Len(u)
  PROVE  \A i \in 1 .. j + 1 : Sound(form, Front(u, j), i) =>
           /\ Rest(form, to, u)[i] = Rest(form, to, Front(u, j))[i] \o Rest(form, to, u)[j + 1]
           /\ Sound(form, u, i) <=> Sound(form, u, j + 1)
<1>. DEFINE p == Front(u, j)
            r == Rest(form, to, u)
            s == Rest(form, to, p)
            P(i) == Sound(form, p, i) =>
                      /\ r[i] = s[i] \o r[j + 1]
                      /\ Sound(form, u, i) <=> Sound(form, u, j + 1)
            Good == { i \in 1 .. j + 1 : P(i) }
<1>1. /\ p \in Seq(Nat) /\ Len(p) = j /\ Len(u) \in Nat /\ j \in Nat /\ j =< Len(u)
      /\ j + 1 \in 1 .. Len(u) + 1
  BY FrontFacts
<1>2. /\ \A i \in 1 .. Len(u) + 1 : r[i] \in Seq(Int)
      /\ \A i \in 1 .. j + 1 : s[i] \in Seq(Int)
  BY <1>1, RestType
<1>3. P(j + 1)
  <2>1. s[j + 1] = << >>
    BY <1>1, RestStep
  <2>2. PICK x \in Seq(Int) : x = r[j + 1]
    BY <1>1, <1>2
  <2>3. << >> \o x = x
    OBVIOUS
  <2>. HIDE DEF r, s, p
  <2>. QED  BY <2>1, <2>2, <2>3
<1>4. ASSUME NEW i \in 1 .. j, \A x \in i + 1 .. j + 1 : P(x)
      PROVE  P(i)
  <2>. SUFFICES ASSUME Sound(form, p, i)
                PROVE  r[i] = s[i] \o r[j + 1] /\ (Sound(form, u, i) <=> Sound(form, u, j + 1))
    OBVIOUS
  <2>1. PICK k \in FitsAt(form, p, i) : Sound(form, p, i + k)
    BY <1>1, SoundStep
  <2>2. k \in FitsAt(form, u, i) /\ i + k - 1 =< j
    BY FrontFits
  <2>3. i \in 1 .. Len(u) /\ i \in 1 .. Len(u) + 1 /\ i =< Len(u) /\ i \in 1 .. j + 1 /\ i =< j
    BY <1>1
  <2>4. k \in 1 .. 4 /\ FitsAt(form, u, i) = {k} /\ Converted(form, to, u, i, k) \in Seq(Nat)
    BY <2>2, <2>3, OneFits
  <2>5. Piece(p, i, k) = Piece(u, i, k)
    BY <2>2, <2>4, FrontFacts
  <2>6. i + k \in i + 1 .. j + 1 /\ i + k \in 1 .. Len(u) + 1 /\ i + k \in 1 .. j + 1
    BY <1>1, <2>2, <2>4
  <2>7. r[i] = Converted(form, to, u, i, k) \o r[i + k]
    BY <2>2, <2>3, RestStep
  <2>8. s[i] = Converted(form, to, u, i, k) \o s[i + k]
    <3>1. s[i] = Converted(form, to, p, i, k) \o s[i + k]
      <4>1. i \in 1 .. Len(p) + 1 /\ i =< Len(p)
        BY <1>1, <2>3
      <4>. QED  BY <1>1, <2>1, <4>1, RestStep
    <3>. QED  BY <2>5, <3>1 DEF Converted
  <2>9. P(i + k)
    BY <1>4, <2>6
  <2>10. r[i + k] = s[i + k] \o r[j + 1] /\ (Sound(form, u, i + k) <=> Sound(form, u, j + 1))
    BY <2>1, <2>9
  <2>11. Sound(form, u, i) <=> Sound(form, u, i + k)
    BY <2>3, <2>4, SoundStep
  <2>12. r[i] = s[i] \o r[j + 1]
    <3>1. Converted(form, to, u, i, k) \in Seq(Int)
      BY <2>4, SeqMonotonic
    <3>2. s[i + k] \in Seq(Int) /\ r[j + 1] \in Seq(Int)
      BY <1>1, <1>2, <2>6
    <3>. HIDE DEF r, s
    <3>3. PICK a \in Seq(Int), b \in Seq(Int), c \in Seq(Int) :
            a = Converted(form, to, u, i, k) /\ b = s[i + k] /\ c = r[j + 1]
      BY <3>1, <3>2
    <3>4. (a \o b) \o c = a \o (b \o c)
      BY ConcatThree
    <3>. QED  BY <2>7, <2>8, <2>10, <3>3, <3>4
  <2>. QED  BY <2>10, <2>11, <2>12
<1>. HIDE DEF P
<1>5. j + 1 \in Good
  BY <1>1, <1>3
<1>6. ASSUME NEW i \in 1 .. j, \A x \in i + 1 .. j + 1 : x \in Good PROVE i \in Good
  <2>1. i \in 1 .. j + 1
    BY <1>1
  <2>. QED  BY <1>4, <1>6, <2>1
<1>7. \A i \in Good : P(i)
  OBVIOUS
<1>. HIDE DEF Good
<1>8. \A i \in 1 .. j + 1 : i \in Good
  BY <1>1, <1>5, <1>6, Downwards
<1>9. \A i \in 1 .. j + 1 : P(i)
  BY <1>7, <1>8
<1>. QED  BY <1>9 DEF P

\* characters end before unit j + 1
Boundary(form, u, j) == T!WellFormed(form, Front(u, j))

\* the first j units in another encoding form
Text(form, to, u, j) == T!Transcoded(form, to, Front(u, j))

LEMMA BoundarySound ==
  ASSUME NEW form, NEW u
  PROVE  T!WellFormed(form, u) <=> Sound(form, u, 1)
BY TranscodedIsRest, Zenon DEF T!WellFormed, Sound

\* What a boundary says of the whole text.
LEMMA Whole ==
  ASSUME NEW form \in Forms, NEW to \in Forms, NEW u \in Seq(Nat), NEW j \in 0 .. Len(u),
         Boundary(form, u, j)
  PROVE  /\ T!Transcoded(form, to, u) = Text(form, to, u, j) \o Rest(form, to, u)[j + 1]
         /\ T!WellFormed(form, u) <=> Sound(form, u, j + 1)
         /\ Text(form, to, u, j) \in Seq(Int) /\ Rest(form, to, u)[j + 1] \in Seq(Int)
<1>1. Front(u, j) \in Seq(Nat) /\ Len(u) \in Nat
  BY FrontFacts
<1>2. Sound(form, Front(u, j), 1)
  BY BoundarySound DEF Boundary
<1>3. /\ Rest(form, to, u)[1] = Rest(form, to, Front(u, j))[1] \o Rest(form, to, u)[j + 1]
      /\ Sound(form, u, 1) <=> Sound(form, u, j + 1)
  <2>1. 1 \in 1 .. j + 1
    OBVIOUS
  <2>. QED  BY <1>2, <2>1, Splits
<1>4. Rest(form, to, Front(u, j))[1] \in Seq(Int)
  <2>1. 1 \in 1 .. Len(Front(u, j)) + 1
    BY FrontFacts
  <2>. QED  BY <1>1, <2>1, RestType
<1>5. Rest(form, to, u)[j + 1] \in Seq(Int)
  <2>1. j + 1 \in 1 .. Len(u) + 1
    BY <1>1
  <2>. QED  BY <2>1, RestType
<1>. QED  BY <1>3, <1>4, <1>5, TranscodedIsRest, BoundarySound DEF Text

LEMMA AtTheEnds ==
  ASSUME NEW form \in Forms, NEW to \in Forms, NEW u \in Seq(Nat)
  PROVE  /\ Boundary(form, u, 0) /\ Text(form, to, u, 0) = << >>
         /\ Front(u, Len(u)) = u
<1>1. Front(u, 0) = << >> /\ Front(u, Len(u)) = u /\ << >> \in Seq(Nat) /\ Len(<< >>) = 0
  BY DEF Front
<1>4. PICK e \in Seq(Nat) : e = << >> /\ Len(e) = 0
  BY <1>1
<1>5. 1 = Len(e) + 1 /\ 1 \in 1 .. Len(e) + 1 /\ 1 > Len(e)
  BY <1>4
<1>2. Sound(form, << >>, 1)
  <2>1. Sound(form, e, Len(e) + 1)
    BY SoundStep, Zenon
  <2>. QED  BY <1>4, <1>5, <2>1, Zenon
<1>3. Rest(form, to, << >>)[1] = << >>
  <2>1. Rest(form, to, e)[1] = << >>
    BY <1>5, RestStep, Zenon
  <2>. QED  BY <1>4, <2>1, Zenon
<1>. QED  BY <1>1, <1>2, <1>3, TranscodedIsRest, BoundarySound DEF Boundary, Text

\* One more character.
LEMMA NextCharacter ==
  ASSUME NEW form \in Forms, NEW to \in Forms, NEW u \in Seq(Nat), NEW j \in 0 .. Len(u) - 1,
         Boundary(form, u, j), NEW k \in FitsAt(form, u, j + 1)
  PROVE  /\ j + k \in 0 .. Len(u) /\ Boundary(form, u, j + k)
         /\ Text(form, to, u, j + k) = Text(form, to, u, j) \o Converted(form, to, u, j + 1, k)
<1>. DEFINE v == Front(u, j + k)
<1>1. /\ k \in 1 .. 4 /\ j + k =< Len(u) /\ Len(u) \in Nat /\ j \in Nat
      /\ Converted(form, to, u, j + 1, k) \in Seq(Nat)
  <2>1. j + 1 \in 1 .. Len(u)
    OBVIOUS
  <2>2. k \in 1 .. 4 /\ (j + 1) + k - 1 =< Len(u) /\ Converted(form, to, u, j + 1, k) \in Seq(Nat)
    BY <2>1, OneFits
  <2>. QED  BY <2>2
<1>2. j + k \in 0 .. Len(u) /\ j + 1 \in 1 .. j + k /\ j \in 0 .. Len(u)
  BY <1>1
<1>3. v \in Seq(Nat) /\ Len(v) = j + k
  BY <1>2, FrontFacts
<1>4. Front(v, j) = Front(u, j)
  <2>1. CASE j = 0
    <3>1. SubSeq(v, 1, 0) = << >> /\ SubSeq(u, 1, 0) = << >>
      BY <1>3
    <3>. HIDE DEF v
    <3>. QED  BY <2>1, <3>1 DEF Front
  <2>2. CASE j # 0
    <3>1. /\ 1 \in 1 .. Len(u) /\ j + k \in 1 .. Len(u)
          /\ 1 \in 1 .. (j + k) - 1 + 1 /\ j \in 1 .. (j + k) - 1 + 1
      BY <1>1, <2>2
    <3>2. SubSeq(SubSeq(u, 1, j + k), 1, j) = SubSeq(u, 1 + 1 - 1, 1 + j - 1)
      BY <3>1, SubSeqOfSubSeq
    <3>3. 1 + 1 - 1 = 1 /\ 1 + j - 1 = j
      BY <1>1
    <3>. QED  BY <3>2, <3>3 DEF Front
  <2>. QED  BY <2>1, <2>2
<1>5. k \in FitsAt(form, v, j + 1)
  <2>1. (j + 1) + k - 1 =< j + k
    BY <1>1
  <2>. QED  BY <1>2, <2>1, FrontFits
<1>6. Converted(form, to, v, j + 1, k) = Converted(form, to, u, j + 1, k)
  <2>1. (j + 1) + k - 1 =< j + k
    BY <1>1
  <2>2. Piece(v, j + 1, k) = Piece(u, j + 1, k)
    BY <1>1, <1>2, <2>1, FrontFacts
  <2>. QED  BY <2>2 DEF Converted
<1>. HIDE DEF v
<1>7. /\ j \in 0 .. Len(v) /\ j + 1 \in 1 .. Len(v) /\ j + 1 \in 1 .. Len(v) + 1
      /\ j + 1 =< Len(v) /\ (j + 1) + k = Len(v) + 1 /\ Len(v) + 1 \in 1 .. Len(v) + 1
      /\ Len(v) + 1 > Len(v)
  BY <1>1, <1>3
<1>8. Boundary(form, v, j) /\ Text(form, to, v, j) = Text(form, to, u, j)
  BY <1>4 DEF Boundary, Text
<1>9. Sound(form, v, j + 1)
  <2>1. Sound(form, v, Len(v) + 1)
    BY <1>3, SoundStep
  <2>. QED  BY <1>3, <1>5, <1>7, <2>1, SoundStep
<1>10. Rest(form, to, v)[j + 1] = Converted(form, to, u, j + 1, k)
  <2>1. Rest(form, to, v)[j + 1] = Converted(form, to, v, j + 1, k) \o Rest(form, to, v)[Len(v) + 1]
    <3>1. Rest(form, to, v)[j + 1] =
            Converted(form, to, v, j + 1, k) \o Rest(form, to, v)[(j + 1) + k]
      BY <1>3, <1>5, <1>7, RestStep, Zenon
    <3>. QED  BY <1>7, <3>1, Zenon
  <2>2. Rest(form, to, v)[Len(v) + 1] = << >>
    BY <1>3, <1>7, RestStep
  <2>3. PICK x \in Seq(Nat) : x = Converted(form, to, u, j + 1, k)
    BY <1>1
  <2>4. x \o << >> = x
    OBVIOUS
  <2>. QED  BY <1>6, <2>1, <2>2, <2>3, <2>4
<1>11. /\ T!Transcoded(form, to, v) = Text(form, to, v, j) \o Rest(form, to, v)[j + 1]
       /\ T!WellFormed(form, v)
  BY <1>3, <1>7, <1>8, <1>9, Whole
<1>. QED  BY <1>2, <1>8, <1>10, <1>11 DEF v, Boundary, Text

\* Where no character fits, a text stops being one.
LEMMA Stuck ==
  ASSUME NEW form \in Forms, NEW to \in Forms, NEW u \in Seq(Nat), NEW j \in 0 .. Len(u) - 1,
         Boundary(form, u, j), FitsAt(form, u, j + 1) = {}
  PROVE  /\ ~T!WellFormed(form, u)
         /\ T!Transcoded(form, to, u) = Text(form, to, u, j) \o << T!Malformed >>
<1>1. /\ j + 1 \in 1 .. Len(u) /\ j \in 0 .. Len(u) /\ j + 1 =< Len(u)
      /\ j + 1 \in 1 .. Len(u) + 1
  OBVIOUS
<1>2. ~Sound(form, u, j + 1)
  BY <1>1, SoundStep
<1>3. Rest(form, to, u)[j + 1] = << T!Malformed >>
  BY <1>1, RestStep
<1>4. /\ T!Transcoded(form, to, u) = Text(form, to, u, j) \o Rest(form, to, u)[j + 1]
      /\ T!WellFormed(form, u) <=> Sound(form, u, j + 1)
  BY <1>1, Whole, ZenonT(30)
<1>. QED  BY <1>2, <1>3, <1>4, Zenon

\* the m units from unit j + 1 on are a character each; g[x] is what x of them give
Chain(form, to, u, j, m, g) ==
  /\ \A x \in 1 .. m : 1 \in FitsAt(form, u, j + x)
  /\ \A x \in 0 .. m : g[x] \in Seq(Int)
  /\ g[0] = << >>
  /\ \A x \in 0 .. m - 1 : g[x + 1] = g[x] \o Converted(form, to, u, j + (x + 1), 1)

\* Characters of one unit each, one after the other.
LEMMA Singles ==
  ASSUME NEW form \in Forms, NEW to \in Forms, NEW u \in Seq(Nat), NEW j \in Nat, NEW m \in Nat,
         j + m =< Len(u), Boundary(form, u, j), NEW g, Chain(form, to, u, j, m, g)
  PROVE  /\ Boundary(form, u, j + m)
         /\ Text(form, to, u, j + m) = Text(form, to, u, j) \o g[m]
<1>. DEFINE P(x) == /\ Boundary(form, u, j + x)
                    /\ Text(form, to, u, j + x) = Text(form, to, u, j) \o g[x]
            Good == { x \in 0 .. m : P(x) }
<1>7. /\ \A x \in 1 .. m : 1 \in FitsAt(form, u, j + x)
      /\ \A x \in 0 .. m : g[x] \in Seq(Int)
      /\ g[0] = << >>
      /\ \A x \in 0 .. m - 1 : g[x + 1] = g[x] \o Converted(form, to, u, j + (x + 1), 1)
  BY DEF Chain
<1>0. j \in 0 .. Len(u) /\ Len(u) \in Nat
  OBVIOUS
<1>1. Text(form, to, u, j) \in Seq(Int)
  BY <1>0, Whole
<1>2. P(0)
  <2>1. PICK t \in Seq(Int) : t = Text(form, to, u, j)
    BY <1>1
  <2>2. t \o << >> = t
    OBVIOUS
  <2>3. j + 0 = j
    OBVIOUS
  <2>. QED  BY <1>7, <2>1, <2>2, <2>3
<1>3. ASSUME NEW x \in 0 .. m - 1, P(x) PROVE P(x + 1)
  <2>1. /\ x \in 0 .. m /\ x + 1 \in 0 .. m /\ x + 1 \in 1 .. m
        /\ j + x \in 0 .. Len(u) - 1 /\ (j + x) + 1 = j + (x + 1)
    BY <1>0
  <2>2. 1 \in FitsAt(form, u, (j + x) + 1)
    BY <1>7, <2>1
  <2>3. /\ Boundary(form, u, (j + x) + 1)
        /\ Text(form, to, u, (j + x) + 1)
             = Text(form, to, u, j + x) \o Converted(form, to, u, (j + x) + 1, 1)
    BY <1>3, <2>1, <2>2, NextCharacter
  <2>4. Converted(form, to, u, (j + x) + 1, 1) \in Seq(Nat)
    <3>1. (j + x) + 1 \in 1 .. Len(u)
      BY <2>1
    <3>. QED  BY <2>2, <3>1, OneFits
  <2>5. g[x + 1] = g[x] \o Converted(form, to, u, (j + x) + 1, 1)
    BY <1>7, <2>1
  <2>6. Text(form, to, u, (j + x) + 1) = Text(form, to, u, j) \o g[x + 1]
    <3>1. Converted(form, to, u, (j + x) + 1, 1) \in Seq(Int)
      BY <2>4, SeqMonotonic
    <3>2. g[x] \in Seq(Int) /\ Text(form, to, u, j) \in Seq(Int)
      BY <1>7, <1>1, <2>1
    <3>3. PICK a \in Seq(Int), b \in Seq(Int), c \in Seq(Int) :
            /\ a = Text(form, to, u, j) /\ b = g[x]
            /\ c = Converted(form, to, u, (j + x) + 1, 1)
      BY <3>1, <3>2
    <3>4. (a \o b) \o c = a \o (b \o c)
      BY ConcatThree
    <3>. QED  BY <1>3, <2>3, <2>5, <3>3, <3>4
  <2>. QED  BY <2>1, <2>3, <2>6
<1>. HIDE DEF P
<1>4. 0 \in Good /\ \A x \in 0 .. m - 1 : x \in Good => x + 1 \in Good
  BY <1>2, <1>3
<1>5. \A x \in Good : P(x)
  OBVIOUS
<1>. HIDE DEF Good
<1>6. \A x \in 0 .. m : x \in Good
  BY <1>4, Induction
<1>. QED  BY <1>5, <1>6 DEF P

-----------------------------------------------------------------------------
(* Units of each encoding form.                                            *)

(* What the code looks at, and the standard.                               *)

Follows(b) == b >= 128 /\ b < 192

LEMMA ContinuationIs ==
  ASSUME NEW b \in Nat
  PROVE  T!IsContinuation(b) <=> Follows(b)
BY DEF T!IsContinuation, Follows

LEMMA PayloadOne ==
  ASSUME NEW a, NEW form
  PROVE  T!Payload(form, << a >>) = a
<1>1. Len(<< a >>) = 1
  OBVIOUS
<1>. QED  BY <1>1, SMT DEF T!Payload

LEMMA PayloadPair ==
  ASSUME NEW a \in Nat, NEW b \in Nat
  PROVE  T!Payload("utf16", << a, b >>) = 65536 + (a - 55296) * 1024 + (b - 56320)
<1>1. Len(<< a, b >>) = 2
  OBVIOUS
<1>. QED  BY <1>1, SMT DEF T!Payload, T!BeyondTwoBytes

LEMMA PayloadTwo ==
  ASSUME NEW a \in Nat, NEW b \in Nat
  PROVE  T!Payload("utf8", << a, b >>) = (a % 32) * 64 + (b % 64)
<1>1. Len(<< a, b >>) = 2
  OBVIOUS
<1>. QED  BY <1>1, SMT DEF T!Payload

LEMMA PayloadThree ==
  ASSUME NEW a \in Nat, NEW b \in Nat, NEW d \in Nat
  PROVE  T!Payload("utf8", << a, b, d >>) = (a % 16) * 4096 + (b % 64) * 64 + (d % 64)
<1>1. Len(<< a, b, d >>) = 3
  OBVIOUS
<1>. QED  BY <1>1, SMT DEF T!Payload

LEMMA PayloadFour ==
  ASSUME NEW a \in Nat, NEW b \in Nat, NEW d \in Nat, NEW e \in Nat
  PROVE  T!Payload("utf8", << a, b, d, e >>) =
           (a % 8) * 262144 + (b % 64) * 4096 + (d % 64) * 64 + (e % 64)
<1>1. Len(<< a, b, d, e >>) = 4
  OBVIOUS
<1>. QED  BY <1>1, SMT DEF T!Payload

LEMMA EncodesIs ==
  ASSUME NEW form, NEW u
  PROVE  T!Encodes(form, u) <=>
           /\ T!IsCharacter(T!Payload(form, u))
           /\ T!Encoded(form, T!Payload(form, u)) = u
BY DEF T!Encodes

\* the leading byte of a character says how long it is
LEMMA LeadsIt ==
  ASSUME NEW u, T!Encodes("utf8", u)
  PROVE  T!Length8(u[1]) = Len(u)
<1>1. "utf8" \in Forms /\ Leading("utf8", u[1]) = T!Length8(u[1])
  BY DEF Forms, Leading
<1>. QED  BY <1>1, EncodesFacts

LEMMA OneByte ==
  ASSUME NEW a \in Nat
  PROVE  T!Encodes("utf8", << a >>) <=> a < 128
<1>1. T!Payload("utf8", << a >>) = a
  BY PayloadOne
<1>2. T!Encoded("utf8", a) = T!Utf8(a)
  BY DEF T!Encoded
<1>3. ASSUME a < 128 PROVE T!IsCharacter(a) /\ T!Utf8(a) = << a >>
  BY <1>3, CharacterFacts, Utf8Is, SMT
<1>4. ASSUME T!Encodes("utf8", << a >>) PROVE a < 128
  <2>1. Len(<< a >>) = 1 /\ << a >>[1] = a /\ "utf8" \in Forms
    BY DEF Forms
  <2>2. T!Length8(a) = 1
    BY <1>4, <2>1, LeadsIt
  <2>. QED  BY <2>2, Length8Is
<1>. QED  BY <1>1, <1>2, <1>3, <1>4, EncodesIs

LEMMA TwoBytes ==
  ASSUME NEW a \in Nat, NEW b \in Nat
  PROVE  LET c == (a % 32) * 64 + (b % 64)
         IN  T!Encodes("utf8", << a, b >>) <=>
               a >= 192 /\ a < 224 /\ Follows(b) /\ c >= 128 /\ c < 2048
<1>. DEFINE c == (a % 32) * 64 + (b % 64)
<1>1. T!Payload("utf8", << a, b >>) = c
  BY PayloadTwo
<1>2. c \in Nat /\ c < 2048
  OBVIOUS
<1>0. T!Encoded("utf8", c) = T!Utf8(c)
  BY DEF T!Encoded
<1>5. a >= 192 /\ a < 224 /\ Follows(b) => 192 + c \div 64 = a /\ 128 + (c % 64) = b
  BY SMT DEF Follows
<1>. HIDE DEF c
<1>3. ASSUME a >= 192, a < 224, Follows(b), c >= 128, c < 2048
      PROVE  T!IsCharacter(c) /\ T!Utf8(c) = << a, b >>
  <2>1. T!Utf8(c) = Two(c) /\ T!IsCharacter(c)
    BY <1>2, <1>3, CharacterFacts, Utf8Is, SMT
  <2>2. 192 + c \div 64 = a /\ 128 + (c % 64) = b
    BY <1>3, <1>5
  <2>. QED  BY <2>1, <2>2 DEF Two
<1>4. ASSUME T!Encodes("utf8", << a, b >>)
      PROVE  a >= 192 /\ a < 224 /\ Follows(b) /\ c >= 128 /\ c < 2048
  <2>1. /\ Len(<< a, b >>) = 2 /\ << a, b >>[1] = a /\ "utf8" \in Forms
        /\ T!Encoded("utf8", c) = << a, b >>
    BY <1>1, <1>4, EncodesIs DEF Forms
  <2>2. T!Length8(a) = 2
    BY <1>4, <2>1, LeadsIt, Zenon
  <2>3. a >= 192 /\ a < 224
    BY <2>2, Length8Is
  <2>4. c >= 128 /\ c < 2048
    <3>1. c < 2048
      BY <1>2
    <3>2. ASSUME c < 128 PROVE FALSE
      <4>1. << c >> = << a, b >>
        BY <1>0, <1>2, <2>1, <3>2, Utf8Is
      <4>2. Len(<< c >>) = 1
        OBVIOUS
      <4>. QED  BY <2>1, <4>1, <4>2
    <3>. QED  BY <1>2, <3>1, <3>2
  <2>5. << a, b >> = << 192 + c \div 64, 128 + (c % 64) >>
    BY <1>0, <1>2, <2>1, <2>4, Utf8Is, SMT DEF Two
  <2>6. b = 128 + (c % 64)
    BY <2>5
  <2>. QED  BY <1>2, <2>3, <2>4, <2>6 DEF Follows
<1>. QED  BY <1>0, <1>1, <1>2, <1>3, <1>4, EncodesIs, SMT DEF c

LEMMA ThreeBytes ==
  ASSUME NEW a \in Nat, NEW b \in Nat, NEW d \in Nat
  PROVE  LET c == (a % 16) * 4096 + (b % 64) * 64 + (d % 64)
         IN  T!Encodes("utf8", << a, b, d >>) <=>
               /\ a >= 224 /\ a < 240 /\ Follows(b) /\ Follows(d)
               /\ c >= 2048 /\ (c < 55296 \/ c > 57343)
<1>. DEFINE c == (a % 16) * 4096 + (b % 64) * 64 + (d % 64)
<1>1. T!Payload("utf8", << a, b, d >>) = c
  BY PayloadThree, SMT
<1>2. c \in Nat /\ c < 65536
  BY SMT
<1>0. T!Encoded("utf8", c) = T!Utf8(c)
  BY DEF T!Encoded
<1>5. a >= 224 /\ a < 240 /\ Follows(b) /\ Follows(d) =>
        224 + c \div 4096 = a /\ 128 + ((c \div 64) % 64) = b /\ 128 + (c % 64) = d
  BY SMT DEF Follows
<1>. HIDE DEF c
<1>3. ASSUME a >= 224, a < 240, Follows(b), Follows(d), c >= 2048, c < 55296 \/ c > 57343
      PROVE  T!IsCharacter(c) /\ T!Utf8(c) = << a, b, d >>
  <2>1. T!Utf8(c) = Three(c) /\ T!IsCharacter(c)
    BY <1>2, <1>3, CharacterFacts, Utf8Is, SMT
  <2>2. 224 + c \div 4096 = a /\ 128 + ((c \div 64) % 64) = b /\ 128 + (c % 64) = d
    BY <1>3, <1>5, SMT
  <2>. QED  BY <2>1, <2>2, SMT DEF Three
<1>4. ASSUME T!Encodes("utf8", << a, b, d >>)
      PROVE  /\ a >= 224 /\ a < 240 /\ Follows(b) /\ Follows(d)
             /\ c >= 2048 /\ (c < 55296 \/ c > 57343)
  <2>1. /\ Len(<< a, b, d >>) = 3 /\ << a, b, d >>[1] = a /\ "utf8" \in Forms
        /\ T!Encoded("utf8", c) = << a, b, d >> /\ T!IsCharacter(c)
    BY <1>1, <1>4, EncodesIs DEF Forms
  <2>2. T!Length8(a) = 3
    BY <1>4, <2>1, LeadsIt, Zenon
  <2>3. a >= 224 /\ a < 240
    BY <2>2, Length8Is
  <2>4. c >= 2048
    <3>1. ASSUME c < 128 PROVE FALSE
      <4>1. << c >> = << a, b, d >>
        BY <1>0, <1>2, <2>1, <3>1, Utf8Is, SMT
      <4>2. Len(<< c >>) = 1
        OBVIOUS
      <4>. QED  BY <2>1, <4>1, <4>2, SMT
    <3>2. ASSUME c >= 128, c < 2048 PROVE FALSE
      <4>1. Two(c) = << a, b, d >>
        BY <1>0, <1>2, <2>1, <3>2, Utf8Is, SMT
      <4>2. Len(Two(c)) = 2
        BY SMT DEF Two
      <4>. QED  BY <2>1, <4>1, <4>2, SMT
    <3>. QED  BY <1>2, <3>1, <3>2, SMT
  <2>5. << a, b, d >> = << 224 + c \div 4096, 128 + ((c \div 64) % 64), 128 + (c % 64) >>
    BY <1>0, <1>2, <2>1, <2>4, Utf8Is, SMT DEF Three
  <2>6. b = 128 + ((c \div 64) % 64) /\ d = 128 + (c % 64)
    BY <2>5, SMT
  <2>7. c < 55296 \/ c > 57343
    BY <1>0, <1>2, <2>1, CharacterFacts, SMT
  <2>8. Follows(b) /\ Follows(d)
    BY <1>2, <2>6, SMT DEF Follows
  <2>. QED  BY <2>3, <2>4, <2>7, <2>8, SMT
<1>. QED  BY <1>0, <1>1, <1>2, <1>3, <1>4, EncodesIs, SMT DEF c

LEMMA FourBytes ==
  ASSUME NEW a \in Nat, NEW b \in Nat, NEW d \in Nat, NEW e \in Nat
  PROVE  LET c == (a % 8) * 262144 + (b % 64) * 4096 + (d % 64) * 64 + (e % 64)
         IN  T!Encodes("utf8", << a, b, d, e >>) <=>
               /\ a >= 240 /\ a < 248 /\ Follows(b) /\ Follows(d) /\ Follows(e)
               /\ c >= 65536 /\ c =< 1114111
<1>. DEFINE c == (a % 8) * 262144 + (b % 64) * 4096 + (d % 64) * 64 + (e % 64)
<1>1. T!Payload("utf8", << a, b, d, e >>) = c
  BY PayloadFour, SMT
<1>2. c \in Nat
  BY SMT
<1>0. T!Encoded("utf8", c) = T!Utf8(c)
  BY DEF T!Encoded
<1>5. a >= 240 /\ a < 248 /\ Follows(b) /\ Follows(d) /\ Follows(e) =>
        /\ 240 + c \div 262144 = a /\ 128 + ((c \div 4096) % 64) = b
        /\ 128 + ((c \div 64) % 64) = d /\ 128 + (c % 64) = e
  BY SMT DEF Follows
<1>. HIDE DEF c
<1>3. ASSUME a >= 240, a < 248, Follows(b), Follows(d), Follows(e), c >= 65536, c =< 1114111
      PROVE  T!IsCharacter(c) /\ T!Utf8(c) = << a, b, d, e >>
  <2>1. T!Utf8(c) = Four(c) /\ T!IsCharacter(c)
    BY <1>2, <1>3, CharacterFacts, Utf8Is, SMT
  <2>2. /\ 240 + c \div 262144 = a /\ 128 + ((c \div 4096) % 64) = b
        /\ 128 + ((c \div 64) % 64) = d /\ 128 + (c % 64) = e
    BY <1>3, <1>5, SMT
  <2>. QED  BY <2>1, <2>2, SMT DEF Four
<1>4. ASSUME T!Encodes("utf8", << a, b, d, e >>)
      PROVE  /\ a >= 240 /\ a < 248 /\ Follows(b) /\ Follows(d) /\ Follows(e)
             /\ c >= 65536 /\ c =< 1114111
  <2>1. /\ Len(<< a, b, d, e >>) = 4 /\ << a, b, d, e >>[1] = a /\ "utf8" \in Forms
        /\ T!Encoded("utf8", c) = << a, b, d, e >> /\ T!IsCharacter(c)
    BY <1>1, <1>4, EncodesIs, SMT DEF Forms
  <2>2. T!Length8(a) = 4
    <3>1. T!Length8(<< a, b, d, e >>[1]) = Len(<< a, b, d, e >>)
      BY <1>4, LeadsIt, Zenon
    <3>. QED  BY <2>1, <3>1, SMT
  <2>3. a >= 240 /\ a < 248
    BY <2>2, Length8Is
  <2>4. c >= 65536
    <3>1. ASSUME c < 128 PROVE FALSE
      <4>1. << c >> = << a, b, d, e >>
        BY <1>0, <1>2, <2>1, <3>1, Utf8Is, SMT
      <4>2. Len(<< c >>) = 1
        BY SMT
      <4>. QED  BY <2>1, <4>1, <4>2, SMT
    <3>2. ASSUME c >= 128, c < 2048 PROVE FALSE
      <4>1. Two(c) = << a, b, d, e >>
        BY <1>0, <1>2, <2>1, <3>2, Utf8Is, SMT
      <4>2. Len(Two(c)) = 2
        BY SMT DEF Two
      <4>. QED  BY <2>1, <4>1, <4>2, SMT
    <3>3. ASSUME c >= 2048, c < 65536 PROVE FALSE
      <4>1. Three(c) = << a, b, d, e >>
        BY <1>0, <1>2, <2>1, <3>3, Utf8Is, SMT
      <4>2. Len(Three(c)) = 3
        BY SMT DEF Three
      <4>. QED  BY <2>1, <4>1, <4>2, SMT
    <3>. QED  BY <1>2, <3>1, <3>2, <3>3, SMT
  <2>5. << a, b, d, e >> = << 240 + c \div 262144, 128 + ((c \div 4096) % 64),
                              128 + ((c \div 64) % 64), 128 + (c % 64) >>
    BY <1>0, <1>2, <2>1, <2>4, Utf8Is, SMT DEF Four
  <2>6. b = 128 + ((c \div 4096) % 64) /\ d = 128 + ((c \div 64) % 64) /\ e = 128 + (c % 64)
    BY <2>5, SMT
  <2>7. c =< 1114111
    BY <1>0, <1>2, <2>1, CharacterFacts, SMT
  <2>8. Follows(b) /\ Follows(d) /\ Follows(e)
    BY <1>2, <2>6, SMT DEF Follows
  <2>. QED  BY <2>3, <2>4, <2>7, <2>8, SMT
<1>. QED  BY <1>0, <1>1, <1>2, <1>3, <1>4, EncodesIs, SMT DEF c

LEMMA OneWord ==
  ASSUME NEW w \in Nat
  PROVE  /\ w < 65536 => (T!Encodes("utf16", << w >>) <=> w < 55296 \/ w > 57343)
         /\ T!Encodes("utf32", << w >>) <=> T!IsCharacter(w)
<1>1. T!Payload("utf16", << w >>) = w /\ T!Payload("utf32", << w >>) = w
  BY PayloadOne
<1>2. T!Encoded("utf16", w) = T!Utf16(w) /\ T!Encoded("utf32", w) = << w >>
  BY DEF T!Encoded
<1>3. w < 65536 => (T!IsCharacter(w) <=> w < 55296 \/ w > 57343) /\ T!Utf16(w) = << w >>
  BY CharacterFacts, Utf16Is, SMT
<1>. QED  BY <1>1, <1>2, <1>3, EncodesIs, SMT

LEMMA TwoWords ==
  ASSUME NEW a \in Nat, NEW b \in Nat
  PROVE  T!Encodes("utf16", << a, b >>) <=>
           a >= 55296 /\ a < 56320 /\ b >= 56320 /\ b < 57344
<1>. DEFINE c == 65536 + (a - 55296) * 1024 + (b - 56320)
<1>1. T!Payload("utf16", << a, b >>) = c
  BY PayloadPair, SMT
<1>2. c \in Int
  BY SMT
<1>0. T!Encoded("utf16", c) = T!Utf16(c)
  BY DEF T!Encoded
<1>5. a >= 55296 /\ a < 56320 /\ b >= 56320 /\ b < 57344 =>
        /\ c >= 65536 /\ c =< 1114111
        /\ 55296 + (c - 65536) \div 1024 = a /\ 56320 + (c % 1024) = b
  BY SMT
<1>. HIDE DEF c
<1>3. ASSUME a >= 55296, a < 56320, b >= 56320, b < 57344
      PROVE  T!IsCharacter(c) /\ T!Utf16(c) = << a, b >>
  <2>1. c >= 65536 /\ c =< 1114111 /\ c \in Nat
    BY <1>2, <1>3, <1>5, SMT
  <2>2. /\ T!IsCharacter(c)
        /\ T!Utf16(c) = << 55296 + (c - 65536) \div 1024, 56320 + (c % 1024) >>
    BY <2>1, CharacterFacts, Utf16Is, SMT
  <2>3. 55296 + (c - 65536) \div 1024 = a /\ 56320 + (c % 1024) = b
    BY <1>3, <1>5, SMT
  <2>. QED  BY <2>2, <2>3, SMT
<1>4. ASSUME T!Encodes("utf16", << a, b >>)
      PROVE  a >= 55296 /\ a < 56320 /\ b >= 56320 /\ b < 57344
  <2>1. T!IsCharacter(c) /\ T!Utf16(c) = << a, b >>
    BY <1>0, <1>1, <1>4, EncodesIs, SMT
  <2>2. c \in Nat /\ c =< 1114111
    BY <1>0, <1>2, <2>1, CharacterFacts, SMT
  <2>3. c >= 65536
    <3>1. ASSUME c < 65536 PROVE FALSE
      <4>1. << c >> = << a, b >>
        BY <2>1, <2>2, <3>1, Utf16Is, SMT
      <4>2. Len(<< c >>) = 1 /\ Len(<< a, b >>) = 2
        BY SMT
      <4>. QED  BY <4>1, <4>2, SMT
    <3>. QED  BY <2>2, <3>1, SMT
  <2>4. << a, b >> = << 55296 + (c - 65536) \div 1024, 56320 + (c % 1024) >>
    BY <2>1, <2>2, <2>3, Utf16Is, SMT
  <2>5. a = 55296 + (c - 65536) \div 1024 /\ b = 56320 + (c % 1024)
    BY <2>4, SMT
  <2>. QED  BY <2>2, <2>3, <2>5, SMT
<1>. QED  BY <1>0, <1>1, <1>2, <1>3, <1>4, EncodesIs, SMT DEF c

LEMMA PieceIs ==
  ASSUME input \in Seq(Nat), NEW p \in Nat, NEW k \in 1 .. 4, p + k =< Len(input)
  PROVE  /\ \A i \in p .. p + k - 1 : T!Unit(i) = input[i + 1] /\ T!Unit(i) \in Nat
         /\ k = 1 => Piece(input, p + 1, k) = << T!Unit(p) >>
         /\ k = 2 => Piece(input, p + 1, k) = << T!Unit(p), T!Unit(p + 1) >>
         /\ k = 3 => Piece(input, p + 1, k) = << T!Unit(p), T!Unit(p + 1), T!Unit(p + 2) >>
         /\ k = 4 => Piece(input, p + 1, k) =
                       << T!Unit(p), T!Unit(p + 1), T!Unit(p + 2), T!Unit(p + 3) >>
<1>1. \A i \in p .. p + k - 1 : T!Unit(i) = input[i + 1] /\ T!Unit(i) \in Nat
  BY DEF T!Unit, T!count
<1>2. \A j \in Nat : p + 1 =< j /\ j =< Len(input) =>
        /\ SubSeq(input, p + 1, j) \in Seq(Nat) /\ Len(SubSeq(input, p + 1, j)) = j - p
        /\ \A x \in 1 .. j - p : SubSeq(input, p + 1, j)[x] = input[p + x]
  OBVIOUS
<1>3. p + 1 + k - 1 \in Nat /\ p + 1 + k - 1 = p + k /\ (p + k) - p = k
  OBVIOUS
<1>4. /\ Piece(input, p + 1, k) \in Seq(Nat) /\ Len(Piece(input, p + 1, k)) = k
      /\ \A x \in 1 .. k : Piece(input, p + 1, k)[x] = input[p + x]
  BY <1>2, <1>3 DEF Piece
<1>5. PICK s \in Seq(Nat) : s = Piece(input, p + 1, k)
  BY <1>4
<1>6. Len(s) = k /\ \A x \in 1 .. k : s[x] = T!Unit(p + (x - 1))
  <2>1. \A x \in 1 .. k : p + (x - 1) \in p .. p + k - 1 /\ p + (x - 1) + 1 = p + x
    OBVIOUS
  <2>. QED  BY <1>1, <1>4, <1>5, <2>1
<1>7. /\ p + (1 - 1) = p /\ p + (2 - 1) = p + 1 /\ p + (3 - 1) = p + 2 /\ p + (4 - 1) = p + 3
  OBVIOUS
<1>8. CASE k = 1
  BY <1>1, <1>5, <1>6, <1>7, <1>8
<1>9. CASE k = 2
  BY <1>1, <1>5, <1>6, <1>7, <1>9
<1>10. CASE k = 3
  BY <1>1, <1>5, <1>6, <1>7, <1>10
<1>11. CASE k = 4
  BY <1>1, <1>5, <1>6, <1>7, <1>11
<1>. QED  BY <1>1, <1>8, <1>9, <1>10, <1>11

\* the payload bits of three bytes, and of four
Bits3(a, b, d)    == (a % 16) * 4096 + (b % 64) * 64 + (d % 64)
Bits4(a, b, d, e) == (a % 8) * 262144 + (b % 64) * 4096 + (d % 64) * 64 + (e % 64)

LEMMA ThreePayload ==
  \A a, b, d \in Nat : T!Payload("utf8", << a, b, d >>) = Bits3(a, b, d)
<1>. SUFFICES ASSUME NEW a \in Nat, NEW b \in Nat, NEW d \in Nat
              PROVE  T!Payload("utf8", << a, b, d >>) = Bits3(a, b, d)
  OBVIOUS
<1>. QED  BY PayloadThree, SMT DEF Bits3

LEMMA FourPayload ==
  \A a, b, d, e \in Nat : T!Payload("utf8", << a, b, d, e >>) = Bits4(a, b, d, e)
<1>. SUFFICES ASSUME NEW a \in Nat, NEW b \in Nat, NEW d \in Nat, NEW e \in Nat
              PROVE  T!Payload("utf8", << a, b, d, e >>) = Bits4(a, b, d, e)
  OBVIOUS
<1>. QED  BY PayloadFour, SMT DEF Bits4

LEMMA Range8Is ==
  ASSUME NEW c \in Nat
  PROVE  /\ c \in T!Range8(1) <=> c < 128
         /\ c \in T!Range8(2) <=> c >= 128 /\ c < 2048
         /\ c \in T!Range8(3) <=> c >= 2048 /\ c < 65536 /\ (c < 55296 \/ c > 57343)
         /\ c \in T!Range8(4) <=> c >= 65536 /\ c =< 1114111
<1>1. T!BeyondTwoBytes \in Nat /\ T!LastCharacter \in Nat
  BY SMT DEF T!BeyondTwoBytes, T!LastCharacter
<1>. DEFINE one   == 0 .. 127
            two   == 128 .. 2047
            three == (2048 .. T!BeyondTwoBytes - 1) \ (55296 .. 57343)
            four  == T!BeyondTwoBytes .. T!LastCharacter
<1>2. c \in one <=> c < 128
  BY SMT
<1>3. c \in two <=> c >= 128 /\ c < 2048
  BY SMT
<1>4. c \in three <=>
        c >= 2048 /\ c < T!BeyondTwoBytes /\ (c < 55296 \/ c > 57343)
  BY <1>1, SMTT(30)
<1>5. c \in four <=> c >= T!BeyondTwoBytes /\ c =< T!LastCharacter
  BY <1>1, SMT
<1>6. ASSUME NEW k
      PROVE  T!Range8(k) = CASE k = 1 -> one [] k = 2 -> two [] k = 3 -> three
                             [] OTHER -> four
  BY SMT DEF T!Range8
<1>. HIDE DEF one, two, three, four
<1>7. T!Range8(1) = one /\ T!Range8(2) = two /\ T!Range8(3) = three /\ T!Range8(4) = four
  BY <1>6
<1>. QED  BY <1>2, <1>3, <1>4, <1>5, <1>7, UnicodeNumbers, SMT

\* the payload of the character at p, by its length
LEMMA CodePoint8Is ==
  ASSUME NEW p \in Nat
  PROVE  /\ T!Length8(T!Unit(p)) = 1 => T!CodePoint8(p) = T!Unit(p)
         /\ T!Length8(T!Unit(p)) = 2 =>
              T!CodePoint8(p) = (T!Unit(p) % 32) * 64 + (T!Unit(p + 1) % 64)
         /\ T!Length8(T!Unit(p)) = 3 =>
              T!CodePoint8(p) = (T!Unit(p) % 16) * 4096 + (T!Unit(p + 1) % 64) * 64
                                  + (T!Unit(p + 2) % 64)
         /\ T!Length8(T!Unit(p)) = 4 =>
              T!CodePoint8(p) = (T!Unit(p) % 8) * 262144 + (T!Unit(p + 1) % 64) * 4096
                                  + (T!Unit(p + 2) % 64) * 64 + (T!Unit(p + 3) % 64)
BY SMT DEF T!CodePoint8

LEMMA Length8Type ==
  ASSUME NEW b \in Nat
  PROVE  T!Length8(b) \in 0 .. 4
<1>1. \/ b < 128
      \/ b >= 128 /\ b < 192
      \/ b >= 192 /\ b < 224
      \/ b >= 224 /\ b < 240
      \/ b >= 240 /\ b < 248
      \/ b >= 248
  OBVIOUS
<1>. QED  BY <1>1, Length8Is

\* The scalar code accepts a character where the standard has one.
LEMMA AcceptedFits ==
  ASSUME input \in Seq(Nat), NEW p \in Nat, p < Len(input), NEW limit \in Nat,
         limit =< Len(input)
  PROVE  LET k == T!Length8(T!Unit(p))
         IN  /\ T!Accepted8(p, limit) <=>
                  p + k =< limit /\ k \in FitsAt("utf8", input, p + 1)
             /\ T!Accepted8(p, limit) =>
                  T!CodePoint8(p) = T!Payload("utf8", Piece(input, p + 1, k))
<1>. DEFINE k == T!Length8(T!Unit(p))
            c == T!CodePoint8(p)
            u == Piece(input, p + 1, k)
<1>1. T!Unit(p) \in Nat
  BY DEF T!Unit, T!count
<1>2. k \in 0 .. 4
  BY <1>1, Length8Type
<1>3. T!Accepted8(p, limit) <=>
        /\ k > 0 /\ p + k =< limit
        /\ \A i \in 1 .. k - 1 : T!IsContinuation(T!Unit(p + i))
        /\ c \in T!Range8(k)
  BY DEF T!Accepted8
<1>4. k \in FitsAt("utf8", input, p + 1) <=>
        k > 0 /\ p + k =< Len(input) /\ T!Encodes("utf8", u)
  BY <1>2, SMTT(30) DEF FitsAt
<1>. SUFFICES ASSUME k > 0, p + k =< limit
              PROVE  /\ T!Encodes("utf8", u) <=>
                          /\ \A i \in 1 .. k - 1 : T!IsContinuation(T!Unit(p + i))
                          /\ c \in T!Range8(k)
                     /\ c = T!Payload("utf8", u)
  <2>1. p + k =< limit => p + k =< Len(input)
    BY <1>2
  <2>. HIDE DEF k, c, u
  <2>. QED  BY <1>3, <1>4, <2>1 DEF k, c, u
<1>5. p + k =< Len(input) /\ k \in 1 .. 4
  BY <1>2
<1>. DEFINE a == T!Unit(p)
            b == T!Unit(p + 1)
            d == T!Unit(p + 2)
            e == T!Unit(p + 3)
<1>6. /\ k = 1 => u = << a >>
      /\ k = 2 => u = << a, b >> /\ b \in Nat
      /\ k = 3 => u = << a, b, d >> /\ b \in Nat /\ d \in Nat
      /\ k = 4 => u = << a, b, d, e >> /\ b \in Nat /\ d \in Nat /\ e \in Nat
  <2>. HIDE DEF k
  <2>1. /\ \A i \in p .. p + k - 1 : T!Unit(i) \in Nat
        /\ k = 1 => u = << a >>
        /\ k = 2 => u = << a, b >>
        /\ k = 3 => u = << a, b, d >>
        /\ k = 4 => u = << a, b, d, e >>
    BY <1>5, PieceIs
  <2>2. /\ k = 2 => p + 1 \in p .. p + k - 1
        /\ k = 3 => p + 1 \in p .. p + k - 1 /\ p + 2 \in p .. p + k - 1
        /\ k = 4 => /\ p + 1 \in p .. p + k - 1 /\ p + 2 \in p .. p + k - 1
                    /\ p + 3 \in p .. p + k - 1
    BY <1>5
  <2>3. /\ k = 2 => b \in Nat
        /\ k = 3 => b \in Nat /\ d \in Nat
        /\ k = 4 => b \in Nat /\ d \in Nat /\ e \in Nat
    BY <2>1, <2>2
  <2>. HIDE DEF a, b, d, e, u
  <2>. QED  BY <2>1, <2>3
<1>7. /\ k = 1 => a < 128
      /\ k = 2 => a >= 192 /\ a < 224
      /\ k = 3 => a >= 224 /\ a < 240
      /\ k = 4 => a >= 240 /\ a < 248
  <2>1. a \in Nat /\ k = T!Length8(a)
    BY <1>1
  <2>. HIDE DEF a, k
  <2>2. /\ a < 128 => k = 1
        /\ a >= 128 /\ a < 192 => k = 0
        /\ a >= 192 /\ a < 224 => k = 2
        /\ a >= 224 /\ a < 240 => k = 3
        /\ a >= 240 /\ a < 248 => k = 4
        /\ a >= 248 => k = 0
    BY <2>1, Length8Is, Zenon
  <2>. QED  BY <2>1, <2>2, SMTT(30)
<1>8. /\ k = 1 => c = a
      /\ k = 2 => c = (a % 32) * 64 + (b % 64)
      /\ k = 3 => c = (a % 16) * 4096 + (b % 64) * 64 + (d % 64)
      /\ k = 4 => c = (a % 8) * 262144 + (b % 64) * 4096 + (d % 64) * 64 + (e % 64)
  BY CodePoint8Is, SMT
<1>9. /\ k = 1 => ((\A i \in 1 .. k - 1 : T!IsContinuation(T!Unit(p + i))) <=> TRUE)
      /\ k = 2 => ((\A i \in 1 .. k - 1 : T!IsContinuation(T!Unit(p + i)))
                     <=> T!IsContinuation(b))
      /\ k = 3 => ((\A i \in 1 .. k - 1 : T!IsContinuation(T!Unit(p + i)))
                     <=> T!IsContinuation(b) /\ T!IsContinuation(d))
      /\ k = 4 => ((\A i \in 1 .. k - 1 : T!IsContinuation(T!Unit(p + i)))
                     <=> T!IsContinuation(b) /\ T!IsContinuation(d) /\ T!IsContinuation(e))
  <2>. HIDE DEF k
  <2>1. 1 .. 1 - 1 = {} /\ 1 .. 2 - 1 = {1} /\ 1 .. 3 - 1 = {1, 2} /\ 1 .. 4 - 1 = {1, 2, 3}
    OBVIOUS
  <2>2. /\ k = 1 => 1 .. k - 1 = {}
        /\ k = 2 => 1 .. k - 1 = {1}
        /\ k = 3 => 1 .. k - 1 = {1, 2}
        /\ k = 4 => 1 .. k - 1 = {1, 2, 3}
    BY <2>1, Zenon
  <2>. QED  BY <2>2
<1>10. a \in Nat
  BY <1>1
<1>15. \A x \in Nat : T!IsContinuation(x) <=> Follows(x)
  BY ContinuationIs
<1>. HIDE DEF a, b, c, d, e, k, u
<1>11. CASE k = 1
  <2>1. u = << a >> /\ a < 128 /\ c = a /\ c \in Nat
    BY <1>6, <1>7, <1>8, <1>10, <1>11
  <2>2. T!Encodes("utf8", << a >>) /\ T!Payload("utf8", << a >>) = a
    BY <1>10, <2>1, OneByte, PayloadOne
  <2>3. c \in T!Range8(k)
    BY <1>11, <2>1, Range8Is
  <2>. QED  BY <1>9, <1>11, <2>1, <2>2, <2>3
<1>12. CASE k = 2
  <2>1. /\ u = << a, b >> /\ a >= 192 /\ a < 224 /\ b \in Nat
        /\ c = (a % 32) * 64 + (b % 64) /\ c \in Nat
    BY <1>6, <1>7, <1>8, <1>10, <1>12
  <2>2. /\ T!Encodes("utf8", << a, b >>) <=> Follows(b) /\ c >= 128 /\ c < 2048
        /\ T!Payload("utf8", << a, b >>) = c
    <3>1. T!Payload("utf8", << a, b >>) = c
      BY <1>10, <2>1, PayloadTwo
    <3>2. T!Encodes("utf8", << a, b >>) <=>
            /\ a >= 192 /\ a < 224 /\ Follows(b)
            /\ (a % 32) * 64 + (b % 64) >= 128 /\ (a % 32) * 64 + (b % 64) < 2048
      BY <1>10, <2>1, TwoBytes, SMTT(30)
    <3>. QED  BY <2>1, <3>1, <3>2
  <2>3. /\ c \in T!Range8(k) <=> c >= 128 /\ c < 2048
        /\ T!IsContinuation(b) <=> Follows(b)
    <3>1. c \in T!Range8(2) <=> c >= 128 /\ c < 2048
      BY <2>1, Range8Is
    <3>2. T!IsContinuation(b) <=> Follows(b)
      BY <2>1, ContinuationIs
    <3>. QED  BY <1>12, <3>1, <3>2
  <2>. QED  BY <1>9, <1>12, <2>1, <2>2, <2>3
<1>13. CASE k = 3
  <2>1. /\ u = << a, b, d >> /\ a >= 224 /\ a < 240 /\ b \in Nat /\ d \in Nat
        /\ c = (a % 16) * 4096 + (b % 64) * 64 + (d % 64)
    BY <1>6, <1>7, <1>8, <1>10, <1>13, SMT
  <2>2. c \in Nat /\ c < 65536
    BY <1>10, <2>1, SMT
  <2>3. /\ T!Encodes("utf8", << a, b, d >>) <=>
             Follows(b) /\ Follows(d) /\ c >= 2048 /\ (c < 55296 \/ c > 57343)
        /\ T!Payload("utf8", << a, b, d >>) = c
    <3>3. b \in Nat /\ d \in Nat
      BY <2>1, SMT
    <3>4. T!Payload("utf8", << a, b, d >>) = Bits3(a, b, d)
      BY <1>10, <3>3, ThreePayload, Zenon
    <3>5. Bits3(a, b, d) = c
      BY <2>1, SMT DEF Bits3
    <3>1. T!Payload("utf8", << a, b, d >>) = c
      BY <3>4, <3>5, Zenon
    <3>2. T!Encodes("utf8", << a, b, d >>) <=>
            /\ a >= 224 /\ a < 240 /\ Follows(b) /\ Follows(d)
            /\ (a % 16) * 4096 + (b % 64) * 64 + (d % 64) >= 2048
            /\ \/ (a % 16) * 4096 + (b % 64) * 64 + (d % 64) < 55296
               \/ (a % 16) * 4096 + (b % 64) * 64 + (d % 64) > 57343
      BY <1>10, <2>1, ThreeBytes, SMT
    <3>. QED  BY <2>1, <3>1, <3>2, SMT
  <2>4. /\ c \in T!Range8(k) <=> c >= 2048 /\ (c < 55296 \/ c > 57343)
        /\ T!IsContinuation(b) <=> Follows(b)
        /\ T!IsContinuation(d) <=> Follows(d)
    <3>1. c \in T!Range8(3) <=> c >= 2048 /\ c < 65536 /\ (c < 55296 \/ c > 57343)
      BY <2>2, Range8Is, SMT
    <3>3. b \in Nat /\ d \in Nat
      BY <2>1, SMT
    <3>2. (T!IsContinuation(b) <=> Follows(b)) /\ (T!IsContinuation(d) <=> Follows(d))
      BY <1>15, <3>3
    <3>. QED  BY <1>13, <2>2, <3>1, <3>2, SMT
  <2>. QED  BY <1>9, <1>13, <2>1, <2>3, <2>4, SMTT(30)
<1>14. CASE k = 4
  <2>1. /\ u = << a, b, d, e >> /\ a >= 240 /\ a < 248
        /\ b \in Nat /\ d \in Nat /\ e \in Nat
        /\ c = (a % 8) * 262144 + (b % 64) * 4096 + (d % 64) * 64 + (e % 64)
    BY <1>6, <1>7, <1>8, <1>10, <1>14, SMT
  <2>2. c \in Nat
    BY <1>10, <2>1, SMT
  <2>3. /\ T!Encodes("utf8", << a, b, d, e >>) <=>
             Follows(b) /\ Follows(d) /\ Follows(e) /\ c >= 65536 /\ c =< 1114111
        /\ T!Payload("utf8", << a, b, d, e >>) = c
    <3>4. b \in Nat /\ d \in Nat /\ e \in Nat
      BY <2>1, SMT
    <3>5. T!Payload("utf8", << a, b, d, e >>) = Bits4(a, b, d, e)
      <4>1. a \in Nat /\ b \in Nat /\ d \in Nat /\ e \in Nat
        BY <1>10, <3>4
      <4>2. \A w, x, y, z \in Nat : T!Payload("utf8", << w, x, y, z >>) = Bits4(w, x, y, z)
        BY FourPayload
      <4>. QED  BY <4>1, <4>2, SMT
    <3>6. Bits4(a, b, d, e) = c
      BY <2>1, SMT DEF Bits4
    <3>1. T!Payload("utf8", << a, b, d, e >>) = c
      BY <3>5, <3>6, Zenon
    <3>. DEFINE x == (a % 8) * 262144 + (b % 64) * 4096 + (d % 64) * 64 + (e % 64)
    <3>2. T!Encodes("utf8", << a, b, d, e >>) <=>
            /\ a >= 240 /\ a < 248 /\ Follows(b) /\ Follows(d) /\ Follows(e)
            /\ x >= 65536 /\ x =< 1114111
      BY <1>10, <2>1, FourBytes, SMTT(30)
    <3>3. x = c
      BY <2>1, SMT
    <3>. HIDE DEF x
    <3>. QED  BY <2>1, <3>1, <3>2, <3>3, SMT
  <2>4. /\ c \in T!Range8(k) <=> c >= 65536 /\ c =< 1114111
        /\ T!IsContinuation(b) <=> Follows(b)
        /\ T!IsContinuation(d) <=> Follows(d)
        /\ T!IsContinuation(e) <=> Follows(e)
    <3>1. c \in T!Range8(4) <=> c >= 65536 /\ c =< 1114111
      BY <2>2, Range8Is, SMT
    <3>5. b \in Nat /\ d \in Nat /\ e \in Nat
      BY <2>1, SMT
    <3>2. T!IsContinuation(b) <=> Follows(b)
      BY <1>15, <3>5
    <3>3. T!IsContinuation(d) <=> Follows(d)
      BY <1>15, <3>5
    <3>4. T!IsContinuation(e) <=> Follows(e)
      BY <1>15, <3>5
    <3>. QED  BY <1>14, <3>1, <3>2, <3>3, <3>4, SMT
  <2>5. (\A i \in 1 .. k - 1 : T!IsContinuation(T!Unit(p + i)))
          <=> Follows(b) /\ Follows(d) /\ Follows(e)
    BY <1>9, <1>14, <2>4, SMT
  <2>6. u = << a, b, d, e >>
    BY <2>1, SMT
  <2>. QED  BY <2>3, <2>4, <2>5, <2>6, SMT
<1>. QED  BY <1>5, <1>11, <1>12, <1>13, <1>14

\* What the code puts together is what the standard says.
LEMMA BytesAre ==
  ASSUME NEW w \in Nat
  PROVE  /\ T!Bytes2(w) = Two(w) /\ T!Bytes3(w) = Three(w) /\ T!Bytes4(w) = Four(w)
         /\ w >= 65536 => T!Surrogates(w) = T!Utf16(w)
<1>1. T!Bytes2(w) = Two(w)
  BY DEF T!Bytes2, Two
<1>2. T!Bytes3(w) = Three(w)
  BY SMT DEF T!Bytes3, Three
<1>3. T!Bytes4(w) = Four(w)
  BY SMT DEF T!Bytes4, Four
<1>4. ASSUME w >= 65536 PROVE T!Surrogates(w) = T!Utf16(w)
  <2>1. (w - 65536) % 1024 = w % 1024
    BY <1>4, SMT
  <2>2. T!Surrogates(w) = << 55296 + (w - 65536) \div 1024, 56320 + ((w - 65536) % 1024) >>
    BY SMT DEF T!Surrogates, T!BeyondTwoBytes
  <2>. QED  BY <1>4, <2>1, <2>2, Utf16Is, SMT
<1>. QED  BY <1>1, <1>2, <1>3, <1>4, SMT

LEMMA OffsetIs ==
  ASSUME NEW w \in Nat, w < 65536
  PROVE  /\ T!Offset(w, 55296) =< 1023 <=> w >= 55296 /\ w < 56320
         /\ T!Offset(w, 56320) =< 1023 <=> w >= 56320 /\ w < 57344
         /\ w >= 55296 => T!Offset(w, 55296) = w - 55296
         /\ w >= 56320 => T!Offset(w, 56320) = w - 56320
BY SMT DEF T!Offset

\* units that are words of 16 bits
Narrow(u) == \A i \in 1 .. Len(u) : u[i] < 65536

LEMMA PairFits ==
  ASSUME input \in Seq(Nat), NEW p \in Nat, p + 2 =< Len(input), Narrow(input)
  PROVE  /\ T!IsPair(p) <=> 2 \in FitsAt("utf16", input, p + 1)
         /\ T!IsPair(p) => T!PairValue(p) = T!Payload("utf16", Piece(input, p + 1, 2))
<1>. DEFINE a == T!Unit(p)
            b == T!Unit(p + 1)
<1>1. /\ a \in Nat /\ b \in Nat /\ a < 65536 /\ b < 65536
      /\ Piece(input, p + 1, 2) = << a, b >>
  <2>1. /\ p \in p .. p + 2 - 1 /\ p + 1 \in p .. p + 2 - 1 /\ 2 \in 1 .. 4
        /\ p + 1 \in 1 .. Len(input) /\ (p + 1) + 1 \in 1 .. Len(input)
    OBVIOUS
  <2>2. a = input[p + 1] /\ b = input[(p + 1) + 1]
    BY <2>1, PieceIs
  <2>3. a \in Nat /\ b \in Nat /\ Piece(input, p + 1, 2) = << a, b >>
    BY <2>1, PieceIs
  <2>. HIDE DEF a, b
  <2>. QED  BY <2>1, <2>2, <2>3, SMT DEF Narrow
<1>2. T!IsPair(p) <=> T!Offset(a, 55296) =< 1023 /\ T!Offset(b, 56320) =< 1023
  BY DEF T!IsPair
<1>3. T!PairValue(p) = T!Offset(a, 55296) * 1024 + T!Offset(b, 56320) + 65536
  BY SMT DEF T!PairValue, T!BeyondTwoBytes
<1>4. 2 \in FitsAt("utf16", input, p + 1) <=> T!Encodes("utf16", << a, b >>)
  <2>1. (p + 1) + 2 - 1 =< Len(input) /\ 2 \in 1 .. 4
    OBVIOUS
  <2>. HIDE DEF a, b
  <2>2. 2 \in FitsAt("utf16", input, p + 1) <=> T!Encodes("utf16", Piece(input, p + 1, 2))
    BY <2>1 DEF FitsAt
  <2>3. Piece(input, p + 1, 2) = << a, b >>
    BY <1>1, SMT
  <2>4. T!Encodes("utf16", Piece(input, p + 1, 2)) <=> T!Encodes("utf16", << a, b >>)
    BY <2>3, Zenon
  <2>. QED  BY <2>2, <2>4, Zenon
<1>. HIDE DEF a, b
<1>5. T!Encodes("utf16", << a, b >>) <=> a >= 55296 /\ a < 56320 /\ b >= 56320 /\ b < 57344
  BY <1>1, TwoWords
<1>6. T!Payload("utf16", << a, b >>) = 65536 + (a - 55296) * 1024 + (b - 56320)
  BY <1>1, PayloadPair, SMT
<1>7. T!IsPair(p) <=> a >= 55296 /\ a < 56320 /\ b >= 56320 /\ b < 57344
  BY <1>1, <1>2, OffsetIs, SMT
<1>8. ASSUME T!IsPair(p) PROVE T!PairValue(p) = T!Payload("utf16", << a, b >>)
  BY <1>1, <1>3, <1>6, <1>7, <1>8, OffsetIs, SMT
<1>9. T!IsPair(p) <=> 2 \in FitsAt("utf16", input, p + 1)
  BY <1>4, <1>5, <1>7, SMT
<1>10. Piece(input, p + 1, 2) = << a, b >>
  BY <1>1, SMT
<1>. QED  BY <1>8, <1>9, <1>10, Zenon

LEMMA WordFits ==
  ASSUME input \in Seq(Nat), NEW p \in Nat, p < Len(input)
  PROVE  /\ Piece(input, p + 1, 1) = << T!Unit(p) >>
         /\ T!Unit(p) < 128 <=> 1 \in FitsAt("utf8", input, p + 1)
         /\ T!Unit(p) < 65536 =>
              (1 \in FitsAt("utf16", input, p + 1) <=> ~T!IsSurrogate(T!Unit(p)))
         /\ 1 \in FitsAt("utf32", input, p + 1) <=> T!IsCharacter(T!Unit(p))
<1>1. T!Unit(p) \in Nat /\ Piece(input, p + 1, 1) = << T!Unit(p) >>
  <2>1. p \in p .. p + 1 - 1 /\ 1 \in 1 .. 4 /\ p + 1 =< Len(input)
    OBVIOUS
  <2>. QED  BY <2>1, PieceIs
<1>2. \A form : 1 \in FitsAt(form, input, p + 1) <=> T!Encodes(form, << T!Unit(p) >>)
  <2>1. (p + 1) + 1 - 1 =< Len(input) /\ 1 \in 1 .. 4
    OBVIOUS
  <2>. QED  BY <1>1, <2>1 DEF FitsAt
<1>3. T!Encodes("utf8", << T!Unit(p) >>) <=> T!Unit(p) < 128
  BY <1>1, OneByte
<1>4. /\ T!Unit(p) < 65536 => (T!Encodes("utf16", << T!Unit(p) >>)
                                 <=> T!Unit(p) < 55296 \/ T!Unit(p) > 57343)
      /\ T!Encodes("utf32", << T!Unit(p) >>) <=> T!IsCharacter(T!Unit(p))
  BY <1>1, OneWord
<1>5. T!IsSurrogate(T!Unit(p)) <=> T!Unit(p) >= 55296 /\ T!Unit(p) =< 57343
  BY <1>1, SurrogateFacts
<1>. QED  BY <1>1, <1>2, <1>3, <1>4, <1>5, SMT

-----------------------------------------------------------------------------
(* A round of a scalar loop.                                               *)

\* after i units of u, w has been written by f
InStep(f, u, i, w) ==
  /\ i \in 0 .. Len(u)
  /\ Boundary(T!From(f), u, i)
  /\ w = Text(T!From(f), T!To(f), u, i)

LEMMA FormFacts ==
  ASSUME NEW f \in T!Kernels
  PROVE  T!From(f) \in Forms /\ T!To(f) \in Forms
BY DEF T!Kernels, T!ScalarKernels, T!Rvv8Kernels, T!Rvv16Kernels, T!From, T!To, Forms

LEMMA OneMore ==
  ASSUME NEW f \in T!Kernels, NEW u \in Seq(Nat), NEW i \in Nat, NEW w,
         InStep(f, u, i, w), i < Len(u), NEW k \in FitsAt(T!From(f), u, i + 1)
  PROVE  InStep(f, u, i + k, w \o Converted(T!From(f), T!To(f), u, i + 1, k))
<1>1. i \in 0 .. Len(u) - 1 /\ Boundary(T!From(f), u, i) /\ w = Text(T!From(f), T!To(f), u, i)
  BY DEF InStep
<1>2. T!From(f) \in Forms /\ T!To(f) \in Forms
  BY FormFacts
<1>3. /\ i + k \in 0 .. Len(u) /\ Boundary(T!From(f), u, i + k)
      /\ Text(T!From(f), T!To(f), u, i + k)
           = Text(T!From(f), T!To(f), u, i) \o Converted(T!From(f), T!To(f), u, i + 1, k)
  BY <1>1, <1>2, NextCharacter
<1>. QED  BY <1>1, <1>3 DEF InStep

\* A character that encoding forms write in one unit.
LEMMA AsciiFits ==
  ASSUME input \in Seq(Nat), NEW p \in Nat, p < Len(input), T!Unit(p) < 128,
         NEW from \in Forms, NEW to \in Forms
  PROVE  /\ 1 \in FitsAt(from, input, p + 1)
         /\ Converted(from, to, input, p + 1, 1) = << T!Unit(p) >>
<1>. DEFINE w == T!Unit(p)
<1>1. w \in Nat /\ w < 128 /\ Piece(input, p + 1, 1) = << w >>
  BY WordFits DEF T!Unit, T!count
<1>2. /\ w < 128 <=> 1 \in FitsAt("utf8", input, p + 1)
      /\ w < 65536 => (1 \in FitsAt("utf16", input, p + 1) <=> ~T!IsSurrogate(w))
      /\ 1 \in FitsAt("utf32", input, p + 1) <=> T!IsCharacter(w)
  BY WordFits, SMT
<1>. HIDE DEF w
<1>3. ~T!IsSurrogate(w) /\ T!IsCharacter(w)
  BY <1>1, CharacterFacts, SurrogateFacts, SMT
<1>4. T!Utf8(w) = << w >> /\ T!Utf16(w) = << w >>
  BY <1>1, Utf8Is, Utf16Is, SMT
<1>5. T!Encoded(to, w) = << w >>
  BY <1>4 DEF T!Encoded, Forms
<1>6. T!Payload(from, << w >>) = w
  BY PayloadOne
<1>7. Converted(from, to, input, p + 1, 1) = << w >>
  BY <1>1, <1>5, <1>6, Zenon DEF Converted
<1>8. w < 65536
  BY <1>1, SMT
<1>9. 1 \in FitsAt("utf8", input, p + 1)
  BY <1>1, <1>2, SMT
<1>10. 1 \in FitsAt("utf16", input, p + 1)
  BY <1>2, <1>3, <1>8, SMT
<1>11. 1 \in FitsAt("utf32", input, p + 1)
  BY <1>2, <1>3, SMT
<1>12. 1 \in FitsAt(from, input, p + 1)
  BY <1>9, <1>10, <1>11 DEF Forms
<1>. QED  BY <1>7, <1>12 DEF w

\* A round for UTF-8: a character that is accepted is converted as the
\* standard does it, and one that is not is none.
LEMMA Utf8Round ==
  ASSUME input \in Seq(Nat), NEW p \in Nat, p < Len(input)
  PROVE  LET k == T!Length8(T!Unit(p))
             c == T!CodePoint8(p)
         IN  /\ T!Accepted8(p, Len(input)) =>
                  /\ k \in FitsAt("utf8", input, p + 1)
                  /\ (IF k = 4 THEN T!Surrogates(c) ELSE << c >>)
                       = Converted("utf8", "utf16", input, p + 1, k)
                  /\ << c >> = Converted("utf8", "utf32", input, p + 1, k)
             /\ ~T!Accepted8(p, Len(input)) => FitsAt("utf8", input, p + 1) = {}
<1>. DEFINE k == T!Length8(T!Unit(p))
            c == T!CodePoint8(p)
<1>1. Len(input) \in Nat /\ T!Unit(p) \in Nat /\ T!Unit(p) = input[p + 1]
      /\ p + 1 \in 1 .. Len(input) /\ "utf8" \in Forms
  BY DEF T!Unit, T!count, Forms
<1>2. /\ T!Accepted8(p, Len(input)) <=>
           p + k =< Len(input) /\ k \in FitsAt("utf8", input, p + 1)
      /\ T!Accepted8(p, Len(input)) => c = T!Payload("utf8", Piece(input, p + 1, k))
  BY <1>1, AcceptedFits
<1>3. T!Accepted8(p, Len(input)) => c \in T!Range8(k)
  BY DEF T!Accepted8
<1>. HIDE DEF c
<1>4. ASSUME T!Accepted8(p, Len(input))
      PROVE  /\ k \in FitsAt("utf8", input, p + 1)
             /\ (IF k = 4 THEN T!Surrogates(c) ELSE << c >>)
                  = Converted("utf8", "utf16", input, p + 1, k)
             /\ << c >> = Converted("utf8", "utf32", input, p + 1, k)
  <2>. HIDE DEF k
  <2>1. k \in FitsAt("utf8", input, p + 1) /\ c = T!Payload("utf8", Piece(input, p + 1, k))
        /\ c \in T!Range8(k)
    BY <1>2, <1>3, <1>4
  <2>2. k \in 1 .. 4 /\ c \in Nat
    BY <1>1, <2>1, OneFits
  <2>3. k = 4 => c >= 65536
    BY <2>1, <2>2, Range8Is, SMT
  <2>4. k # 4 => c < 65536
    <3>1. k # 4 => k = 1 \/ k = 2 \/ k = 3
      BY <2>2
    <3>2. k = 1 => c < 65536
      BY <2>1, <2>2, Range8Is, SMT
    <3>3. k = 2 => c < 65536
      BY <2>1, <2>2, Range8Is, SMT
    <3>4. k = 3 => c < 65536
      BY <2>1, <2>2, Range8Is, SMT
    <3>. QED  BY <3>1, <3>2, <3>3, <3>4, SMT
  <2>5. k = 4 => T!Surrogates(c) = T!Utf16(c)
    BY <2>2, <2>3, BytesAre, SMT
  <2>6. k # 4 => << c >> = T!Utf16(c)
    BY <2>2, <2>4, Utf16Is, SMT
  <2>7. T!Encoded("utf16", c) = T!Utf16(c) /\ T!Encoded("utf32", c) = << c >>
    BY DEF T!Encoded
  <2>8. /\ Converted("utf8", "utf16", input, p + 1, k) = T!Utf16(c)
        /\ Converted("utf8", "utf32", input, p + 1, k) = << c >>
    BY <2>1, <2>7, Zenon DEF Converted
  <2>9. (IF k = 4 THEN T!Surrogates(c) ELSE << c >>) = T!Utf16(c)
    BY <2>5, <2>6
  <2>. QED  BY <2>1, <2>8, <2>9, Zenon
<1>5. ASSUME ~T!Accepted8(p, Len(input)), NEW l \in FitsAt("utf8", input, p + 1)
      PROVE  FALSE
  <2>1. l = Leading("utf8", input[p + 1]) /\ (p + 1) + l - 1 =< Len(input) /\ l \in 1 .. 4
    BY <1>1, OneFits
  <2>2. l = k
    BY <1>1, <2>1 DEF Leading
  <2>3. p + l =< Len(input)
    BY <1>1, <2>1
  <2>. QED  BY <1>2, <1>5, <2>2, <2>3
<1>. QED  BY <1>4, <1>5 DEF c

\* A round for UTF-16.
LEMMA Utf16Round ==
  ASSUME input \in Seq(Nat), Narrow(input), NEW p \in Nat, p < Len(input)
  PROVE  LET word == T!Unit(p)
             pair == p + 1 < Len(input) /\ T!IsPair(p)
         IN  /\ word \in Nat
             /\ ~T!IsSurrogate(word) =>
                  /\ 1 \in FitsAt("utf16", input, p + 1)
                  /\ Converted("utf16", "utf8", input, p + 1, 1) =
                       IF word < 128 THEN T!Bytes1(word)
                       ELSE IF word < 2048 THEN T!Bytes2(word) ELSE T!Bytes3(word)
             /\ T!IsSurrogate(word) /\ pair =>
                  /\ 2 \in FitsAt("utf16", input, p + 1)
                  /\ Converted("utf16", "utf8", input, p + 1, 2) = T!Bytes4(T!PairValue(p))
             /\ T!IsSurrogate(word) /\ ~pair => FitsAt("utf16", input, p + 1) = {}
<1>. DEFINE word == T!Unit(p)
            pair == p + 1 < Len(input) /\ T!IsPair(p)
<1>1. /\ Len(input) \in Nat /\ word \in Nat /\ word = input[p + 1]
      /\ p + 1 \in 1 .. Len(input) /\ "utf16" \in Forms
  BY DEF T!Unit, T!count, Forms
<1>2. word < 65536
  BY <1>1, SMT DEF Narrow
<1>3. /\ Piece(input, p + 1, 1) = << word >>
      /\ 1 \in FitsAt("utf16", input, p + 1) <=> ~T!IsSurrogate(word)
  BY <1>2, WordFits, SMT
<1>. HIDE DEF word
<1>4. ASSUME ~T!IsSurrogate(word)
      PROVE  Converted("utf16", "utf8", input, p + 1, 1) =
               IF word < 128 THEN T!Bytes1(word)
               ELSE IF word < 2048 THEN T!Bytes2(word) ELSE T!Bytes3(word)
  <2>1. T!Payload("utf16", << word >>) = word
    BY PayloadOne
  <2>2. T!Encoded("utf8", word) = T!Utf8(word)
    BY DEF T!Encoded
  <2>3. Converted("utf16", "utf8", input, p + 1, 1) = T!Utf8(word)
    BY <1>3, <2>1, <2>2, Zenon DEF Converted
  <2>4. word < 128 => T!Utf8(word) = T!Bytes1(word)
    BY <1>1, Utf8Is, SMT DEF T!Bytes1
  <2>5. ~(word < 128) /\ word < 2048 => T!Utf8(word) = T!Bytes2(word)
    BY <1>1, Utf8Is, BytesAre, SMT
  <2>6. ~(word < 2048) => T!Utf8(word) = T!Bytes3(word)
    BY <1>1, <1>2, Utf8Is, BytesAre, SMT
  <2>. QED  BY <2>3, <2>4, <2>5, <2>6
<1>5. ASSUME pair
      PROVE  /\ T!IsPair(p) <=> 2 \in FitsAt("utf16", input, p + 1)
             /\ Converted("utf16", "utf8", input, p + 1, 2) = T!Bytes4(T!PairValue(p))
  <2>1. p + 2 =< Len(input) /\ T!IsPair(p)
    BY <1>1, <1>5
  <2>2. /\ T!IsPair(p) <=> 2 \in FitsAt("utf16", input, p + 1)
        /\ T!PairValue(p) = T!Payload("utf16", Piece(input, p + 1, 2))
    BY <2>1, PairFits
  <2>3. T!Encoded("utf8", T!PairValue(p)) = T!Utf8(T!PairValue(p))
    BY DEF T!Encoded
  <2>4. T!PairValue(p) \in Nat
    BY <1>1, <2>1, <2>2, OneFits
  <2>5. T!PairValue(p) >= 65536
    <3>1. T!Offset(T!Unit(p), 55296) \in Nat /\ T!Offset(T!Unit(p + 1), 56320) \in Nat
      <4>1. T!Unit(p) \in Nat /\ T!Unit(p + 1) \in Nat
        BY <2>1 DEF T!Unit, T!count
      <4>. QED  BY <4>1, SMTT(30) DEF T!Offset
    <3>2. T!PairValue(p) = T!Offset(T!Unit(p), 55296) * 1024 + T!Offset(T!Unit(p + 1), 56320) + 65536
      BY SMT DEF T!PairValue, T!BeyondTwoBytes
    <3>. QED  BY <3>1, <3>2, SMT
  <2>6. T!Utf8(T!PairValue(p)) = T!Bytes4(T!PairValue(p))
    BY <2>4, <2>5, Utf8Is, BytesAre, SMT
  <2>. QED  BY <2>2, <2>3, <2>6, Zenon DEF Converted
<1>6. ASSUME T!IsSurrogate(word), ~pair, NEW l \in FitsAt("utf16", input, p + 1)
      PROVE  FALSE
  <2>1. l = Leading("utf16", input[p + 1]) /\ (p + 1) + l - 1 =< Len(input) /\ l \in 1 .. 4
    BY <1>1, OneFits
  <2>2. l = 2
    BY <1>1, <1>6, <2>1 DEF Leading
  <2>3. p + 2 =< Len(input) /\ p + 1 < Len(input)
    BY <1>1, <2>1, <2>2
  <2>4. T!IsPair(p) <=> 2 \in FitsAt("utf16", input, p + 1)
    BY <2>3, PairFits
  <2>. QED  BY <1>6, <2>2, <2>3, <2>4
<1>. HIDE DEF pair
<1>7. T!IsSurrogate(word) /\ ~pair => FitsAt("utf16", input, p + 1) = {}
  BY <1>6
<1>8. pair => T!IsPair(p)
  BY DEF pair
<1>. QED  BY <1>1, <1>3, <1>4, <1>5, <1>7, <1>8, Zenon DEF word, pair

\* the bytes scalar code stores for a character
BytesOfWord(w) == IF w < 128 THEN T!Bytes1(w)
                  ELSE IF w < 2048 THEN T!Bytes2(w)
                  ELSE IF w < T!BeyondTwoBytes THEN T!Bytes3(w)
                  ELSE T!Bytes4(w)

\* A round for UTF-32.
LEMMA Utf32Round ==
  ASSUME input \in Seq(Nat), NEW p \in Nat, p < Len(input)
  PROVE  LET word == T!Unit(p)
         IN  /\ word \in Nat
             /\ T!IsSurrogate(word) \/ word > T!LastCharacter => FitsAt("utf32", input, p + 1) = {}
             /\ ~T!IsSurrogate(word) /\ word =< T!LastCharacter =>
                  /\ 1 \in FitsAt("utf32", input, p + 1)
                  /\ Converted("utf32", "utf8", input, p + 1, 1) = BytesOfWord(word)
                  /\ Converted("utf32", "utf16", input, p + 1, 1) =
                       IF word < T!BeyondTwoBytes THEN << word >> ELSE T!Surrogates(word)
<1>. DEFINE word == T!Unit(p)
<1>1. /\ Len(input) \in Nat /\ word \in Nat /\ word = input[p + 1]
      /\ p + 1 \in 1 .. Len(input) /\ "utf32" \in Forms
  BY DEF T!Unit, T!count, Forms
<1>2. /\ Piece(input, p + 1, 1) = << word >>
      /\ 1 \in FitsAt("utf32", input, p + 1) <=> T!IsCharacter(word)
  BY WordFits, SMT
<1>. HIDE DEF word
<1>3. T!IsCharacter(word) <=> ~T!IsSurrogate(word) /\ word =< T!LastCharacter
  BY <1>1, CharacterFacts, SurrogateFacts, UnicodeNumbers, SMT
<1>4. ASSUME T!IsSurrogate(word) \/ word > T!LastCharacter,
             NEW l \in FitsAt("utf32", input, p + 1)
      PROVE  FALSE
  <2>1. l = Leading("utf32", input[p + 1])
    BY <1>1, OneFits
  <2>2. l = 1
    BY <2>1 DEF Leading
  <2>3. T!IsCharacter(word)
    BY <1>2, <2>2
  <2>. QED  BY <1>1, <1>3, <1>4, <2>3, UnicodeNumbers, SMT
<1>5. T!Payload("utf32", << word >>) = word
  BY PayloadOne
<1>6. T!Encoded("utf8", word) = T!Utf8(word) /\ T!Encoded("utf16", word) = T!Utf16(word)
  BY DEF T!Encoded
<1>7. /\ Converted("utf32", "utf8", input, p + 1, 1) = T!Utf8(word)
      /\ Converted("utf32", "utf16", input, p + 1, 1) = T!Utf16(word)
  BY <1>2, <1>5, <1>6, Zenon DEF Converted
<1>. DEFINE big == ~(word < T!BeyondTwoBytes)
<1>8. big <=> word >= 65536
  BY <1>1, UnicodeNumbers, SMT
<1>9. /\ word < 128 => T!Utf8(word) = T!Bytes1(word)
      /\ ~(word < 128) /\ word < 2048 => T!Utf8(word) = T!Bytes2(word)
      /\ ~(word < 2048) /\ ~big => T!Utf8(word) = T!Bytes3(word)
      /\ big => T!Utf8(word) = T!Bytes4(word)
      /\ big => ~(word < 128) /\ ~(word < 2048)
  <2>. HIDE DEF big
  <2>1. word < 128 => T!Utf8(word) = T!Bytes1(word)
    BY <1>1, Utf8Is, SMT DEF T!Bytes1
  <2>2. ~(word < 128) /\ word < 2048 => T!Utf8(word) = T!Bytes2(word)
    BY <1>1, Utf8Is, BytesAre, SMT
  <2>3. ~(word < 2048) /\ ~big => T!Utf8(word) = T!Bytes3(word)
    BY <1>1, <1>8, Utf8Is, BytesAre, SMT
  <2>4. big => T!Utf8(word) = T!Bytes4(word)
    BY <1>1, <1>8, Utf8Is, BytesAre, SMT
  <2>5. big => ~(word < 128) /\ ~(word < 2048)
    BY <1>1, <1>8, SMT
  <2>. QED  BY <2>1, <2>2, <2>3, <2>4, <2>5
<1>10. /\ ~big => T!Utf16(word) = << word >>
       /\ big => T!Utf16(word) = T!Surrogates(word)
  <2>. HIDE DEF big
  <2>1. ~big => T!Utf16(word) = << word >>
    BY <1>1, <1>8, Utf16Is, SMT
  <2>2. big => T!Utf16(word) = T!Surrogates(word)
    BY <1>1, <1>8, BytesAre, SMT
  <2>. QED  BY <2>1, <2>2
<1>11. T!Utf8(word) = BytesOfWord(word)
  BY <1>9 DEF BytesOfWord
<1>12. T!Utf16(word) = IF word < T!BeyondTwoBytes THEN << word >> ELSE T!Surrogates(word)
  BY <1>10
<1>13. ~T!IsSurrogate(word) /\ word =< T!LastCharacter => 1 \in FitsAt("utf32", input, p + 1)
  BY <1>2, <1>3
<1>14. T!IsSurrogate(word) \/ word > T!LastCharacter => FitsAt("utf32", input, p + 1) = {}
  BY <1>4
<1>15. Converted("utf32", "utf8", input, p + 1, 1) = BytesOfWord(word)
  BY <1>7, <1>11
<1>16. Converted("utf32", "utf16", input, p + 1, 1) =
         IF word < T!BeyondTwoBytes THEN << word >> ELSE T!Surrogates(word)
  BY <1>7, <1>12
<1>17. word \in Nat
  BY <1>1
<1>. QED  BY <1>13, <1>14, <1>15, <1>16, <1>17 DEF word

-----------------------------------------------------------------------------
(* Characters of one unit each, joined.                                    *)

\* what FlattenSeq goes through: the first elements of s, joined
JoinedAt(s, f, i) == IF i = 1 THEN s[i] ELSE f[i - 1] \o s[i]
Joined(s) == CHOOSE f : f = [i \in 1 .. Len(s) |-> JoinedAt(s, f, i)]

LEMMA FlattenIsJoined ==
  ASSUME NEW s
  PROVE  /\ Len(s) = 0 => T!FlattenSeq(s) = s
         /\ Len(s) # 0 => T!FlattenSeq(s) = Joined(s)[Len(s)]
BY DEF T!FlattenSeq, Joined, JoinedAt

LEMMA JoinedExists ==
  ASSUME NEW s, Len(s) \in Nat
  PROVE  \A i \in 1 .. Len(s) : Joined(s)[i] = JoinedAt(s, Joined(s), i)
<1>. DEFINE l == Len(s)
            Fixed(f, m) == f = [i \in 1 .. m |-> JoinedAt(s, f, i)]
            Good == { m \in 0 .. l : \E f : Fixed(f, m) }
<1>1. l \in Nat
  OBVIOUS
<1>2. Fixed([i \in 1 .. 0 |-> << >>], 0)
  OBVIOUS
<1>3. ASSUME NEW m \in 0 .. l - 1, NEW f, Fixed(f, m)
      PROVE  \E g : Fixed(g, m + 1)
  <2>. DEFINE a == m + 1
              g == [i \in 1 .. a |-> IF i < a THEN f[i] ELSE JoinedAt(s, f, a)]
  <2>1. a \in Nat /\ m \in Nat /\ a - 1 = m /\ 1 .. m \subseteq 1 .. a
    BY <1>1
  <2>2. \A i \in 1 .. m : f[i] = JoinedAt(s, f, i)
    BY <1>3
  <2>3. \A i \in 1 .. m : g[i] = f[i]
    BY <2>1
  <2>4. ASSUME NEW i \in 1 .. a PROVE JoinedAt(s, f, i) = JoinedAt(s, g, i)
    <3>1. i = 1 \/ i - 1 \in 1 .. m
      BY <2>1
    <3>2. i - 1 \in 1 .. m => g[i - 1] = f[i - 1]
      BY <2>3
    <3>. HIDE DEF g
    <3>. QED  BY <3>1, <3>2 DEF JoinedAt
  <2>5. \A i \in 1 .. a : g[i] = JoinedAt(s, f, i)
    <3>1. \A i \in 1 .. a : i < a => i \in 1 .. m
      BY <2>1
    <3>2. \A i \in 1 .. a : i < a \/ i = a
      BY <2>1
    <3>. QED  BY <2>2, <3>1, <3>2
  <2>6. g = [i \in 1 .. a |-> g[i]]
    OBVIOUS
  <2>. HIDE DEF g, a
  <2>7. g = [i \in 1 .. a |-> JoinedAt(s, g, i)]
    BY <2>4, <2>5, <2>6
  <2>. QED  BY <2>7 DEF a
<1>4. Joined(s) = CHOOSE f : Fixed(f, l)
  BY DEF Joined
<1>. HIDE DEF Fixed
<1>5. 0 \in Good /\ \A m \in 0 .. l - 1 : m \in Good => m + 1 \in Good
  BY <1>1, <1>2, <1>3
<1>6. \A m \in Good : \E f : Fixed(f, m)
  OBVIOUS
<1>. HIDE DEF Good
<1>7. \A m \in 0 .. l : m \in Good
  BY <1>1, <1>5, Induction
<1>8. \E f : Fixed(f, l)
  BY <1>1, <1>6, <1>7
<1>9. Fixed(Joined(s), l)
  BY <1>4, <1>8
<1>10. Joined(s) = [i \in 1 .. l |-> JoinedAt(s, Joined(s), i)]
  BY <1>9 DEF Fixed
<1>. QED  BY <1>10

LEMMA ChainInStep ==
  ASSUME NEW f \in T!Kernels, NEW u \in Seq(Nat), NEW i \in Nat, NEW m \in Nat, NEW w,
         i + m =< Len(u), InStep(f, u, i, w), NEW g,
         Chain(T!From(f), T!To(f), u, i, m, g)
  PROVE  InStep(f, u, i + m, w \o g[m])
<1>1. /\ T!From(f) \in Forms /\ T!To(f) \in Forms /\ Boundary(T!From(f), u, i)
      /\ w = Text(T!From(f), T!To(f), u, i) /\ Len(u) \in Nat
  BY FormFacts DEF InStep
<1>2. PICK a \in Forms, b \in Forms : a = T!From(f) /\ b = T!To(f)
  BY <1>1
<1>3. Boundary(a, u, i) /\ Chain(a, b, u, i, m, g)
  BY <1>1, <1>2
<1>4. /\ Boundary(a, u, i + m)
      /\ Text(a, b, u, i + m) = Text(a, b, u, i) \o g[m]
  BY <1>3, Singles
<1>5. i + m \in 0 .. Len(u)
  BY <1>1
<1>. QED  BY <1>1, <1>2, <1>4, <1>5 DEF InStep

LEMMA FunctionIsSeq ==
  ASSUME NEW Y, NEW m \in Nat, NEW s \in [1 .. m -> Y]
  PROVE  s \in Seq(Y) /\ Len(s) = m
OBVIOUS

\* Characters of one unit each, converted one by one and joined.
LEMMA JoinInStep ==
  ASSUME NEW f \in T!Kernels, NEW u \in Seq(Nat), NEW i \in Nat, NEW m \in Nat, NEW w,
         i + m =< Len(u), InStep(f, u, i, w),
         \A x \in 1 .. m : 1 \in FitsAt(T!From(f), u, i + x),
         NEW s, s = [x \in 1 .. m |-> Converted(T!From(f), T!To(f), u, i + x, 1)]
  PROVE  /\ InStep(f, u, i + m, w \o T!FlattenSeq(s))
         /\ T!FlattenSeq(s) \in Seq(Int)
<1>. DEFINE C(x) == Converted(T!From(f), T!To(f), u, i + x, 1)
            g == [x \in 0 .. m |-> IF x = 0 THEN << >> ELSE Joined(s)[x]]
<1>1. /\ T!From(f) \in Forms /\ T!To(f) \in Forms /\ Boundary(T!From(f), u, i)
      /\ w = Text(T!From(f), T!To(f), u, i) /\ Len(u) \in Nat
  BY FormFacts DEF InStep
<1>2. \A x \in 1 .. m : C(x) \in Seq(Nat)
  <2>1. ASSUME NEW x \in 1 .. m PROVE C(x) \in Seq(Nat)
    <3>1. i + x \in 1 .. Len(u)
      BY <1>1
    <3>2. 1 \in FitsAt(T!From(f), u, i + x)
      OBVIOUS
    <3>. QED  BY <1>1, <3>1, <3>2, OneFits
  <2>. QED  BY <2>1
<1>. HIDE DEF C
<1>3. s = [x \in 1 .. m |-> C(x)]
  BY DEF C
<1>4. s \in Seq(Seq(Nat)) /\ Len(s) = m /\ \A x \in 1 .. m : s[x] = C(x)
  <2>. DEFINE Y == Seq(Nat)
  <2>1. \A x \in 1 .. m : C(x) \in Y
    BY <1>2
  <2>. HIDE DEF Y
  <2>2. [x \in 1 .. m |-> C(x)] \in [1 .. m -> Y]
    BY <2>1
  <2>3. s \in [1 .. m -> Y] /\ \A x \in 1 .. m : s[x] = C(x)
    BY <1>3, <2>2, Zenon
  <2>4. s \in Seq(Y) /\ Len(s) = m
    BY <2>3, FunctionIsSeq
  <2>. QED  BY <2>3, <2>4 DEF Y
<1>5. \A x \in 1 .. m : Joined(s)[x] = JoinedAt(s, Joined(s), x)
  BY <1>4, JoinedExists
<1>6. \A x \in 1 .. m : C(x) \in Seq(Int)
  <2>1. \A t : t \in Seq(Nat) => t \in Seq(Int)
    BY SeqMonotonic
  <2>. QED  BY <1>2, <2>1
<1>7. g[0] = << >> /\ \A x \in 1 .. m : g[x] = Joined(s)[x]
  OBVIOUS
<1>8. \A x \in 0 .. m - 1 : g[x + 1] = g[x] \o C(x + 1)
  <2>1. ASSUME NEW x \in 0 .. m - 1 PROVE g[x + 1] = g[x] \o C(x + 1)
    <3>1. x + 1 \in 1 .. m /\ g[x + 1] = JoinedAt(s, Joined(s), x + 1) /\ s[x + 1] = C(x + 1)
      BY <1>4, <1>5, <1>7
    <3>2. CASE x = 0
      <4>1. g[x + 1] = C(x + 1)
        BY <3>1, <3>2 DEF JoinedAt
      <4>2. PICK t \in Seq(Int) : t = C(x + 1)
        BY <1>6, <3>1
      <4>3. << >> \o t = t
        BY ConcatEmptySeq
      <4>. QED  BY <1>7, <3>2, <4>1, <4>2, <4>3
    <3>3. CASE x # 0
      <4>1. x + 1 # 1 /\ (x + 1) - 1 = x /\ x \in 1 .. m
        BY <3>3
      <4>2. g[x + 1] = Joined(s)[x] \o s[x + 1]
        BY <3>1, <4>1 DEF JoinedAt
      <4>. QED  BY <1>7, <3>1, <4>1, <4>2
    <3>. QED  BY <3>2, <3>3
  <2>. QED  BY <2>1
<1>. HIDE DEF g
<1>9. \A x \in 0 .. m : g[x] \in Seq(Int)
  <2>. DEFINE Z == Seq(Int)
              S == { x \in 0 .. m : g[x] \in Z }
  <2>1. 0 \in S
    <3>1. << >> \in Z /\ 0 \in 0 .. m
      BY EmptySeq
    <3>. HIDE DEF Z
    <3>. QED  BY <1>7, <3>1
  <2>2. ASSUME NEW x \in 0 .. m - 1, x \in S PROVE x + 1 \in S
    <3>1. PICK a \in Seq(Int), b \in Seq(Int) : a = g[x] /\ b = C(x + 1)
      BY <1>6, <2>2
    <3>2. a \o b \in Seq(Int)
      OBVIOUS
    <3>3. x + 1 \in 0 .. m
      OBVIOUS
    <3>. QED  BY <1>8, <3>1, <3>2, <3>3
  <2>3. \A x \in S : g[x] \in Z
    OBVIOUS
  <2>. HIDE DEF S, Z
  <2>4. \A x \in 0 .. m : x \in S
    BY <2>1, <2>2, Induction
  <2>. QED  BY <2>3, <2>4 DEF Z
<1>10. InStep(f, u, i + m, w \o g[m])
  <2>1. \A x \in 0 .. m - 1 :
          g[x + 1] = g[x] \o Converted(T!From(f), T!To(f), u, i + (x + 1), 1)
    BY <1>8 DEF C
  <2>2. \A x \in 1 .. m : 1 \in FitsAt(T!From(f), u, i + x)
    OBVIOUS
  <2>3. Chain(T!From(f), T!To(f), u, i, m, g)
    BY <1>7, <1>9, <2>1, <2>2 DEF Chain
  <2>. QED  BY <2>3, ChainInStep
<1>11. T!FlattenSeq(s) = g[m]
  <2>1. CASE m = 0
    <3>1. s = << >>
      BY <1>4, <2>1, EmptySeq
    <3>2. T!FlattenSeq(s) = s
      BY <1>4, <2>1, FlattenIsJoined
    <3>. QED  BY <1>7, <2>1, <3>1, <3>2
  <2>2. CASE m # 0
    <3>1. T!FlattenSeq(s) = Joined(s)[m]
      BY <1>4, <2>2, FlattenIsJoined
    <3>2. m \in 1 .. m
      BY <2>2
    <3>. QED  BY <1>7, <3>1, <3>2
  <2>. QED  BY <2>1, <2>2
<1>12. m \in 0 .. m
  OBVIOUS
<1>. QED  BY <1>9, <1>10, <1>11, <1>12

\* ASCII is copied.
LEMMA CopyInStep ==
  ASSUME NEW f \in T!Kernels, input \in Seq(Nat), NEW i \in Nat, NEW m \in Nat, NEW w,
         i + m =< Len(input), InStep(f, input, i, w),
         \A x \in 1 .. m : T!Unit(i + x - 1) < 128
  PROVE  InStep(f, input, i + m, w \o [x \in 1 .. m |-> T!Unit(i + x - 1)])
<1>. DEFINE v == [x \in 1 .. m |-> T!Unit(i + x - 1)]
            g == [x \in 0 .. m |-> SubSeq(v, 1, x)]
            C(x) == Converted(T!From(f), T!To(f), input, i + x, 1)
<1>1. /\ T!From(f) \in Forms /\ T!To(f) \in Forms /\ Boundary(T!From(f), input, i)
      /\ w = Text(T!From(f), T!To(f), input, i) /\ Len(input) \in Nat
  BY FormFacts DEF InStep
<1>2. ASSUME NEW x \in 1 .. m
      PROVE  1 \in FitsAt(T!From(f), input, i + x) /\ C(x) = << T!Unit(i + x - 1) >>
  <2>1. i + x - 1 \in Nat /\ i + x - 1 < Len(input) /\ (i + x - 1) + 1 = i + x
    BY <1>1
  <2>2. /\ 1 \in FitsAt(T!From(f), input, (i + x - 1) + 1)
        /\ Converted(T!From(f), T!To(f), input, (i + x - 1) + 1, 1) = << T!Unit(i + x - 1) >>
    BY <1>1, <2>1, AsciiFits
  <2>. QED  BY <2>1, <2>2
<1>3. \A x \in 1 .. m : T!Unit(i + x - 1) \in Int
  BY <1>1 DEF T!Unit, T!count
<1>4. v \in Seq(Int) /\ Len(v) = m /\ \A x \in 1 .. m : v[x] = T!Unit(i + x - 1)
  BY <1>3
<1>. HIDE DEF v, C
<1>5. \A x \in 0 .. m : g[x] = SubSeq(v, 1, x) /\ g[x] \in Seq(Int)
  BY <1>4
<1>6. g[0] = << >> /\ g[m] = v
  <2>1. SubSeq(v, 1, 0) = << >> /\ SubSeq(v, 1, m) = v
    BY <1>4
  <2>. QED  BY <2>1
<1>7. \A x \in 0 .. m - 1 : g[x + 1] = g[x] \o C(x + 1)
  <2>1. ASSUME NEW x \in 0 .. m - 1 PROVE SubSeq(v, 1, x + 1) = SubSeq(v, 1, x) \o << v[x + 1] >>
    <3>1. v[x + 1] \in Int /\ x + 1 \in 1 .. m /\ Len(v) = m /\ v \in Seq(Int)
      BY <1>3, <1>4
    <3>2. /\ SubSeq(v, 1, x + 1) \in Seq(Int) /\ Len(SubSeq(v, 1, x + 1)) = x + 1
          /\ SubSeq(v, 1, x) \in Seq(Int) /\ Len(SubSeq(v, 1, x)) = x
          /\ \A y \in 1 .. x + 1 : SubSeq(v, 1, x + 1)[y] = v[y]
          /\ \A y \in 1 .. x : SubSeq(v, 1, x)[y] = v[y]
      BY <3>1
    <3>3. PICK a \in Seq(Int), b \in Seq(Int), c \in Int :
            a = SubSeq(v, 1, x) /\ b = SubSeq(v, 1, x + 1) /\ c = v[x + 1]
      BY <3>1, <3>2
    <3>4. a \o << c >> \in Seq(Int) /\ Len(a \o << c >>) = x + 1
      BY <3>2, <3>3
    <3>5. \A y \in 1 .. x + 1 : (a \o << c >>)[y] = b[y]
      BY <3>2, <3>3
    <3>6. a \o << c >> = b
      BY <3>2, <3>3, <3>4, <3>5, SeqEqual
    <3>. QED  BY <3>3, <3>6
  <2>2. ASSUME NEW x \in 0 .. m - 1 PROVE g[x + 1] = g[x] \o C(x + 1)
    <3>1. x \in 0 .. m /\ x + 1 \in 0 .. m /\ x + 1 \in 1 .. m
      OBVIOUS
    <3>2. C(x + 1) = << v[x + 1] >>
      BY <1>2, <1>4, <3>1
    <3>. QED  BY <1>5, <2>1, <3>1, <3>2
  <2>. QED  BY <2>2
<1>. HIDE DEF g
<1>8. InStep(f, input, i + m, w \o g[m])
  <2>1. \A x \in 0 .. m - 1 :
          g[x + 1] = g[x] \o Converted(T!From(f), T!To(f), input, i + (x + 1), 1)
    BY <1>7 DEF C
  <2>2. \A x \in 1 .. m : 1 \in FitsAt(T!From(f), input, i + x)
    BY <1>2
  <2>3. \A x \in 0 .. m : g[x] \in Seq(Int)
    BY <1>5
  <2>4. Chain(T!From(f), T!To(f), input, i, m, g)
    BY <1>6, <2>1, <2>2, <2>3 DEF Chain
  <2>. QED  BY <2>4, ChainInStep
<1>. QED  BY <1>6, <1>8 DEF v

-----------------------------------------------------------------------------
(* Steps of the transcoders.                                               *)

(* The kernels for which src is never inside a character.                  *)

LEMMA StoredOnto ==
  ASSUME out \in Seq(Int), dest \in 0 .. Len(out), NEW s \in Seq(Int)
  PROVE  /\ T!Stored(s) \in Seq(Int) /\ dest + Len(s) \in 0 .. Len(T!Stored(s))
         /\ SubSeq(T!Stored(s), 1, dest + Len(s)) = SubSeq(out, 1, dest) \o s
<1>. DEFINE a == SubSeq(out, 1, dest)
            c == SubSeq(out, dest + Len(s) + 1, Len(out))
            w == (a \o s) \o c
<1>1. a \in Seq(Int) /\ Len(a) = dest /\ c \in Seq(Int) /\ Len(c) \in Nat
      /\ dest \in Nat /\ Len(s) \in Nat
  OBVIOUS
<1>2. T!Stored(s) = w
  BY DEF T!Stored
<1>. HIDE DEF a, c
<1>10. PICK b \in Seq(Int), z \in Seq(Int) : b = a /\ z = c /\ Len(b) = dest
  BY <1>1, Zenon
<1>11. b \o s \in Seq(Int) /\ Len(b \o s) = Len(b) + Len(s)
  OBVIOUS
<1>3. PICK x \in Seq(Int) : x = a \o s /\ Len(x) = Len(b) + Len(s)
  BY <1>10, <1>11, Zenon
<1>4. Len(x) = dest + Len(s)
  BY <1>3, <1>10
<1>12. x \o z \in Seq(Int)
  OBVIOUS
<1>5. PICK y \in Seq(Int) : y = x \o z
  BY <1>12, Zenon
<1>6. Len(y) = Len(x) + Len(z) /\ Len(z) \in Nat /\ \A i \in 1 .. Len(x) : y[i] = x[i]
  BY <1>5
<1>7. SubSeq(y, 1, Len(x)) = x
  <2>1. SubSeq(y, 1, Len(x)) \in Seq(Int) /\ Len(SubSeq(y, 1, Len(x))) = Len(x)
    BY <1>6
  <2>2. \A i \in 1 .. Len(x) : SubSeq(y, 1, Len(x))[i] = x[i]
    BY <1>6
  <2>. QED  BY <2>1, <2>2, SeqEqual
<1>8. w = y
  BY <1>3, <1>5, <1>10, Zenon
<1>. HIDE DEF w
<1>9. dest + Len(s) \in 0 .. Len(y)
  BY <1>1, <1>4, <1>6
<1>. QED  BY <1>2, <1>3, <1>4, <1>7, <1>8, <1>9 DEF a

Written == SubSeq(out, 1, dest)

StepTypes ==
  /\ kernel \in T!Kernels
  /\ input \in Seq(Nat)
  /\ T!From(kernel) = "utf16" => Narrow(input)
  /\ end = Len(input)
  /\ out \in Seq(Int)
  /\ dest \in 0 .. Len(out)

\* k units are converted to s
Advances(k, s) ==
  /\ src' = src + k /\ dest' = dest + Len(s) /\ out' = T!Stored(s)
  /\ InStep(kernel, input, src + k, Written \o s)

\* no character is where src is
Rejects ==
  /\ pc' = "done" /\ answer' = 0 /\ UNCHANGED << src, dest, out >>
  /\ src < Len(input) /\ FitsAt(T!From(kernel), input, src + 1) = {}

LEMMA AdvanceInStep ==
  ASSUME StepTypes, NEW k \in Nat, NEW s \in Seq(Int), Advances(k, s),
         UNCHANGED << kernel, input, end >>
  PROVE  StepTypes' /\ InStep(kernel, input, src, Written)' /\ dest' >= dest
<1>1. /\ out' \in Seq(Int) /\ dest' \in 0 .. Len(out') /\ Written' = Written \o s
      /\ dest' >= dest
  <2>1. /\ T!Stored(s) \in Seq(Int) /\ dest + Len(s) \in 0 .. Len(T!Stored(s))
        /\ SubSeq(T!Stored(s), 1, dest + Len(s)) = SubSeq(out, 1, dest) \o s
    BY StoredOnto DEF StepTypes
  <2>2. dest \in Nat /\ Len(s) \in Nat
    BY DEF StepTypes
  <2>3. dest' = dest + Len(s) /\ out' = T!Stored(s)
    BY DEF Advances
  <2>4. Written' = Written \o s
    BY <2>1, <2>3 DEF Written
  <2>. QED  BY <2>1, <2>2, <2>3, <2>4
<1>2. InStep(kernel, input, src + k, Written \o s) /\ src' = src + k
  BY DEF Advances
<1>3. InStep(kernel, input, src, Written)'
  BY <1>1, <1>2 DEF InStep
<1>4. StepTypes'
  BY <1>1 DEF StepTypes
<1>. QED  BY <1>1, <1>3, <1>4

\* One character is converted.
LEMMA CharacterAdvances ==
  ASSUME StepTypes, InStep(kernel, input, src, Written), src < Len(input),
         NEW k \in FitsAt(T!From(kernel), input, src + 1), NEW s,
         s = Converted(T!From(kernel), T!To(kernel), input, src + 1, k),
         T!Convert(k, s)
  PROVE  s \in Seq(Int) /\ k \in Nat /\ Advances(k, s)
<1>1. /\ kernel \in T!Kernels /\ input \in Seq(Nat) /\ src \in Nat /\ Len(input) \in Nat
      /\ src + 1 \in 1 .. Len(input) /\ T!From(kernel) \in Forms /\ T!To(kernel) \in Forms
  BY FormFacts DEF StepTypes, InStep
<1>2. InStep(kernel, input, src + k, Written \o s)
  BY <1>1, OneMore
<1>3. k \in Nat /\ s \in Seq(Nat)
  <2>1. /\ k \in 1 .. 4
        /\ Converted(T!From(kernel), T!To(kernel), input, src + 1, k) \in Seq(Nat)
    BY <1>1, OneFits, Zenon
  <2>. QED  BY <2>1
<1>4. s \in Seq(Int)
  BY <1>3, SeqMonotonic
<1>. QED  BY <1>2, <1>3, <1>4 DEF Advances, T!Convert

\* A block of ASCII is copied.
LEMMA BlockAdvances ==
  ASSUME StepTypes, InStep(kernel, input, src, Written), NEW size \in Nat,
         T!AsciiBlock(size), T!Convert(size, T!Copied(size))
  PROVE  T!Copied(size) \in Seq(Int) /\ Advances(size, T!Copied(size))
<1>1. /\ kernel \in T!Kernels /\ input \in Seq(Nat) /\ src \in Nat /\ Len(input) \in Nat
      /\ end = Len(input)
  BY DEF StepTypes, InStep
<1>2. src + size =< Len(input) /\ \A i \in src .. src + size - 1 : T!Unit(i) < 128
  BY <1>1 DEF T!AsciiBlock
<1>3. \A x \in 1 .. size : T!Unit(src + x - 1) < 128 /\ T!Unit(src + x - 1) \in Int
  <2>1. ASSUME NEW x \in 1 .. size
        PROVE  T!Unit(src + x - 1) < 128 /\ T!Unit(src + x - 1) \in Int
    <3>1. src + x - 1 \in src .. src + size - 1 /\ src + x - 1 < Len(input)
          /\ src + x - 1 \in Nat
      BY <1>1, <1>2
    <3>2. T!Unit(src + x - 1) \in Int
      BY <1>1, <3>1 DEF T!Unit, T!count
    <3>. QED  BY <1>2, <3>1, <3>2
  <2>. QED  BY <2>1
<1>4. InStep(kernel, input, src + size, Written \o [x \in 1 .. size |-> T!Unit(src + x - 1)])
  BY <1>1, <1>2, <1>3, CopyInStep
<1>5. T!Copied(size) = [x \in 1 .. size |-> T!Unit(src + x - 1)]
  BY DEF T!Copied
<1>6. [x \in 1 .. size |-> T!Unit(src + x - 1)] \in [1 .. size -> Int]
  BY <1>3
<1>7. T!Copied(size) \in Seq(Int)
  BY <1>5, <1>6, FunctionIsSeq
<1>8. /\ src' = src + size /\ dest' = dest + Len(T!Copied(size))
      /\ out' = T!Stored(T!Copied(size))
  BY DEF T!Convert
<1>. QED  BY <1>4, <1>5, <1>7, <1>8 DEF Advances

\* What a round of a scalar loop does.
Rounded ==
  \/ UNCHANGED << pc, answer >> /\ \E k \in Nat, s \in Seq(Int) : Advances(k, s)
  \/ Rejects

LEMMA FailRejects ==
  ASSUME T!Fail, src < Len(input), FitsAt(T!From(kernel), input, src + 1) = {}
  PROVE  Rejects
BY DEF T!Fail, Rejects

LEMMA BlockRounds ==
  ASSUME StepTypes, InStep(kernel, input, src, Written), NEW form \in Forms,
         T!AsciiBlock(Block[form]), T!Convert(Block[form], T!Copied(Block[form]))
  PROVE  Rounded
<1>1. Block[form] \in Nat
  BY BlockAssumption DEF Forms
<1>2. UNCHANGED << pc, answer >>
  BY DEF T!Convert
<1>. QED  BY <1>1, <1>2, BlockAdvances DEF Rounded

LEMMA CharacterRounds ==
  ASSUME StepTypes, InStep(kernel, input, src, Written), src < Len(input),
         NEW k \in FitsAt(T!From(kernel), input, src + 1), NEW s,
         s = Converted(T!From(kernel), T!To(kernel), input, src + 1, k),
         T!Convert(k, s)
  PROVE  Rounded
<1>1. UNCHANGED << pc, answer >>
  BY DEF T!Convert
<1>. QED  BY <1>1, CharacterAdvances DEF Rounded

AtCharacter == StepTypes /\ InStep(kernel, input, src, Written)

LEMMA RoundFacts ==
  ASSUME StepTypes, NEW from, NEW to, T!Round(from, to)
  PROVE  /\ pc = "scalar" /\ src < Len(input) /\ T!From(kernel) = from /\ T!To(kernel) = to
         /\ UNCHANGED << kernel, input, end, start, n >>
BY DEF T!Round, T!call, StepTypes

LEMMA HereFacts ==
  ASSUME AtCharacter, src < Len(input)
  PROVE  /\ input \in Seq(Nat) /\ src \in Nat /\ Len(input) \in Nat /\ end = Len(input)
         /\ T!Unit(src) \in Nat
BY DEF AtCharacter, StepTypes, InStep, T!Unit, T!count

LEMMA Utf8ToUtf16Rounds ==
  ASSUME AtCharacter, T!Utf8ToUtf16
  PROVE  Rounded /\ pc = "scalar" /\ UNCHANGED << kernel, input, end, start, n >>
<1>. DEFINE k == T!Length8(T!Unit(src))
            c == T!CodePoint8(src)
            s == IF k = 4 THEN T!Surrogates(c) ELSE << c >>
            size == Block["utf8"]
<1>1. T!Round("utf8", "utf16")
  BY DEF T!Utf8ToUtf16
<1>2. /\ StepTypes /\ InStep(kernel, input, src, Written) /\ "utf8" \in Forms
      /\ pc = "scalar" /\ src < Len(input) /\ T!From(kernel) = "utf8" /\ T!To(kernel) = "utf16"
      /\ UNCHANGED << kernel, input, end, start, n >>
  BY <1>1, RoundFacts DEF AtCharacter, Forms
<1>3. /\ T!AsciiBlock(size) => T!Convert(size, T!Copied(size))
      /\ ~T!AsciiBlock(size) /\ ~T!Accepted8(src, end) => T!Fail
      /\ ~T!AsciiBlock(size) /\ T!Accepted8(src, end) => T!Convert(k, s)
  BY DEF T!Utf8ToUtf16
<1>. HIDE DEF s, k, size, c
<1>4. /\ T!Accepted8(src, Len(input)) =>
           /\ k \in FitsAt("utf8", input, src + 1)
           /\ s = Converted("utf8", "utf16", input, src + 1, k)
      /\ ~T!Accepted8(src, Len(input)) => FitsAt("utf8", input, src + 1) = {}
  <2>1. input \in Seq(Nat) /\ src \in Nat
    BY <1>2, HereFacts
  <2>. QED  BY <1>2, <2>1, Utf8Round DEF s, k, c
<1>5. end = Len(input)
  BY <1>2 DEF StepTypes
<1>6. CASE T!AsciiBlock(size)
  <2>1. Rounded
    BY <1>2, <1>3, <1>6, BlockRounds DEF size
  <2>. QED  BY <1>2, <2>1
<1>7. CASE ~T!AsciiBlock(size) /\ ~T!Accepted8(src, end)
  <2>1. Rejects
    BY <1>2, <1>3, <1>4, <1>5, <1>7, FailRejects
  <2>. QED  BY <1>2, <2>1 DEF Rounded
<1>8. CASE ~T!AsciiBlock(size) /\ T!Accepted8(src, end)
  <2>1. Rounded
    BY <1>2, <1>3, <1>4, <1>5, <1>8, CharacterRounds
  <2>. QED  BY <1>2, <2>1
<1>. QED  BY <1>6, <1>7, <1>8

LEMMA Utf8ToUtf32Rounds ==
  ASSUME AtCharacter, T!Utf8ToUtf32
  PROVE  Rounded /\ pc = "scalar" /\ UNCHANGED << kernel, input, end, start, n >>
<1>. DEFINE k == T!Length8(T!Unit(src))
            s == << T!CodePoint8(src) >>
            size == Block["utf8"]
<1>1. T!Round("utf8", "utf32")
  BY DEF T!Utf8ToUtf32
<1>2. /\ StepTypes /\ InStep(kernel, input, src, Written) /\ "utf8" \in Forms
      /\ pc = "scalar" /\ src < Len(input) /\ T!From(kernel) = "utf8" /\ T!To(kernel) = "utf32"
      /\ UNCHANGED << kernel, input, end, start, n >>
  BY <1>1, RoundFacts DEF AtCharacter, Forms
<1>3. /\ T!AsciiBlock(size) => T!Convert(size, T!Copied(size))
      /\ ~T!AsciiBlock(size) /\ ~T!Accepted8(src, end) => T!Fail
      /\ ~T!AsciiBlock(size) /\ T!Accepted8(src, end) => T!Convert(k, s)
  BY DEF T!Utf8ToUtf32
<1>. HIDE DEF s, k, size
<1>4. /\ T!Accepted8(src, Len(input)) =>
           /\ k \in FitsAt("utf8", input, src + 1)
           /\ s = Converted("utf8", "utf32", input, src + 1, k)
      /\ ~T!Accepted8(src, Len(input)) => FitsAt("utf8", input, src + 1) = {}
  <2>1. input \in Seq(Nat) /\ src \in Nat
    BY <1>2, HereFacts
  <2>. QED  BY <1>2, <2>1, Utf8Round DEF s, k
<1>5. end = Len(input)
  BY <1>2 DEF StepTypes
<1>6. CASE T!AsciiBlock(size)
  <2>1. Rounded
    BY <1>2, <1>3, <1>6, BlockRounds DEF size
  <2>. QED  BY <1>2, <2>1
<1>7. CASE ~T!AsciiBlock(size) /\ ~T!Accepted8(src, end)
  <2>1. Rejects
    BY <1>2, <1>3, <1>4, <1>5, <1>7, FailRejects
  <2>. QED  BY <1>2, <2>1 DEF Rounded
<1>8. CASE ~T!AsciiBlock(size) /\ T!Accepted8(src, end)
  <2>1. Rounded
    BY <1>2, <1>3, <1>4, <1>5, <1>8, CharacterRounds
  <2>. QED  BY <1>2, <2>1
<1>. QED  BY <1>6, <1>7, <1>8

\* which of the cases of a word there is
LEMMA WordCases ==
  ASSUME NEW w \in Nat
  PROVE  /\ w \in 128 .. 2047 <=> w >= 128 /\ w < 2048
         /\ T!IsSurrogate(w) => w >= 2048 /\ w < 65536
         /\ w \in 2048 .. T!BeyondTwoBytes - 1 <=> w >= 2048 /\ w < T!BeyondTwoBytes
         /\ w \in T!BeyondTwoBytes .. T!LastCharacter <=>
              ~(w < T!BeyondTwoBytes) /\ w =< T!LastCharacter
<1>1. T!BeyondTwoBytes \in Nat /\ T!LastCharacter \in Nat
  BY SMT DEF T!BeyondTwoBytes, T!LastCharacter
<1>2. w \in 128 .. 2047 <=> w >= 128 /\ w < 2048
  BY SMT
<1>3. T!IsSurrogate(w) => w >= 2048 /\ w < 65536
  BY SurrogateFacts, SMT
<1>4. w \in 2048 .. T!BeyondTwoBytes - 1 <=> w >= 2048 /\ w < T!BeyondTwoBytes
  BY <1>1, SMT
<1>5. w \in T!BeyondTwoBytes .. T!LastCharacter <=>
        ~(w < T!BeyondTwoBytes) /\ w =< T!LastCharacter
  BY <1>1, SMT
<1>. QED  BY <1>2, <1>3, <1>4, <1>5, SMT

LEMMA Utf16ToUtf8Rounds ==
  ASSUME AtCharacter, T!Utf16ToUtf8
  PROVE  Rounded /\ pc = "scalar" /\ UNCHANGED << kernel, input, end, start, n >>
<1>. DEFINE word == T!Unit(src)
            size == Block["utf16"]
            ascii == T!AsciiBlock(size)
            pair == src + 1 < end /\ T!IsPair(src)
            odd == T!IsSurrogate(word)
            one == ~ascii /\ word < 128
            two == word \in 128 .. 2047
            three == word >= 2048 /\ ~odd
            four == odd /\ src + 1 < end /\ T!IsPair(src)
            bad == odd /\ ~(src + 1 < end /\ T!IsPair(src))
<1>1. T!Round("utf16", "utf8")
  BY DEF T!Utf16ToUtf8
<1>2. /\ StepTypes /\ InStep(kernel, input, src, Written) /\ "utf16" \in Forms
      /\ pc = "scalar" /\ src < Len(input) /\ T!From(kernel) = "utf16" /\ T!To(kernel) = "utf8"
      /\ UNCHANGED << kernel, input, end, start, n >>
  BY <1>1, RoundFacts DEF AtCharacter, Forms
<1>3. (CASE ascii -> T!Convert(size, T!Copied(size))
         [] one -> T!Convert(1, T!Bytes1(word))
         [] two -> T!Convert(1, T!Bytes2(word))
         [] three -> T!Convert(1, T!Bytes3(word))
         [] four -> T!Convert(2, T!Bytes4(T!PairValue(src)))
         [] bad -> T!Fail)
  BY Zenon DEF T!Utf16ToUtf8
<1>4. /\ word \in Nat /\ src \in Nat /\ input \in Seq(Nat) /\ end = Len(input)
      /\ Narrow(input)
  BY <1>2, HereFacts DEF StepTypes, AtCharacter
<1>5. /\ ~odd =>
           /\ 1 \in FitsAt("utf16", input, src + 1)
           /\ Converted("utf16", "utf8", input, src + 1, 1) =
                IF word < 128 THEN T!Bytes1(word)
                ELSE IF word < 2048 THEN T!Bytes2(word) ELSE T!Bytes3(word)
      /\ odd /\ pair =>
           /\ 2 \in FitsAt("utf16", input, src + 1)
           /\ Converted("utf16", "utf8", input, src + 1, 2) = T!Bytes4(T!PairValue(src))
      /\ odd /\ ~pair => FitsAt("utf16", input, src + 1) = {}
  BY <1>2, <1>4, Utf16Round
<1>6. odd => word >= 2048
  BY <1>4, SurrogateFacts, SMT
<1>7. ascii => word < 128
  <2>1. size \in Nat \ {0}
    BY BlockAssumption
  <2>2. src \in src .. src + size - 1
    BY <1>4, <2>1
  <2>. QED  BY <2>2 DEF T!AsciiBlock
<1>. HIDE DEF word, size, ascii, odd
<1>8. word \in 128 .. 2047 <=> word >= 128 /\ word < 2048
  BY <1>4
<1>13. /\ ascii => ~one /\ ~two /\ ~three /\ ~four /\ ~bad
       /\ ~ascii /\ ~odd /\ word < 128 => one /\ ~two /\ ~three /\ ~four /\ ~bad
       /\ ~ascii /\ ~odd /\ ~(word < 128) /\ word < 2048 =>
            ~one /\ two /\ ~three /\ ~four /\ ~bad
       /\ ~ascii /\ ~odd /\ ~(word < 128) /\ ~(word < 2048) =>
            ~one /\ ~two /\ three /\ ~four /\ ~bad
       /\ ~ascii /\ odd /\ pair => ~one /\ ~two /\ ~three /\ four /\ ~bad
       /\ ~ascii /\ odd /\ ~pair => ~one /\ ~two /\ ~three /\ ~four /\ bad
  BY <1>4, <1>6, <1>7, <1>8
<1>. HIDE DEF one, two, three, four, bad
<1>9. CASE ascii
  <2>1. T!Convert(size, T!Copied(size))
    BY <1>3, <1>9, <1>13
  <2>2. Rounded
    BY <1>2, <1>9, <2>1, BlockRounds DEF size, ascii
  <2>. QED  BY <1>2, <2>2
<1>10. CASE ~ascii /\ ~odd
  <2>1. word < 128 => T!Convert(1, T!Bytes1(word))
    BY <1>3, <1>10, <1>13
  <2>2. ~(word < 128) /\ word < 2048 => T!Convert(1, T!Bytes2(word))
    BY <1>3, <1>10, <1>13
  <2>3. ~(word < 128) /\ ~(word < 2048) => T!Convert(1, T!Bytes3(word))
    BY <1>3, <1>10, <1>13
  <2>4. T!Convert(1, Converted("utf16", "utf8", input, src + 1, 1))
    BY <1>5, <1>10, <2>1, <2>2, <2>3
  <2>5. Rounded
    BY <1>2, <1>5, <1>10, <2>4, CharacterRounds
  <2>. QED  BY <1>2, <2>5
<1>11. CASE ~ascii /\ odd /\ pair
  <2>1. T!Convert(2, Converted("utf16", "utf8", input, src + 1, 2))
    BY <1>3, <1>5, <1>11, <1>13
  <2>2. Rounded
    BY <1>2, <1>5, <1>11, <2>1, CharacterRounds
  <2>. QED  BY <1>2, <2>2
<1>12. CASE ~ascii /\ odd /\ ~pair
  <2>1. T!Fail
    BY <1>3, <1>12, <1>13
  <2>2. Rejects
    BY <1>2, <1>5, <1>12, <2>1, FailRejects
  <2>. QED  BY <1>2, <2>2 DEF Rounded
<1>. QED  BY <1>9, <1>10, <1>11, <1>12

LEMMA Utf32ToUtf8Rounds ==
  ASSUME AtCharacter, T!Utf32ToUtf8
  PROVE  Rounded /\ pc = "scalar" /\ UNCHANGED << kernel, input, end, start, n >>
<1>. DEFINE word == T!Unit(src)
            size == Block["utf32"]
            ascii == T!AsciiBlock(size)
            odd == T!IsSurrogate(word)
            big == ~(word < T!BeyondTwoBytes)
            over == word > T!LastCharacter
            one == ~ascii /\ word < 128
            two == word \in 128 .. 2047
            three == word \in 2048 .. T!BeyondTwoBytes - 1 /\ ~odd
            four == word \in T!BeyondTwoBytes .. T!LastCharacter
            bad == odd \/ over
<1>1. T!Round("utf32", "utf8")
  BY DEF T!Utf32ToUtf8
<1>2. /\ StepTypes /\ InStep(kernel, input, src, Written) /\ "utf32" \in Forms
      /\ pc = "scalar" /\ src < Len(input) /\ T!From(kernel) = "utf32" /\ T!To(kernel) = "utf8"
      /\ UNCHANGED << kernel, input, end, start, n >>
  BY <1>1, RoundFacts DEF AtCharacter, Forms
<1>3. (CASE ascii -> T!Convert(size, T!Copied(size))
         [] one -> T!Convert(1, T!Bytes1(word))
         [] two -> T!Convert(1, T!Bytes2(word))
         [] three -> T!Convert(1, T!Bytes3(word))
         [] four -> T!Convert(1, T!Bytes4(word))
         [] bad -> T!Fail)
  BY Zenon DEF T!Utf32ToUtf8
<1>4. /\ word \in Nat /\ src \in Nat /\ input \in Seq(Nat) /\ end = Len(input)
  BY <1>2, HereFacts DEF AtCharacter
<1>5. /\ odd \/ over => FitsAt("utf32", input, src + 1) = {}
      /\ ~odd /\ word =< T!LastCharacter =>
           /\ 1 \in FitsAt("utf32", input, src + 1)
           /\ Converted("utf32", "utf8", input, src + 1, 1) = BytesOfWord(word)
  BY <1>2, <1>4, Utf32Round, Zenon
<1>6. /\ odd => word >= 2048 /\ ~big
      /\ over => big
      /\ big => ~(word < 2048) /\ ~(word < 128)
      /\ ~over <=> word =< T!LastCharacter
      /\ word < 128 => word < 2048
      /\ word >= 2048 <=> ~(word < 2048)
  BY <1>4, SurrogateFacts, UnicodeNumbers, SMT
<1>7. ascii => word < 128
  <2>1. size \in Nat \ {0}
    BY BlockAssumption
  <2>2. src \in src .. src + size - 1
    BY <1>4, <2>1
  <2>. QED  BY <2>2 DEF T!AsciiBlock
<1>8. /\ word \in 128 .. 2047 <=> ~(word < 128) /\ word < 2048
      /\ word \in 2048 .. T!BeyondTwoBytes - 1 <=> ~(word < 2048) /\ ~big
      /\ word \in T!BeyondTwoBytes .. T!LastCharacter <=> big /\ ~over
  <2>1. ~over <=> word =< T!LastCharacter
    BY <1>6
  <2>. HIDE DEF word, over
  <2>2. /\ word \in 128 .. 2047 <=> word >= 128 /\ word < 2048
        /\ word \in 2048 .. T!BeyondTwoBytes - 1 <=> word >= 2048 /\ word < T!BeyondTwoBytes
        /\ word \in T!BeyondTwoBytes .. T!LastCharacter <=>
             ~(word < T!BeyondTwoBytes) /\ word =< T!LastCharacter
    BY <1>4, WordCases
  <2>3. (word >= 128 <=> ~(word < 128)) /\ (word >= 2048 <=> ~(word < 2048))
    BY <1>4
  <2>. QED  BY <2>1, <2>2, <2>3
<1>13. word < T!BeyondTwoBytes <=> ~big
  OBVIOUS
<1>. HIDE DEF word, size, ascii, odd, big, over
<1>14. /\ ascii => ~one /\ ~two /\ ~three /\ ~four /\ ~bad
       /\ ~ascii /\ ~odd /\ ~over /\ word < 128 => one /\ ~two /\ ~three /\ ~four /\ ~bad
       /\ ~ascii /\ ~odd /\ ~over /\ ~(word < 128) /\ word < 2048 =>
            ~one /\ two /\ ~three /\ ~four /\ ~bad
       /\ ~ascii /\ ~odd /\ ~over /\ ~(word < 128) /\ ~(word < 2048) /\ ~big =>
            ~one /\ ~two /\ three /\ ~four /\ ~bad
       /\ ~ascii /\ ~odd /\ ~over /\ big => ~one /\ ~two /\ ~three /\ four /\ ~bad
       /\ ~ascii /\ (odd \/ over) => ~one /\ ~two /\ ~three /\ ~four /\ bad
  BY <1>6, <1>7, <1>8
<1>. HIDE DEF one, two, three, four, bad
<1>9. CASE ascii
  <2>1. T!Convert(size, T!Copied(size))
    BY <1>3, <1>9, <1>14
  <2>2. Rounded
    BY <1>2, <1>9, <2>1, BlockRounds DEF size, ascii
  <2>. QED  BY <1>2, <2>2
<1>10. CASE ~ascii /\ ~odd /\ ~over
  <2>1. word < 128 => T!Convert(1, T!Bytes1(word))
    BY <1>3, <1>10, <1>14
  <2>2. ~(word < 128) /\ word < 2048 => T!Convert(1, T!Bytes2(word))
    BY <1>3, <1>10, <1>14
  <2>3. ~(word < 128) /\ ~(word < 2048) /\ ~big => T!Convert(1, T!Bytes3(word))
    BY <1>3, <1>10, <1>14
  <2>4. big => T!Convert(1, T!Bytes4(word))
    BY <1>3, <1>10, <1>14
  <2>6. /\ 1 \in FitsAt("utf32", input, src + 1)
        /\ Converted("utf32", "utf8", input, src + 1, 1) = BytesOfWord(word)
    BY <1>5, <1>6, <1>10
  <2>7. T!Convert(1, Converted("utf32", "utf8", input, src + 1, 1))
    BY <1>6, <1>13, <2>1, <2>2, <2>3, <2>4, <2>6 DEF BytesOfWord
  <2>5. Rounded
    BY <1>2, <2>6, <2>7, CharacterRounds
  <2>. QED  BY <1>2, <2>5
<1>11. CASE ~ascii /\ (odd \/ over)
  <2>1. T!Fail
    BY <1>3, <1>11, <1>14, Zenon
  <2>2. Rejects
    BY <1>2, <1>5, <1>11, <2>1, FailRejects
  <2>. QED  BY <1>2, <2>2 DEF Rounded
<1>. QED  BY <1>9, <1>10, <1>11

LEMMA Utf32ToUtf16Rounds ==
  ASSUME AtCharacter, T!Utf32ToUtf16
  PROVE  Rounded /\ pc = "scalar" /\ UNCHANGED << kernel, input, end, start, n >>
<1>. DEFINE word == T!Unit(src)
            odd == T!IsSurrogate(word)
            big == ~(word < T!BeyondTwoBytes)
            over == word > T!LastCharacter
<1>1. T!Round("utf32", "utf16")
  BY DEF T!Utf32ToUtf16
<1>2. /\ StepTypes /\ InStep(kernel, input, src, Written)
      /\ pc = "scalar" /\ src < Len(input) /\ T!From(kernel) = "utf32" /\ T!To(kernel) = "utf16"
      /\ UNCHANGED << kernel, input, end, start, n >>
  BY <1>1, RoundFacts DEF AtCharacter
<1>3. (CASE word < T!BeyondTwoBytes /\ ~odd -> T!Convert(1, << word >>)
         [] word \in T!BeyondTwoBytes .. T!LastCharacter -> T!Convert(1, T!Surrogates(word))
         [] odd \/ over -> T!Fail)
  BY DEF T!Utf32ToUtf16
<1>4. word \in Nat /\ src \in Nat /\ input \in Seq(Nat)
  BY <1>2, HereFacts DEF AtCharacter
<1>5. /\ odd \/ over => FitsAt("utf32", input, src + 1) = {}
      /\ ~odd /\ word =< T!LastCharacter =>
           /\ 1 \in FitsAt("utf32", input, src + 1)
           /\ Converted("utf32", "utf16", input, src + 1, 1) =
                IF word < T!BeyondTwoBytes THEN << word >> ELSE T!Surrogates(word)
  BY <1>2, <1>4, Utf32Round
<1>6. /\ odd => ~big
      /\ over => big
      /\ ~over <=> word =< T!LastCharacter
  BY <1>4, SurrogateFacts, UnicodeNumbers, SMT
<1>7. word \in T!BeyondTwoBytes .. T!LastCharacter <=> big /\ ~over
  <2>1. ~over <=> word =< T!LastCharacter
    BY <1>6
  <2>2. word \in T!BeyondTwoBytes .. T!LastCharacter <=>
          ~(word < T!BeyondTwoBytes) /\ word =< T!LastCharacter
    BY <1>4, WordCases
  <2>. HIDE DEF word, over
  <2>. QED  BY <2>1, <2>2
<1>8. word < T!BeyondTwoBytes <=> ~big
  OBVIOUS
<1>. HIDE DEF word, odd, big, over
<1>9. CASE ~odd /\ ~over
  <2>1. ~big => T!Convert(1, << word >>)
    BY <1>3, <1>6, <1>7, <1>8, <1>9
  <2>2. big => T!Convert(1, T!Surrogates(word))
    BY <1>3, <1>6, <1>7, <1>8, <1>9
  <2>3. /\ 1 \in FitsAt("utf32", input, src + 1)
        /\ Converted("utf32", "utf16", input, src + 1, 1) =
             IF word < T!BeyondTwoBytes THEN << word >> ELSE T!Surrogates(word)
    BY <1>5, <1>6, <1>9
  <2>4. T!Convert(1, Converted("utf32", "utf16", input, src + 1, 1))
    BY <1>8, <2>1, <2>2, <2>3
  <2>5. Rounded
    BY <1>2, <2>3, <2>4, CharacterRounds
  <2>. QED  BY <1>2, <2>5
<1>10. CASE odd \/ over
  <2>1. T!Fail
    BY <1>3, <1>6, <1>7, <1>8, <1>10
  <2>2. Rejects
    BY <1>2, <1>5, <1>10, <2>1, FailRejects
  <2>. QED  BY <1>2, <2>2 DEF Rounded
<1>. QED  BY <1>9, <1>10

-----------------------------------------------------------------------------
(* The vector loops for UTF-16.                                            *)

\* what compressing the non-zero bytes of a lane, and its third, leaves
LaneOf(b) ==
  LET kept(j) == IF b[j] # 0 \/ j = 3 THEN << b[j] >> ELSE << >>
  IN  kept(1) \o kept(2) \o kept(3) \o kept(4)

LEMMA Longer ==
  ASSUME NEW s \in Seq(Nat), NEW t \in Seq(Nat), NEW z \in Nat,
         Len(t) = Len(s) + 1, \A i \in 1 .. Len(s) : t[i] = s[i], t[Len(s) + 1] = z
  PROVE  s \o << z >> = t
<1>1. s \o << z >> \in Seq(Nat) /\ Len(s \o << z >>) = Len(s) + 1
  OBVIOUS
<1>2. \A i \in 1 .. Len(t) : (s \o << z >>)[i] = t[i]
  OBVIOUS
<1>. QED  BY <1>1, <1>2, SeqEqual

LEMMA ShortTuples ==
  ASSUME NEW x \in Nat, NEW y \in Nat, NEW z \in Nat
  PROVE  /\ << x >> \o << y >> = << x, y >>
         /\ << x, y >> \o << z >> = << x, y, z >>
<1>. DEFINE a == << x >>
            b == << x, y >>
            c == << x, y, z >>
<1>1. a = << x >> /\ a \in Seq(Nat) /\ Len(a) = 1 /\ a[1] = x
  OBVIOUS
<1>2. b = << x, y >> /\ b \in Seq(Nat) /\ Len(b) = 2 /\ b[1] = x /\ b[2] = y
  OBVIOUS
<1>3. c = << x, y, z >> /\ c \in Seq(Nat) /\ Len(c) = 3 /\ c[1] = x /\ c[2] = y /\ c[3] = z
  OBVIOUS
<1>. HIDE DEF a, b, c
<1>5. a \o << y >> = b
  <2>1. Len(b) = Len(a) + 1 /\ \A i \in 1 .. Len(a) : b[i] = a[i]
    BY <1>1, <1>2, SMT
  <2>2. b[Len(a) + 1] = y
    BY <1>1, <1>2, SMT
  <2>. QED  BY <1>1, <1>2, <2>1, <2>2, Longer, Zenon
<1>6. b \o << z >> = c
  <2>1. Len(c) = Len(b) + 1 /\ \A i \in 1 .. Len(b) : c[i] = b[i]
    BY <1>2, <1>3, SMT
  <2>2. c[Len(b) + 1] = z
    BY <1>2, <1>3, SMT
  <2>. QED  BY <1>2, <1>3, <2>1, <2>2, Longer, Zenon
<1>. QED  BY <1>1, <1>2, <1>3, <1>5, <1>6, Zenon

LEMMA Appended ==
  ASSUME NEW x \in Nat, NEW y \in Nat, NEW z \in Nat, NEW w \in Nat
  PROVE  << x, y, z >> \o << w >> = << x, y, z, w >>
<1>. DEFINE c == << x, y, z >>
            d == << x, y, z, w >>
<1>1. c \in Seq(Nat) /\ Len(c) = 3 /\ c[1] = x /\ c[2] = y /\ c[3] = z
  OBVIOUS
<1>2. d \in Seq(Nat) /\ Len(d) = 4 /\ d[1] = x /\ d[2] = y /\ d[3] = z /\ d[4] = w
  OBVIOUS
<1>. HIDE DEF c, d
<1>3. Len(d) = Len(c) + 1 /\ \A i \in 1 .. Len(c) : d[i] = c[i]
  BY <1>1, <1>2, SMT
<1>4. d[Len(c) + 1] = w
  BY <1>1, <1>2, SMT
<1>5. c \o << w >> = d
  BY <1>1, <1>2, <1>3, <1>4, Longer, Zenon
<1>. QED  BY <1>5 DEF c, d

LEMMA Prepended ==
  ASSUME NEW x \in Nat, NEW y \in Nat, NEW z \in Nat
  PROVE  << x >> \o << y, z >> = << x, y, z >>
<1>1. << x >> \o << y, z >> \in Seq(Nat) /\ << x, y, z >> \in Seq(Nat)
      /\ Len(<< x >> \o << y, z >>) = 3 /\ Len(<< x, y, z >>) = 3
  OBVIOUS
<1>2. \A i \in 1 .. 3 : (<< x >> \o << y, z >>)[i] = << x, y, z >>[i]
  OBVIOUS
<1>. QED  BY <1>1, <1>2, SeqEqual

LEMMA LaneOfBytes ==
  ASSUME NEW x \in Nat \ {0}, NEW y \in Nat \ {0}, NEW z \in Nat
  PROVE  /\ LaneOf(<< 0, 0, z, 0 >>) = << z >>
         /\ LaneOf(<< 0, y, z, 0 >>) = << y, z >>
         /\ LaneOf(<< x, y, z, 0 >>) = << x, y, z >>
<1>1. << >> \o << >> = << >> /\ << >> \o << z >> = << z >> /\ << z >> \o << >> = << z >>
  OBVIOUS
<1>2. /\ << >> \o << y >> = << y >> /\ << y, z >> \o << >> = << y, z >>
      /\ << x, y, z >> \o << >> = << x, y, z >>
  OBVIOUS
<1>3. << y >> \o << z >> = << y, z >> /\ << x >> \o << y >> = << x, y >>
      /\ << x, y >> \o << z >> = << x, y, z >>
  BY ShortTuples
<1>4. LaneOf(<< 0, 0, z, 0 >>) = << >> \o << >> \o << z >> \o << >>
  BY DEF LaneOf
<1>5. LaneOf(<< 0, y, z, 0 >>) = << >> \o << y >> \o << z >> \o << >>
  BY DEF LaneOf
<1>6. LaneOf(<< x, y, z, 0 >>) = << x >> \o << y >> \o << z >> \o << >>
  BY DEF LaneOf
<1>7. LaneOf(<< 0, 0, z, 0 >>) = << z >>
  BY <1>1, <1>4, Zenon
<1>8. LaneOf(<< 0, y, z, 0 >>) = << y, z >>
  BY <1>2, <1>3, <1>5, Zenon
<1>9. LaneOf(<< x, y, z, 0 >>) = << x, y, z >>
  BY <1>2, <1>3, <1>6, Zenon
<1>. QED  BY <1>7, <1>8, <1>9

BytesOf(w) ==
  CASE w < 128 -> << 0, 0, w, 0 >>
    [] w \in 128 .. 2047 -> << 0 >> \o T!Bytes2(w) \o << 0 >>
    [] OTHER -> T!Bytes3(w) \o << 0 >>

LEMMA LanesAre ==
  ASSUME NEW w \in Nat
  PROVE  /\ w < 2048 => T!Lane2(w) = T!Utf8(w)
         /\ w < 65536 => T!Lane3(w) = T!Utf8(w)
<1>1. w < 128 => T!Utf8(w) = << w >>
  BY Utf8Is, SMT
<1>2. w >= 128 /\ w < 2048 => T!Utf8(w) = Two(w)
  BY Utf8Is, SMT
<1>3. w >= 2048 /\ w < 65536 => T!Utf8(w) = Three(w)
  BY Utf8Is, SMT
<1>4. T!Bytes2(w) = Two(w) /\ T!Bytes3(w) = Three(w)
  BY BytesAre, SMT
<1>5. w < 2048 => T!Lane2(w) = T!Utf8(w)
  BY <1>1, <1>2, <1>4 DEF T!Lane2
<1>6. PICK x \in Nat \ {0}, y \in Nat \ {0}, y2 \in Nat \ {0}, z \in Nat :
        /\ Two(w) = << y2, z >>
        /\ Three(w) = << x, y, z >>
  <2>1. /\ 192 + w \div 64 \in Nat \ {0} /\ 128 + (w % 64) \in Nat
        /\ 224 + w \div 4096 \in Nat \ {0} /\ 128 + ((w \div 64) % 64) \in Nat \ {0}
    BY SMT
  <2>. QED  BY <2>1, SMT DEF Two, Three
<1>11. T!Lane3(w) = LaneOf(BytesOf(w))
  BY DEF T!Lane3, LaneOf, BytesOf
<1>12. /\ ~(w < 128) /\ w \in 128 .. 2047 => BytesOf(w) = << 0 >> \o T!Bytes2(w) \o << 0 >>
       /\ ~(w < 128) /\ ~(w \in 128 .. 2047) => BytesOf(w) = T!Bytes3(w) \o << 0 >>
  <2>. DEFINE p == w < 128
              q == w \in 128 .. 2047
              a == << 0, 0, w, 0 >>
              b == << 0 >> \o T!Bytes2(w) \o << 0 >>
              c == T!Bytes3(w) \o << 0 >>
  <2>1. BytesOf(w) = CASE p -> a [] q -> b [] OTHER -> c
    BY DEF BytesOf
  <2>. HIDE DEF p, q, a, b, c
  <2>2. (~p /\ q => BytesOf(w) = b) /\ (~p /\ ~q => BytesOf(w) = c)
    BY <2>1
  <2>. QED  BY <2>2 DEF p, q, a, b, c
<1>13. PICK o \in Nat : o = 0
  OBVIOUS
<1>14. << x, y, z >> \o << o >> = << x, y, z, o >>
  <2>1. x \in Nat /\ y \in Nat
    OBVIOUS
  <2>. QED  BY <2>1, Appended
<1>7. ASSUME w < 128 PROVE T!Lane3(w) = << w >>
  <2>1. BytesOf(w) = << 0, 0, w, 0 >>
    <3>1. w < 128 /\ ~(w \in 128 .. 2047)
      BY <1>7
    <3>. QED  BY <3>1 DEF BytesOf
  <2>. QED  BY <2>1, <1>11, LaneOfBytes
<1>8. ASSUME w >= 128, w < 2048 PROVE T!Lane3(w) = Two(w)
  <2>1. w \in 128 .. 2047 /\ ~(w < 128)
    BY <1>8
  <2>6. << o >> \o << y2, z >> = << o, y2, z >>
    BY Prepended, Zenon
  <2>9. y2 \in Nat /\ z \in Nat /\ o \in Nat
    OBVIOUS
  <2>7. << o, y2, z >> \o << o >> = << o, y2, z, o >>
    BY <2>9, Appended, ZenonT(30)
  <2>3. << o >> \o << y2, z >> = << o, y2, z >> /\ << o, y2, z >> \o << o >> = << o, y2, z, o >>
    BY <2>6, <2>7
  <2>2. << 0 >> \o << y2, z >> = << 0, y2, z >> /\ << 0, y2, z >> \o << 0 >> = << 0, y2, z, 0 >>
    BY <1>13, <2>3, Zenon
  <2>4. BytesOf(w) = << 0 >> \o T!Bytes2(w) \o << 0 >>
    BY <2>1, <1>12
  <2>5. BytesOf(w) = << 0, y2, z, 0 >>
    BY <1>4, <1>6, <2>2, <2>4, Zenon
  <2>8. LaneOf(<< 0, y2, z, 0 >>) = << y2, z >> /\ LaneOf(<< x, y, z, 0 >>) = << x, y, z >>
    BY LaneOfBytes, Zenon
  <2>. QED  BY <1>6, <1>11, <2>5, <2>8, Zenon
<1>9. ASSUME w >= 2048 PROVE T!Lane3(w) = Three(w)
  <2>1. ~(w \in 128 .. 2047) /\ ~(w < 128)
    BY <1>9, SMTT(30)
  <2>2. << x, y, z >> \o << 0 >> = << x, y, z, 0 >>
    BY <1>13, <1>14, Zenon
  <2>4. BytesOf(w) = T!Bytes3(w) \o << 0 >>
    BY <2>1, <1>12
  <2>5. BytesOf(w) = << x, y, z, 0 >>
    BY <1>4, <1>6, <2>2, <2>4, Zenon
  <2>8. LaneOf(<< 0, y2, z, 0 >>) = << y2, z >> /\ LaneOf(<< x, y, z, 0 >>) = << x, y, z >>
    BY LaneOfBytes, Zenon
  <2>. QED  BY <1>6, <1>11, <2>5, <2>8, Zenon
<1>10. w < 128 \/ (w >= 128 /\ w < 2048) \/ w >= 2048
  BY SMT
<1>. QED  BY <1>1, <1>2, <1>3, <1>5, <1>7, <1>8, <1>9, <1>10, SMT

LEMMA Least ==
  ASSUME NEW S \in SUBSET Nat, S # {}
  PROVE  \E x \in S : \A y \in S : x =< y
<1>1. \E x \in S : \A y \in S : ~ (<< y, x >> \in OpToRel(<, Nat))
  BY NatLessThanWellFounded, WFMin
<1>2. \A x, y \in Nat : (<< y, x >> \in OpToRel(<, Nat)) <=> y < x
  BY DEF OpToRel
<1>3. PICK x \in S : \A y \in S : ~ (y < x)
  BY <1>1, <1>2
<1>. QED  BY <1>3

LEMMA LegalVl16 ==
  ASSUME NEW avl \in Nat \ {0}, NEW v \in T!LegalVl(avl, Vlmax16)
  PROVE  v \in 0 .. avl
BY VlmaxAssumption DEF T!LegalVl

\* A chunk of words without surrogates is converted lane by lane.
LEMMA LanesAdvance ==
  ASSUME AtCharacter, T!From(kernel) = "utf16", T!To(kernel) = "utf8",
         NEW m \in Nat, src + m =< Len(input),
         \A x \in 1 .. m : ~T!IsSurrogate(T!Unit(src + x - 1)),
         NEW r, r = [x \in 1 .. m |-> T!Utf8(T!Unit(src + x - 1))],
         src' = src + m, dest' = dest + Len(T!FlattenSeq(r)), out' = T!Stored(T!FlattenSeq(r))
  PROVE  T!FlattenSeq(r) \in Seq(Int) /\ Advances(m, T!FlattenSeq(r))
<1>1. /\ kernel \in T!Kernels /\ input \in Seq(Nat) /\ src \in Nat /\ Len(input) \in Nat
      /\ Narrow(input) /\ InStep(kernel, input, src, Written)
  BY DEF AtCharacter, StepTypes, InStep
<1>2. ASSUME NEW x \in 1 .. m
      PROVE  /\ 1 \in FitsAt("utf16", input, src + x)
             /\ Converted("utf16", "utf8", input, src + x, 1) = T!Utf8(T!Unit(src + x - 1))
  <2>1. /\ src + x - 1 \in Nat /\ src + x - 1 < Len(input) /\ (src + x - 1) + 1 = src + x
    BY <1>1
  <2>. DEFINE w == T!Unit(src + x - 1)
  <2>2. w \in Nat /\ w < 65536
    <3>1. w = input[src + x] /\ src + x \in 1 .. Len(input)
      BY <1>1, <2>1 DEF T!Unit, T!count
    <3>. HIDE DEF w
    <3>. QED  BY <1>1, <3>1, SMTT(30) DEF Narrow
  <2>3. /\ Piece(input, (src + x - 1) + 1, 1) = << w >>
        /\ w < 65536 => (1 \in FitsAt("utf16", input, (src + x - 1) + 1) <=> ~T!IsSurrogate(w))
    BY <1>1, <2>1, WordFits, SMT
  <2>4. 1 \in FitsAt("utf16", input, src + x)
    BY <2>1, <2>2, <2>3
  <2>5. T!Payload("utf16", << w >>) = w
    BY PayloadOne
  <2>6. T!Encoded("utf8", w) = T!Utf8(w)
    BY DEF T!Encoded
  <2>7. Piece(input, src + x, 1) = << w >>
    BY <2>1, <2>3
  <2>. HIDE DEF w
  <2>8. Converted("utf16", "utf8", input, src + x, 1) = T!Utf8(w)
    BY <2>5, <2>6, <2>7, Zenon DEF Converted
  <2>. QED  BY <2>4, <2>8 DEF w
<1>3. r = [x \in 1 .. m |-> Converted(T!From(kernel), T!To(kernel), input, src + x, 1)]
  BY <1>2, Zenon
<1>4. \A x \in 1 .. m : 1 \in FitsAt(T!From(kernel), input, src + x)
  BY <1>2, Zenon
<1>5. /\ InStep(kernel, input, src + m, Written \o T!FlattenSeq(r))
      /\ T!FlattenSeq(r) \in Seq(Int)
  BY <1>1, <1>3, <1>4, JoinInStep, ZenonT(60)
<1>. QED  BY <1>5 DEF Advances

In16 ==
  /\ AtCharacter /\ kernel \in T!Rvv16Kernels /\ n = Len(input) - src /\ n > 0

LEMMA Facts16 ==
  ASSUME In16
  PROVE  /\ T!From(kernel) = "utf16" /\ T!To(kernel) = "utf8"
         /\ src \in Nat /\ Len(input) \in Nat /\ n \in Nat \ {0} /\ src < Len(input)
         /\ input \in Seq(Nat) /\ Narrow(input) /\ end = Len(input)
         /\ \A x \in 1 .. n : T!Unit(src + x - 1) \in Nat
<1>1. T!From(kernel) = "utf16" /\ T!To(kernel) = "utf8"
  BY DEF In16, T!Rvv16Kernels, T!From, T!To
<1>2. /\ input \in Seq(Nat) /\ Narrow(input) /\ end = Len(input) /\ src \in 0 .. Len(input)
      /\ n = Len(input) - src /\ n > 0
  BY <1>1 DEF In16, AtCharacter, StepTypes, InStep
<1>3. src \in Nat /\ Len(input) \in Nat /\ n \in Nat \ {0} /\ src < Len(input)
  BY <1>2
<1>4. ASSUME NEW x \in 1 .. n PROVE T!Unit(src + x - 1) \in Nat
  <2>1. src + x - 1 \in Nat /\ src + x - 1 < Len(input)
    BY <1>2, <1>3
  <2>. QED  BY <1>2, <2>1 DEF T!Unit, T!count
<1>. QED  BY <1>1, <1>2, <1>3, <1>4

\* What a step of the loops for UTF-16 does.
Stepped16 ==
  /\ UNCHANGED << kernel, input, end, start, answer >>
  /\ n' = n - (src' - src)
  /\ \E k \in Nat, s \in Seq(Int) : Advances(k, s)

LEMMA Ascii16Steps ==
  ASSUME In16, T!AsciiChunk16
  PROVE  Stepped16 /\ pc' = pc
<1>1. PICK vl \in T!LegalVl(n, Vlmax16) :
        T!AllBelow(T!Words(vl), 128) /\ T!Advance16(vl, T!Words(vl))
  BY DEF T!AsciiChunk16
<1>2. /\ src \in Nat /\ Len(input) \in Nat /\ n \in Nat \ {0} /\ n = Len(input) - src
      /\ input \in Seq(Nat) /\ \A x \in 1 .. n : T!Unit(src + x - 1) \in Nat
      /\ kernel \in T!Kernels /\ InStep(kernel, input, src, Written)
  BY Facts16 DEF In16, AtCharacter, StepTypes
<1>3. vl \in 0 .. n
  BY <1>2, LegalVl16
<1>4. vl \in Nat /\ src + vl =< Len(input)
  BY <1>2, <1>3
<1>5. T!Words(vl) = [x \in 1 .. vl |-> T!Unit(src + x - 1)]
  BY DEF T!Words
<1>6. \A x \in 1 .. vl : T!Unit(src + x - 1) < 128 /\ T!Unit(src + x - 1) \in Int
  <2>1. \A x \in 1 .. vl : T!Unit(src + x - 1) < 128
    BY <1>1, <1>5 DEF T!AllBelow
  <2>2. \A x \in 1 .. vl : x \in 1 .. n
    BY <1>2, <1>3
  <2>3. \A x \in 1 .. vl : T!Unit(src + x - 1) \in Nat
    BY <1>2, <2>2, Zenon
  <2>. QED  BY <2>1, <2>3
<1>7. InStep(kernel, input, src + vl, Written \o [x \in 1 .. vl |-> T!Unit(src + x - 1)])
  BY <1>2, <1>4, <1>6, CopyInStep
<1>8. [x \in 1 .. vl |-> T!Unit(src + x - 1)] \in [1 .. vl -> Int]
  BY <1>6
<1>9. T!Words(vl) \in Seq(Int)
  BY <1>4, <1>5, <1>8, FunctionIsSeq
<1>10. Advances(vl, T!Words(vl))
  BY <1>1, <1>5, <1>7 DEF Advances, T!Advance16
<1>11. /\ UNCHANGED << kernel, input, end, start, answer >> /\ n' = n - vl /\ src' = src + vl
       /\ pc' = pc
  BY <1>1 DEF T!Advance16, T!call, T!AsciiChunk16
<1>12. n' = n - (src' - src)
  BY <1>2, <1>4, <1>11
<1>. QED  BY <1>4, <1>9, <1>10, <1>11, <1>12 DEF Stepped16

LEMMA TwoByteSteps ==
  ASSUME In16, T!TwoByteChunk
  PROVE  Stepped16 /\ pc' = pc
<1>0. PICK vl \in T!LegalVl(n, Vlmax16) :
        /\ ~T!AllBelow(T!Words(vl), 128) /\ T!AllBelow(T!Words(vl), 2048)
        /\ T!Advance16(vl, T!FlattenSeq([i \in 1 .. vl |-> T!Lane2(T!Words(vl)[i])]))
  BY Zenon DEF T!TwoByteChunk
<1>. DEFINE lanes == [i \in 1 .. vl |-> T!Lane2(T!Words(vl)[i])]
<1>1. T!AllBelow(T!Words(vl), 2048) /\ T!Advance16(vl, T!FlattenSeq(lanes))
  BY <1>0
<1>2. /\ src \in Nat /\ Len(input) \in Nat /\ n \in Nat \ {0} /\ n = Len(input) - src
      /\ \A x \in 1 .. n : T!Unit(src + x - 1) \in Nat
      /\ T!From(kernel) = "utf16" /\ T!To(kernel) = "utf8" /\ AtCharacter
  BY Facts16 DEF In16
<1>3. vl \in 0 .. n
  BY <1>2, LegalVl16
<1>4. vl \in Nat /\ src + vl =< Len(input)
  BY <1>2, <1>3
<1>5. T!Words(vl) = [x \in 1 .. vl |-> T!Unit(src + x - 1)]
  BY DEF T!Words
<1>6. \A x \in 1 .. vl : T!Unit(src + x - 1) < 2048 /\ T!Unit(src + x - 1) \in Nat
  <2>1. \A x \in 1 .. vl : T!Unit(src + x - 1) < 2048
    BY <1>1, <1>5 DEF T!AllBelow
  <2>2. \A x \in 1 .. vl : x \in 1 .. n
    BY <1>2, <1>3
  <2>3. \A x \in 1 .. vl : T!Unit(src + x - 1) \in Nat
    BY <1>2, <2>2, Zenon
  <2>. QED  BY <2>1, <2>3
<1>7. lanes = [x \in 1 .. vl |-> T!Utf8(T!Unit(src + x - 1))]
  <2>1. \A x \in 1 .. vl : T!Lane2(T!Words(vl)[x]) = T!Utf8(T!Unit(src + x - 1))
    <3>1. \A w \in Nat : w < 2048 => T!Lane2(w) = T!Utf8(w)
      BY LanesAre, SMT
    <3>. QED  BY <1>5, <1>6, <3>1
  <2>. QED  BY <2>1, Zenon
<1>8. \A x \in 1 .. vl : ~T!IsSurrogate(T!Unit(src + x - 1))
  <2>1. \A w \in Nat : w < 2048 => ~T!IsSurrogate(w)
    BY SurrogateFacts, SMT
  <2>. QED  BY <1>6, <2>1
<1>. HIDE DEF lanes
<1>9. /\ src' = src + vl /\ dest' = dest + Len(T!FlattenSeq(lanes))
      /\ out' = T!Stored(T!FlattenSeq(lanes))
  BY <1>1 DEF T!Advance16
<1>10. T!FlattenSeq(lanes) \in Seq(Int) /\ Advances(vl, T!FlattenSeq(lanes))
  BY <1>2, <1>4, <1>7, <1>8, <1>9, LanesAdvance
<1>11. /\ UNCHANGED << kernel, input, end, start, answer >> /\ n' = n - vl /\ src' = src + vl
       /\ pc' = pc
  BY <1>1 DEF T!Advance16, T!call, T!TwoByteChunk
<1>12. n' = n - (src' - src)
  BY <1>2, <1>4, <1>11
<1>. QED  BY <1>4, <1>10, <1>11, <1>12 DEF Stepped16

\* the words in front of the first surrogate
LEMMA PrefixFacts ==
  ASSUME NEW m \in Nat, NEW s \in [1 .. m -> Nat]
  PROVE  T!Prefix(s) \in 0 .. m /\ \A x \in 1 .. T!Prefix(s) : ~T!IsSurrogate(s[x])
<1>1. DOMAIN s = 1 .. m /\ s \in Seq(Nat) /\ Len(s) = m
  OBVIOUS
<1>2. CASE \E i \in DOMAIN s : T!IsSurrogate(s[i])
  <2>. DEFINE First(i) == T!IsSurrogate(s[i]) /\ \A j \in 1 .. i - 1 : ~T!IsSurrogate(s[j])
              Odd == { i \in 1 .. m : T!IsSurrogate(s[i]) }
  <2>1. \E i \in DOMAIN s : First(i)
    <3>1. PICK i \in Odd : \A j \in Odd : i =< j
      <4>1. Odd \subseteq Nat /\ Odd # {}
        BY <1>1, <1>2
      <4>. HIDE DEF Odd
      <4>. QED  BY <4>1, Least
    <3>2. i \in 1 .. m /\ T!IsSurrogate(s[i])
      OBVIOUS
    <3>3. ASSUME NEW j \in 1 .. i - 1, T!IsSurrogate(s[j]) PROVE FALSE
      <4>1. j \in Odd /\ j < i
        BY <3>2, <3>3
      <4>. QED  BY <3>1, <3>2, <4>1
    <3>. QED  BY <1>1, <3>2, <3>3
  <2>2. T!Prefix(s) = (CHOOSE i \in DOMAIN s : First(i)) - 1
    BY <1>2 DEF T!Prefix
  <2>3. PICK p \in DOMAIN s : First(p) /\ T!Prefix(s) = p - 1
    BY <2>1, <2>2
  <2>. QED  BY <1>1, <2>3
<1>3. CASE ~(\E i \in DOMAIN s : T!IsSurrogate(s[i]))
  BY <1>1, <1>3 DEF T!Prefix
<1>. QED  BY <1>2, <1>3

LEMMA PrefixSteps ==
  ASSUME In16, T!PrefixChunk
  PROVE  Stepped16 /\ pc' = "pairs"
<1>0. PICK vl \in T!LegalVl(n, Vlmax16) :
        /\ ~T!AllBelow(T!Words(vl), 2048)
        /\ T!Advance16(T!Prefix(T!Words(vl)),
                       T!FlattenSeq([i \in 1 .. T!Prefix(T!Words(vl)) |->
                                       T!Lane3(T!Words(vl)[i])]))
  BY Zenon DEF T!PrefixChunk
<1>. DEFINE k == T!Prefix(T!Words(vl))
            lanes == [i \in 1 .. k |-> T!Lane3(T!Words(vl)[i])]
<1>1. T!Advance16(k, T!FlattenSeq(lanes))
  BY <1>0
<1>2. /\ src \in Nat /\ Len(input) \in Nat /\ n \in Nat \ {0} /\ n = Len(input) - src
      /\ \A x \in 1 .. n : T!Unit(src + x - 1) \in Nat
      /\ T!From(kernel) = "utf16" /\ T!To(kernel) = "utf8" /\ AtCharacter
      /\ input \in Seq(Nat) /\ Narrow(input)
  BY Facts16 DEF In16
<1>3. vl \in 0 .. n
  BY <1>2, LegalVl16
<1>5. T!Words(vl) = [x \in 1 .. vl |-> T!Unit(src + x - 1)]
  BY DEF T!Words
<1>4. T!Words(vl) \in [1 .. vl -> Nat] /\ \A x \in 1 .. vl : T!Words(vl)[x] = T!Unit(src + x - 1)
  <2>1. ASSUME NEW x \in 1 .. vl PROVE T!Unit(src + x - 1) \in Nat
    <3>1. x \in 1 .. n
      BY <1>2, <1>3
    <3>. QED  BY <1>2, <3>1
  <2>2. [x \in 1 .. vl |-> T!Unit(src + x - 1)] \in [1 .. vl -> Nat]
    BY <2>1, Zenon
  <2>. QED  BY <1>5, <2>2, Zenon
<1>6. /\ k \in Nat /\ src + k =< Len(input) /\ \A x \in 1 .. k : x \in 1 .. vl
      /\ \A x \in 1 .. k : ~T!IsSurrogate(T!Words(vl)[x])
  <2>1. vl \in Nat
    BY <1>3
  <2>2. k \in 0 .. vl /\ \A x \in 1 .. k : ~T!IsSurrogate(T!Words(vl)[x])
    BY <1>4, <2>1, PrefixFacts
  <2>. HIDE DEF k
  <2>. QED  BY <1>2, <1>3, <2>2
<1>7. lanes = [x \in 1 .. k |-> T!Utf8(T!Unit(src + x - 1))]
  <2>. HIDE DEF k
  <2>1. ASSUME NEW x \in 1 .. k
        PROVE  T!Lane3(T!Words(vl)[x]) = T!Utf8(T!Unit(src + x - 1))
    <3>1. \A w \in Nat : w < 65536 => T!Lane3(w) = T!Utf8(w)
      BY LanesAre, SMT
    <3>2. x \in 1 .. vl /\ T!Words(vl)[x] = T!Unit(src + x - 1)
      BY <1>4, <1>6
    <3>3. T!Unit(src + x - 1) = input[src + x] /\ src + x \in 1 .. Len(input)
      BY <1>2, <1>3, <3>2, SMTT(30) DEF T!Unit, T!count
    <3>4. T!Unit(src + x - 1) \in Nat /\ T!Unit(src + x - 1) < 65536
      BY <1>2, <3>3, SMT DEF Narrow
    <3>. QED  BY <3>1, <3>2, <3>4, SMT
  <2>. QED  BY <2>1, Zenon
<1>8. \A x \in 1 .. k : ~T!IsSurrogate(T!Unit(src + x - 1))
  BY <1>4, <1>6
<1>. HIDE DEF lanes, k
<1>9. /\ src' = src + k /\ dest' = dest + Len(T!FlattenSeq(lanes))
      /\ out' = T!Stored(T!FlattenSeq(lanes))
  BY <1>1 DEF T!Advance16
<1>10. T!FlattenSeq(lanes) \in Seq(Int) /\ Advances(k, T!FlattenSeq(lanes))
  BY <1>2, <1>6, <1>7, <1>8, <1>9, LanesAdvance
<1>11. /\ UNCHANGED << kernel, input, end, start, answer >> /\ n' = n - k
       /\ src' = src + k /\ pc' = "pairs"
  BY <1>1 DEF T!Advance16, T!call, T!PrefixChunk
<1>12. n' = n - (src' - src)
  BY <1>2, <1>6, <1>11
<1>. QED  BY <1>6, <1>10, <1>11, <1>12 DEF Stepped16

LEMMA PairSteps ==
  ASSUME In16, T!Pair
  PROVE  Stepped16 /\ pc' = pc
<1>1. /\ T!IsSurrogate(T!Unit(src)) /\ ~T!EndsWithin /\ T!IsPair(src)
      /\ T!Advance16(2, T!Bytes4(T!PairValue(src))) /\ pc' = pc
  BY DEF T!Pair
<1>2. /\ src \in Nat /\ Len(input) \in Nat /\ n \in Nat \ {0} /\ n = Len(input) - src
      /\ T!From(kernel) = "utf16" /\ T!To(kernel) = "utf8" /\ AtCharacter
      /\ input \in Seq(Nat) /\ Narrow(input) /\ src < Len(input)
      /\ kernel \in T!Kernels /\ InStep(kernel, input, src, Written)
  BY Facts16 DEF In16, AtCharacter, StepTypes
<1>3. src + 1 < Len(input)
  BY <1>1, <1>2 DEF T!EndsWithin
<1>4. /\ 2 \in FitsAt("utf16", input, src + 1)
      /\ Converted("utf16", "utf8", input, src + 1, 2) = T!Bytes4(T!PairValue(src))
  BY <1>1, <1>2, <1>3, Utf16Round
<1>5. InStep(kernel, input, src + 2, Written \o T!Bytes4(T!PairValue(src)))
  BY <1>2, <1>4, OneMore
<1>6. T!Bytes4(T!PairValue(src)) \in Seq(Int)
  <2>1. src + 1 \in 1 .. Len(input) /\ "utf16" \in Forms /\ "utf8" \in Forms
    BY <1>2 DEF Forms
  <2>2. Converted("utf16", "utf8", input, src + 1, 2) \in Seq(Nat)
    BY <1>2, <1>4, <2>1, OneFits
  <2>. QED  BY <1>4, <2>2, SeqMonotonic
<1>7. /\ UNCHANGED << kernel, input, end, start, answer >> /\ n' = n - 2 /\ src' = src + 2
      /\ dest' = dest + Len(T!Bytes4(T!PairValue(src)))
      /\ out' = T!Stored(T!Bytes4(T!PairValue(src)))
  BY <1>1 DEF T!Advance16, T!call
<1>8. Advances(2, T!Bytes4(T!PairValue(src)))
  BY <1>5, <1>7 DEF Advances
<1>9. n' = n - (src' - src) /\ 2 \in Nat
  BY <1>2, <1>7
<1>. QED  BY <1>1, <1>6, <1>7, <1>8, <1>9 DEF Stepped16

LEMMA BadPairRejects ==
  ASSUME In16, T!BadPair
  PROVE  Rejects /\ UNCHANGED << kernel, input, end, start, n >>
<1>1. /\ T!IsSurrogate(T!Unit(src)) /\ (T!EndsWithin \/ ~T!IsPair(src))
      /\ pc' = "done" /\ answer' = 0
      /\ UNCHANGED << kernel, input, src, end, dest, out, start, n >>
  BY DEF T!BadPair, T!call
<1>2. /\ src \in Nat /\ Len(input) \in Nat /\ n \in Nat \ {0} /\ n = Len(input) - src
      /\ T!From(kernel) = "utf16" /\ input \in Seq(Nat) /\ Narrow(input) /\ src < Len(input)
  BY Facts16 DEF In16
<1>3. ~(src + 1 < Len(input) /\ T!IsPair(src))
  BY <1>1, <1>2 DEF T!EndsWithin
<1>4. FitsAt("utf16", input, src + 1) = {}
  BY <1>1, <1>2, <1>3, Utf16Round
<1>. QED  BY <1>1, <1>2, <1>4 DEF Rejects

-----------------------------------------------------------------------------
(* The calls of the transcoders.                                           *)

\* the transcoders whose src is never inside a character
InStepKernels == T!ScalarKernels \cup T!Rvv16Kernels

\* how a call ends: with all characters converted, or where there is none
Ended ==
  \/ src = Len(input) /\ answer = dest
  \/ answer = 0 /\ src < Len(input) /\ FitsAt(T!From(kernel), input, src + 1) = {}

StepInv ==
  kernel \in InStepKernels =>
    /\ AtCharacter /\ Len(out) = dest
    /\ start = 0 /\ n \in 0 .. Len(input) /\ last = M!Nothing
    /\ pc \in { "scalar", "loop", "pairs", "done" }
    /\ pc = "scalar" => kernel \in T!ScalarKernels /\ answer = 0
    /\ pc \in { "loop", "pairs" } =>
         kernel \in T!Rvv16Kernels /\ n = Len(input) - src /\ answer = 0
    /\ pc = "done" => Ended

LEMMA InStepFacts ==
  /\ \A k \in InStepKernels : /\ k \in T!Kernels /\ k \notin T!Rvv8Kernels
                              /\ k \notin MergeKernels
                              /\ k \notin M!VslideVariants /\ k \notin M!MshiftVariants
                              /\ k \in T!ScalarKernels <=> k \notin T!Rvv16Kernels
  /\ T!From("utf16_to_utf8_rvv") = "utf16"
BY KernelFacts DEF InStepKernels, T!Kernels, T!ScalarKernels, T!Rvv8Kernels, T!Rvv16Kernels,
                   MergeKernels, M!VslideVariants, M!MshiftVariants, T!From

LEMMA InputTypes ==
  ASSUME NEW f \in T!Kernels, NEW u \in Inputs[T!From(f)]
  PROVE  u \in Seq(Nat) /\ (T!From(f) = "utf16" => Narrow(u))
<1>1. PICK form \in Forms : form = T!From(f)
  BY FormFacts
<1>2. u \in Seq(Nat) /\ \A i \in 1 .. Len(u) : IsUnit(form, u[i])
  BY <1>1, InputsAssumption, Zenon DEF Forms
<1>3. ASSUME form = "utf16", NEW i \in 1 .. Len(u) PROVE u[i] < 65536
  <2>1. u[i] \in Nat /\ IsUnit(form, u[i])
    BY <1>2
  <2>. QED  BY <1>3, <2>1, SMT DEF IsUnit
<1>4. form = "utf16" => Narrow(u)
  BY <1>3 DEF Narrow
<1>. QED  BY <1>1, <1>2, <1>4

LEMMA EmptyInStep ==
  ASSUME NEW f \in T!Kernels, NEW u \in Seq(Nat)
  PROVE  InStep(f, u, 0, << >>)
<1>1. T!From(f) \in Forms /\ T!To(f) \in Forms
  BY FormFacts
<1>2. Boundary(T!From(f), u, 0) /\ Text(T!From(f), T!To(f), u, 0) = << >>
  BY <1>1, AtTheEnds
<1>3. 0 \in 0 .. Len(u)
  OBVIOUS
<1>. QED  BY <1>2, <1>3 DEF InStep

LEMMA StepInit ==
  ASSUME Init
  PROVE  StepInv
<1>. SUFFICES ASSUME kernel \in InStepKernels
              PROVE  StepInv
  BY DEF StepInv
<1>1. T!Init /\ last = M!Nothing
  BY InStepFacts DEF Init, M!Init
<1>2. /\ kernel \in T!Kernels /\ input \in Inputs[T!From(kernel)]
      /\ T!ScalarInit \/ T!Utf8ToNInit \/ T!Utf16To8Init
  BY <1>1 DEF T!Init
<1>3. input \in Seq(Nat) /\ (T!From(kernel) = "utf16" => Narrow(input))
  BY <1>2, InputTypes
<1>4. /\ src = 0 /\ dest = 0 /\ out = << >> /\ start = 0 /\ answer = 0 /\ end = Len(input)
      /\ \/ pc = "scalar" /\ kernel \in T!ScalarKernels /\ n = 0
         \/ pc = "loop" /\ kernel \in T!Rvv16Kernels /\ n = Len(input)
  BY <1>2, InStepFacts DEF T!ScalarInit, T!Utf8ToNInit, T!Utf16To8Init, T!count
<1>5. out \in Seq(Int) /\ Len(out) = 0 /\ dest \in 0 .. Len(out) /\ Len(input) \in Nat
  BY <1>3, <1>4
<1>6. Written = << >>
  BY <1>4 DEF Written
<1>7. InStep(kernel, input, src, Written)
  BY <1>2, <1>3, <1>4, <1>6, EmptyInStep
<1>8. AtCharacter
  BY <1>2, <1>3, <1>4, <1>5, <1>7 DEF AtCharacter, StepTypes
<1>9. n \in 0 .. Len(input) /\ (pc = "loop" => n = Len(input) - src)
  BY <1>4, <1>5
<1>. QED  BY <1>1, <1>4, <1>5, <1>8, <1>9 DEF StepInv

LEMMA ConcatLength ==
  ASSUME NEW a \in Seq(Int), NEW b \in Seq(Int)
  PROVE  a \o b \in Seq(Int) /\ Len(a \o b) = Len(a) + Len(b)
OBVIOUS

LEMMA StoredLength ==
  ASSUME out \in Seq(Int), Len(out) = dest, NEW s \in Seq(Int)
  PROVE  T!Stored(s) = out \o s /\ Len(T!Stored(s)) = dest + Len(s)
<1>1. SubSeq(out, 1, dest) = out
  <2>1. SubSeq(out, 1, dest) \in Seq(Int) /\ Len(SubSeq(out, 1, dest)) = Len(out)
        /\ \A i \in 1 .. Len(out) : SubSeq(out, 1, dest)[i] = out[i]
    OBVIOUS
  <2>. QED  BY <2>1, SeqEqual
<1>2. SubSeq(out, dest + Len(s) + 1, Len(out)) = << >>
  OBVIOUS
<1>6. out \o s \in Seq(Int) /\ Len(out \o s) = dest + Len(s)
  BY ConcatLength
<1>3. PICK r \in Seq(Int) : r = out \o s /\ Len(r) = dest + Len(s)
  BY <1>6, Zenon
<1>4. r \o << >> = r
  OBVIOUS
<1>5. T!Stored(s) = out \o s \o << >>
  BY <1>1, <1>2 DEF T!Stored
<1>. QED  BY <1>3, <1>4, <1>5

LEMMA AllWritten ==
  ASSUME out \in Seq(Int), Len(out) = dest
  PROVE  Written = out
<1>1. SubSeq(out, 1, dest) \in Seq(Int) /\ Len(SubSeq(out, 1, dest)) = Len(out)
      /\ \A i \in 1 .. Len(out) : SubSeq(out, 1, dest)[i] = out[i]
  OBVIOUS
<1>. QED  BY <1>1, SeqEqual DEF Written

\* What a step does, of whichever loop.
Stepped ==
  /\ UNCHANGED << kernel, input, end, start, answer >>
  /\ \E k \in Nat, s \in Seq(Int) : Advances(k, s)

LEMMA SteppedOn ==
  ASSUME AtCharacter, Len(out) = dest, Stepped
  PROVE  AtCharacter' /\ (Len(out) = dest)' /\ \E s \in Seq(Int) : out' = out \o s
<1>1. PICK k \in Nat, s \in Seq(Int) : Advances(k, s)
  BY DEF Stepped
<1>2. StepTypes' /\ InStep(kernel, input, src, Written)'
  BY <1>1, AdvanceInStep DEF AtCharacter, Stepped
<1>3. out' = T!Stored(s) /\ dest' = dest + Len(s) /\ out \in Seq(Int)
  BY <1>1 DEF Advances, AtCharacter, StepTypes
<1>4. T!Stored(s) = out \o s /\ Len(T!Stored(s)) = dest + Len(s)
  BY <1>3, StoredLength
<1>. QED  BY <1>2, <1>3, <1>4 DEF AtCharacter

LEMMA Unmoved ==
  ASSUME AtCharacter, UNCHANGED << kernel, input, src, end, dest, out >>
  PROVE  AtCharacter'
BY DEF AtCharacter, StepTypes, InStep, Written

-----------------------------------------------------------------------------
\* What a step is that is not the end: src goes on, or only pc changes.
GoesOnInStep ==
  /\ UNCHANGED << kernel, input, start, end, last, answer >>
  /\ pc # "done" /\ pc' # "done"
  /\ Stepped \/ UNCHANGED << src, dest, out >>

EndsInStep ==
  /\ UNCHANGED << kernel, input, start, end, last, src, dest, out >>
  /\ pc # "done" /\ pc' = "done" /\ Ended'

LEMMA ScalarStep ==
  ASSUME StepInv, kernel \in InStepKernels, T!ScalarNext, UNCHANGED last
  PROVE  StepInv' /\ (GoesOnInStep \/ EndsInStep)
<1>1. /\ AtCharacter /\ Len(out) = dest /\ start = 0 /\ n \in 0 .. Len(input)
      /\ last = M!Nothing /\ pc = "scalar" => kernel \in T!ScalarKernels /\ answer = 0
  BY DEF StepInv
<1>2. ASSUME Rounded, pc = "scalar", UNCHANGED << kernel, input, end, start, n >>
      PROVE  StepInv' /\ (GoesOnInStep \/ EndsInStep)
  <2>1. CASE UNCHANGED << pc, answer >> /\ \E k \in Nat, s \in Seq(Int) : Advances(k, s)
    <3>1. Stepped
      BY <1>2, <2>1 DEF Stepped
    <3>2. AtCharacter' /\ (Len(out) = dest)'
      BY <1>1, <3>1, SteppedOn
    <3>3. StepInv'
      BY <1>1, <1>2, <2>1, <3>2 DEF StepInv
    <3>4. GoesOnInStep
      BY <1>2, <2>1, <3>1 DEF GoesOnInStep
    <3>. QED  BY <3>3, <3>4
  <2>2. CASE Rejects
    <3>1. AtCharacter'
      BY <1>1, <1>2, <2>2, Unmoved DEF Rejects
    <3>2. Ended'
      BY <1>2, <2>2 DEF Rejects, Ended
    <3>3. StepInv'
      BY <1>1, <1>2, <2>2, <3>1, <3>2 DEF StepInv, Rejects
    <3>4. EndsInStep
      BY <1>2, <2>2, <3>2 DEF EndsInStep, Rejects
    <3>. QED  BY <3>3, <3>4
  <2>. QED  BY <1>2, <2>1, <2>2 DEF Rounded
<1>3. CASE T!Utf8ToUtf16
  BY <1>1, <1>2, <1>3, Utf8ToUtf16Rounds
<1>4. CASE T!Utf8ToUtf32
  BY <1>1, <1>2, <1>4, Utf8ToUtf32Rounds
<1>5. CASE T!Utf16ToUtf8
  BY <1>1, <1>2, <1>5, Utf16ToUtf8Rounds
<1>6. CASE T!Utf32ToUtf8
  BY <1>1, <1>2, <1>6, Utf32ToUtf8Rounds
<1>7. CASE T!Utf32ToUtf16
  BY <1>1, <1>2, <1>7, Utf32ToUtf16Rounds
<1>8. CASE T!ScalarReturn
  <2>1. /\ pc = "scalar" /\ src >= end /\ pc' = "done"
        /\ answer' = IF dest = start THEN 0 ELSE dest
        /\ UNCHANGED << kernel, input, src, end, dest, out, start, n >>
    BY <1>8 DEF T!ScalarReturn, T!call
  <2>2. src = Len(input) /\ answer' = dest
    <3>1. end = Len(input) /\ src \in 0 .. Len(input) /\ Len(input) \in Nat
      BY <1>1 DEF AtCharacter, StepTypes, InStep
    <3>. QED  BY <1>1, <2>1, <3>1
  <2>3. Ended'
    BY <2>1, <2>2 DEF Ended
  <2>4. AtCharacter'
    BY <1>1, <2>1, Unmoved
  <2>5. StepInv'
    BY <1>1, <2>1, <2>3, <2>4 DEF StepInv
  <2>. QED  BY <2>1, <2>3, <2>5 DEF EndsInStep
<1>. QED  BY <1>3, <1>4, <1>5, <1>6, <1>7, <1>8 DEF T!ScalarNext

LEMMA Utf16Step ==
  ASSUME StepInv, kernel \in InStepKernels, T!Utf16To8Next, UNCHANGED last
  PROVE  StepInv' /\ (GoesOnInStep \/ EndsInStep)
<1>1. /\ AtCharacter /\ Len(out) = dest /\ start = 0 /\ n \in 0 .. Len(input)
      /\ last = M!Nothing
      /\ pc \in { "loop", "pairs" } =>
           kernel \in T!Rvv16Kernels /\ n = Len(input) - src /\ answer = 0
  BY DEF StepInv
<1>2. ASSUME Stepped16, pc \in { "loop", "pairs" }, pc' \in { "loop", "pairs" }
      PROVE  StepInv' /\ (GoesOnInStep \/ EndsInStep)
  <2>1. Stepped
    BY <1>2 DEF Stepped16, Stepped
  <2>2. AtCharacter' /\ (Len(out) = dest)'
    BY <1>1, <2>1, SteppedOn
  <2>3. /\ n' = n - (src' - src) /\ kernel' = kernel /\ input' = input /\ start' = start
        /\ answer' = answer
    BY <1>2 DEF Stepped16
  <2>4. src \in 0 .. Len(input) /\ src' \in 0 .. Len(input) /\ Len(input) \in Nat
    BY <1>1, <2>2, <2>3 DEF AtCharacter, StepTypes, InStep
  <2>8. n = Len(input) - src
    BY <1>1, <1>2
  <2>5. n' = Len(input) - src' /\ n' \in 0 .. Len(input)
    BY <2>3, <2>4, <2>8
  <2>6. StepInv'
    BY <1>1, <1>2, <2>2, <2>3, <2>5 DEF StepInv
  <2>7. GoesOnInStep
    BY <1>2, <2>1 DEF GoesOnInStep, Stepped16
  <2>. QED  BY <2>6, <2>7
<1>3. ASSUME pc \in { "loop", "pairs" }, n > 0 PROVE In16
  BY <1>1, <1>3 DEF In16
<1>4. CASE T!AsciiChunk16
  <2>1. pc = "loop" /\ n > 0
    BY <1>4 DEF T!AsciiChunk16, T!InLoop16
  <2>. QED  BY <1>2, <1>3, <1>4, <2>1, Ascii16Steps
<1>5. CASE T!TwoByteChunk
  <2>1. pc = "loop" /\ n > 0
    BY <1>5 DEF T!TwoByteChunk, T!InLoop16
  <2>. QED  BY <1>2, <1>3, <1>5, <2>1, TwoByteSteps
<1>6. CASE T!PrefixChunk
  <2>1. pc = "loop" /\ n > 0
    BY <1>6 DEF T!PrefixChunk, T!InLoop16
  <2>. QED  BY <1>2, <1>3, <1>6, <2>1, PrefixSteps
<1>7. CASE T!Pair
  <2>1. pc = "pairs" /\ n > 0
    BY <1>7 DEF T!Pair
  <2>. QED  BY <1>2, <1>3, <1>7, <2>1, PairSteps
<1>8. CASE T!BadPair
  <2>1. pc = "pairs" /\ n > 0
    BY <1>8 DEF T!BadPair
  <2>2. Rejects /\ UNCHANGED << kernel, input, end, start, n >>
    BY <1>3, <1>8, <2>1, BadPairRejects
  <2>3. AtCharacter'
    BY <1>1, <2>2, Unmoved DEF Rejects
  <2>4. Ended'
    BY <2>2 DEF Rejects, Ended
  <2>5. StepInv'
    BY <1>1, <2>1, <2>2, <2>3, <2>4 DEF StepInv, Rejects
  <2>. QED  BY <2>1, <2>2, <2>4, <2>5 DEF EndsInStep, Rejects
<1>9. CASE T!NoMorePairs
  <2>1. /\ pc = "pairs" /\ pc' = "loop"
        /\ UNCHANGED << kernel, input, src, end, dest, out, start, n, answer >>
    BY <1>9 DEF T!NoMorePairs, T!call
  <2>2. AtCharacter'
    BY <1>1, <2>1, Unmoved
  <2>3. StepInv'
    BY <1>1, <2>1, <2>2 DEF StepInv
  <2>. QED  BY <2>1, <2>3 DEF GoesOnInStep
<1>10. CASE T!Return16
  <2>1. /\ pc = "loop" /\ n = 0 /\ pc' = "done" /\ answer' = dest
        /\ UNCHANGED << kernel, input, src, end, dest, out, start, n >>
    BY <1>10 DEF T!Return16, T!call
  <2>2. src = Len(input)
    <3>1. src \in 0 .. Len(input) /\ Len(input) \in Nat
      BY <1>1 DEF AtCharacter, StepTypes, InStep
    <3>. QED  BY <1>1, <2>1, <3>1
  <2>3. Ended'
    BY <2>1, <2>2 DEF Ended
  <2>4. AtCharacter'
    BY <1>1, <2>1, Unmoved
  <2>5. StepInv'
    BY <1>1, <2>1, <2>3, <2>4 DEF StepInv
  <2>. QED  BY <2>1, <2>3, <2>5 DEF EndsInStep
<1>. QED  BY <1>4, <1>5, <1>6, <1>7, <1>8, <1>9, <1>10 DEF T!Utf16To8Next

LEMMA StepInvStutters ==
  ASSUME StepInv, UNCHANGED << kernel, input, pc, src, end, dest, out, start, n, answer, last >>
  PROVE  StepInv'
BY Unmoved DEF StepInv, Ended

\* A step of a call of one of these kernels.
LEMMA InStepSteps ==
  ASSUME StepInv, kernel \in InStepKernels, [Next]_vars
  PROVE  StepInv' /\ (GoesOnInStep \/ EndsInStep \/ UNCHANGED vars)
<1>1. CASE T!Next /\ UNCHANGED last
  <2>1. CASE T!ScalarNext
    BY <1>1, <2>1, ScalarStep
  <2>2. CASE T!Utf8ToNNext
    <3>1. kernel \in T!Rvv8Kernels
      BY <2>2 DEF T!Utf8ToNNext, T!EnterShort, T!EnterLoop, T!AsciiChunk8, T!Reject,
                  T!DecodeChunk, T!LeaveLoop8, T!InLoop8
    <3>. QED  BY <3>1, InStepFacts
  <2>3. CASE T!Utf16To8Next
    BY <1>1, <2>3, Utf16Step
  <2>4. CASE T!Terminating
    <3>1. UNCHANGED vars
      BY <1>1, <2>4 DEF T!Terminating, T!uvars, vars
    <3>. QED  BY <3>1, StepInvStutters DEF vars
  <2>. QED  BY <1>1, <2>1, <2>2, <2>3, <2>4 DEF T!Next
<1>2. CASE M!Next /\ UNCHANGED << end, start, answer >>
  <2>1. CASE M!Terminating
    <3>1. UNCHANGED vars
      BY <1>2, <2>1 DEF M!Terminating, M!vars, vars
    <3>. QED  BY <3>1, StepInvStutters DEF vars
  <2>2. CASE ~M!Terminating
    <3>1. kernel \in M!VslideVariants \cup M!MshiftVariants
      BY <1>2, <2>2 DEF M!Next, M!EnterVslide, M!EnterMshift, M!EnterMshiftShort,
                        M!ChunkVslide, M!ChunkMshift, M!LastVslide, M!LastMshift
    <3>. QED  BY <3>1, InStepFacts
  <2>. QED  BY <2>1, <2>2
<1>3. CASE UNCHANGED vars
  BY <1>3, StepInvStutters DEF vars
<1>. QED  BY <1>1, <1>2, <1>3 DEF Next

LEMMA SameKernel ==
  ASSUME [Next]_vars
  PROVE  kernel' = kernel
<1>1. CASE T!Next
  <2>1. CASE T!ScalarNext
    BY <2>1, Zenon DEF T!ScalarNext, T!Round, T!call, T!Utf8ToUtf16, T!Utf8ToUtf32,
                T!Utf16ToUtf8, T!Utf32ToUtf8, T!Utf32ToUtf16, T!ScalarReturn
  <2>2. CASE T!Utf8ToNNext
    <3>1. CASE T!EnterShort \/ T!EnterLoop \/ T!Reject \/ T!LeaveLoop8
      BY <3>1 DEF T!EnterShort, T!EnterLoop, T!Reject, T!LeaveLoop8, T!call
    <3>2. ASSUME NEW k, NEW s, T!Advance8(k, s)
          PROVE  kernel' = kernel
      BY <3>2 DEF T!Advance8, T!call
    <3>3. CASE T!AsciiChunk8
      BY <3>2, <3>3, Zenon DEF T!AsciiChunk8
    <3>4. CASE T!DecodeChunk
      <4>1. PICK vl : \E v \in { T!Chunk(vl) } :
              \E s \in { T!Decoded(v, vl) } : T!Advance8(vl, s)
        BY <3>4 DEF T!DecodeChunk
      <4>2. \E s : T!Advance8(vl, s)
        BY <4>1
      <4>. QED  BY <3>2, <4>2
    <3>. QED  BY <2>2, <3>1, <3>3, <3>4 DEF T!Utf8ToNNext
  <2>3. CASE T!Utf16To8Next
    <3>1. ASSUME NEW k, NEW s, T!Advance16(k, s)
          PROVE  kernel' = kernel
      BY <3>1 DEF T!Advance16, T!call
    <3>2. CASE T!AsciiChunk16
      BY <3>1, <3>2, Zenon DEF T!AsciiChunk16
    <3>3. CASE T!TwoByteChunk
      <4>1. PICK vl \in T!LegalVl(n, Vlmax16) :
              LET s == T!Words(vl)
              IN  /\ ~T!AllBelow(s, \h80) /\ T!AllBelow(s, \h800)
                  /\ T!Advance16(vl, T!FlattenSeq([i \in 1 .. vl |-> T!Lane2(s[i])]))
        BY <3>3, Zenon DEF T!TwoByteChunk
      <4>. QED  BY <3>1, <4>1
    <3>4. CASE T!PrefixChunk
      <4>1. PICK vl \in T!LegalVl(n, Vlmax16) :
              LET s == T!Words(vl)
              IN  /\ ~T!AllBelow(s, \h800)
                  /\ T!Advance16(T!Prefix(s),
                                 T!FlattenSeq([i \in 1 .. T!Prefix(s) |-> T!Lane3(s[i])]))
        BY <3>4, Zenon DEF T!PrefixChunk
      <4>. QED  BY <3>1, <4>1
    <3>5. CASE T!Pair
      BY <3>1, <3>5, Zenon DEF T!Pair
    <3>6. CASE T!BadPair \/ T!NoMorePairs \/ T!Return16
      BY <3>6 DEF T!BadPair, T!NoMorePairs, T!Return16, T!call
    <3>. QED  BY <2>3, <3>2, <3>3, <3>4, <3>5, <3>6 DEF T!Utf16To8Next
  <2>4. CASE T!Terminating
    BY <2>4 DEF T!Terminating, T!uvars
  <2>. QED  BY <1>1, <2>1, <2>2, <2>3, <2>4 DEF T!Next
<1>2. CASE M!Next
  BY <1>2
     DEF M!Next, M!EnterVslide, M!EnterMshift, M!EnterMshiftShort, M!ChunkVslide,
         M!ChunkMshift, M!AdvanceBy, M!LastVslide, M!LastMshift, M!Terminating, M!vars
<1>3. CASE UNCHANGED vars
  BY <1>3 DEF vars
<1>. QED  BY <1>1, <1>2, <1>3 DEF Next

\* In a call of one of these kernels src is between characters.
LEMMA StepInvariant == Spec => []StepInv
<1>1. Init => StepInv
  BY StepInit
<1>2. StepInv /\ [Next]_vars => StepInv'
  <2>1. SUFFICES ASSUME StepInv, [Next]_vars
                 PROVE  StepInv'
    OBVIOUS
  <2>2. CASE kernel \in InStepKernels
    BY <2>1, <2>2, InStepSteps
  <2>3. CASE kernel \notin InStepKernels
    <3>1. kernel' = kernel
      BY <2>1, SameKernel
    <3>2. InStepKernels' = InStepKernels
      BY DEF InStepKernels, T!ScalarKernels, T!Rvv16Kernels
    <3>3. (kernel \in InStepKernels)' => kernel \in InStepKernels
      BY <3>1, <3>2
    <3>. QED  BY <2>3, <3>3 DEF StepInv
  <2>. QED  BY <2>2, <2>3
<1>. QED  BY <1>1, <1>2, PTL DEF Spec

LEMMA InStepTypes ==
  ASSUME StepInv, kernel \in InStepKernels
  PROVE  kernel \in MergeKernels \/ TypeOK
<1>1. /\ StepTypes /\ src \in 0 .. Len(input) /\ Len(out) = dest
      /\ start = 0 /\ n \in 0 .. Len(input) /\ last = M!Nothing
      /\ pc \in { "scalar", "loop", "pairs", "done" }
      /\ pc = "scalar" => answer = 0
      /\ pc \in { "loop", "pairs" } => answer = 0
      /\ pc = "done" => Ended
  BY DEF StepInv, AtCharacter, InStep
<1>2. kernel \in T!Kernels /\ end = Len(input) /\ dest \in 0 .. Len(out) /\ out \in Seq(Int)
  BY <1>1 DEF StepTypes
<1>3. answer \in { 0, dest }
  BY <1>1 DEF Ended
<1>4. start \in 0 .. dest
  BY <1>1, <1>2
<1>. QED  BY <1>1, <1>2, <1>3, <1>4 DEF TypeOK, T!TypeOK, T!count

\* Every variable of a call of these kernels holds what the code can put
\* there, for every input: neither dest nor n wraps, and what is returned is
\* 0 or the length of the output.
THEOREM TranscodersKeepTypes == Spec => [](kernel \in InStepKernels => TypeOK)
<1>1. StepInv => (kernel \in InStepKernels => TypeOK)
  BY InStepTypes, InStepFacts
<1>. QED  BY <1>1, StepInvariant, PTL

LEMMA InStepMatches ==
  ASSUME StepInv, kernel \in InStepKernels
  PROVE  DestMatchesSrc
<1>1. /\ src \in 0 .. Len(input) /\ Len(input) \in Nat
      /\ Boundary(T!From(kernel), input, src)
      /\ Written = Text(T!From(kernel), T!To(kernel), input, src)
      /\ kernel \notin T!Rvv8Kernels
  BY InStepFacts DEF StepInv, AtCharacter, InStep, StepTypes
<1>. DEFINE W(k) == T!WellFormed(T!From(kernel), SubSeq(input, 1, k))
            P(k) == W(k) /\ \A j \in src .. k - 1 : ~W(j)
            starts == CHOOSE k \in src .. Len(input) : P(k)
<1>2. W(src)
  BY <1>1, Zenon DEF Boundary, Front
<1>3. starts = src
  <2>. HIDE DEF W
  <2>1. P(src) /\ src \in src .. Len(input)
    BY <1>1, <1>2
  <2>2. P(starts) /\ starts \in src .. Len(input)
    <3>. HIDE DEF P
    <3>. QED  BY <2>1
  <2>. HIDE DEF starts
  <2>3. starts \notin src + 1 .. Len(input)
    BY <1>1, <1>2, <2>2
  <2>. QED  BY <1>1, <2>2, <2>3
<1>4. SubSeq(out, 1, dest) =
        T!Transcoded(T!From(kernel), T!To(kernel), SubSeq(input, 1, starts))
  <2>. HIDE DEF starts
  <2>. QED  BY <1>1, <1>3, Zenon DEF Written, Text, Front
<1>5. T!DestMatchesSrc
  BY <1>1, <1>3, <1>4, Zenon DEF T!DestMatchesSrc, T!count
<1>. QED  BY <1>5 DEF DestMatchesSrc

\* Input and output of these kernels are in step for every input, every
\* block size and every vsetvli answer: what is in front of dest are the
\* characters in front of src, as the standard's definition converts them,
\* pairs and the end of the input included.
THEOREM TranscodersInStep == Spec => [](kernel \in InStepKernels => DestMatchesSrc)
<1>1. StepInv => (kernel \in InStepKernels => DestMatchesSrc)
  BY InStepMatches
<1>. QED  BY <1>1, StepInvariant, PTL

-----------------------------------------------------------------------------
(* What the transcoders promise.                                           *)

LEMMA BeginsWith ==
  ASSUME NEW a \in Seq(Int), NEW b \in Seq(Int)
  PROVE  Abstract!IsPrefix(a, a \o b) /\ Abstract!IsPrefix(a, a)
<1>1. a \o b \in Seq(Int) /\ Len(a) =< Len(a \o b)
  OBVIOUS
<1>2. SubSeq(a \o b, 1, Len(a)) = a
  <2>1. SubSeq(a \o b, 1, Len(a)) \in Seq(Int) /\ Len(SubSeq(a \o b, 1, Len(a))) = Len(a)
        /\ \A i \in 1 .. Len(a) : SubSeq(a \o b, 1, Len(a))[i] = a[i]
    OBVIOUS
  <2>. QED  BY <2>1, SeqEqual
<1>3. SubSeq(a, 1, Len(a)) = a
  <2>1. SubSeq(a, 1, Len(a)) \in Seq(Int) /\ Len(SubSeq(a, 1, Len(a))) = Len(a)
        /\ \A i \in 1 .. Len(a) : SubSeq(a, 1, Len(a))[i] = a[i]
    OBVIOUS
  <2>. QED  BY <2>1, SeqEqual
<1>. QED  BY <1>1, <1>2, <1>3 DEF Abstract!IsPrefix

\* A text that is not empty has an output that is not.
LEMMA NeverEmpty ==
  ASSUME NEW form \in Forms, NEW to \in Forms, NEW u \in Seq(Nat), u # << >>
  PROVE  T!Transcoded(form, to, u) # << >>
<1>. DEFINE r == Rest(form, to, u)
<1>1. Len(u) \in Nat /\ Len(u) # 0 /\ 1 \in 1 .. Len(u) /\ 1 \in 1 .. Len(u) + 1 /\ 1 =< Len(u)
  OBVIOUS
<1>2. CASE FitsAt(form, u, 1) = {}
  <2>1. r[1] = << T!Malformed >>
    BY <1>1, <1>2, RestStep
  <2>2. << T!Malformed >> # << >>
    OBVIOUS
  <2>. QED  BY <2>1, <2>2, TranscodedIsRest, Zenon
<1>3. ASSUME NEW k \in FitsAt(form, u, 1)
      PROVE  T!Transcoded(form, to, u) # << >>
  <2>1. /\ k \in 1 .. 4 /\ 1 + k - 1 =< Len(u)
        /\ Converted(form, to, u, 1, k) \in Seq(Nat) /\ Converted(form, to, u, 1, k) # << >>
    BY <1>1, OneFits
  <2>2. r[1] = Converted(form, to, u, 1, k) \o r[1 + k]
    BY <1>1, RestStep
  <2>3. 1 + k \in 1 .. Len(u) + 1
    BY <1>1, <2>1
  <2>4. r[1 + k] \in Seq(Int)
    BY <2>3, RestType
  <2>5. PICK a \in Seq(Int), b \in Seq(Int) : a = Converted(form, to, u, 1, k) /\ b = r[1 + k]
    BY <2>1, <2>4
  <2>6. a # << >> => a \o b # << >>
    OBVIOUS
  <2>. QED  BY <2>1, <2>2, <2>5, <2>6, TranscodedIsRest
<1>. QED  BY <1>2, <1>3

\* what there is to see of the output is the beginning of the result, and all
\* of it on return
StepOutput ==
  kernel \in InStepKernels =>
    /\ out \in Seq(Int) /\ Abstract!IsPrefix(out, out)
    /\ Abstract!IsPrefix(out, T!ToBeWritten(kernel, input))
    /\ Abstract!IsPrefix(T!ToBeWritten(kernel, input), T!ToBeWritten(kernel, input))
    /\ T!Visible = IF pc = "done" THEN T!ToBeWritten(kernel, input) ELSE out

LEMMA OutputInStep ==
  ASSUME StepInv
  PROVE  StepOutput
<1>. SUFFICES ASSUME kernel \in InStepKernels
              PROVE  /\ out \in Seq(Int) /\ Abstract!IsPrefix(out, out)
                     /\ Abstract!IsPrefix(out, T!ToBeWritten(kernel, input))
                     /\ Abstract!IsPrefix(T!ToBeWritten(kernel, input),
                                          T!ToBeWritten(kernel, input))
                     /\ T!Visible = IF pc = "done" THEN T!ToBeWritten(kernel, input) ELSE out
  BY DEF StepOutput
<1>. DEFINE from == T!From(kernel)
            to   == T!To(kernel)
<1>1. /\ kernel \in T!Kernels /\ input \in Seq(Nat) /\ out \in Seq(Int) /\ Len(out) = dest
      /\ src \in 0 .. Len(input) /\ Boundary(from, input, src)
      /\ Written = Text(from, to, input, src)
      /\ pc = "done" => Ended
  BY DEF StepInv, AtCharacter, StepTypes, InStep
<1>2. from \in Forms /\ to \in Forms
  BY <1>1, FormFacts
<1>. HIDE DEF from, to
<1>3. out = Text(from, to, input, src)
  BY <1>1, AllWritten
<1>4. PICK rest \in Seq(Int) :
        T!Transcoded(from, to, input) = Text(from, to, input, src) \o rest
  <2>1. /\ T!Transcoded(from, to, input) =
             Text(from, to, input, src) \o Rest(from, to, input)[src + 1]
        /\ Rest(from, to, input)[src + 1] \in Seq(Int)
    BY <1>1, <1>2, Whole
  <2>. QED  BY <2>1
<1>5. T!ToBeWritten(kernel, input) = T!Transcoded(from, to, input)
  BY DEF T!ToBeWritten, from, to
<1>6. T!ToBeWritten(kernel, input) = out \o rest
  BY <1>3, <1>4, <1>5
<1>7. out \o rest \in Seq(Int)
  BY <1>1, <1>4, ConcatLength
<1>8. /\ Abstract!IsPrefix(out, out)
      /\ Abstract!IsPrefix(out, T!ToBeWritten(kernel, input))
      /\ Abstract!IsPrefix(T!ToBeWritten(kernel, input), T!ToBeWritten(kernel, input))
  BY <1>1, <1>4, <1>6, <1>7, BeginsWith
<1>9. CASE pc # "done"
  <2>1. T!Visible = out
    BY <1>9 DEF T!Visible
  <2>. QED  BY <1>1, <1>8, <1>9, <2>1
<1>10. CASE pc = "done"
  <2>1. CASE src = Len(input) /\ answer = dest
    <3>1. out = T!Transcoded(from, to, input)
      <4>1. Front(input, Len(input)) = input
        BY <1>1, <1>2, AtTheEnds
      <4>. QED  BY <1>3, <2>1, <4>1 DEF Text
    <3>2. answer # 0 \/ input = << >>
      <4>1. SUFFICES ASSUME answer = 0, input # << >> PROVE FALSE
        OBVIOUS
      <4>2. out = << >>
        BY <1>1, <2>1, <4>1
      <4>. QED  BY <1>1, <1>2, <3>1, <4>1, <4>2, NeverEmpty
    <3>3. T!Visible = SubSeq(out, 1, dest)
      BY <1>10, <2>1, <3>2 DEF T!Visible
    <3>4. T!Visible = out
      BY <1>1, <3>3, AllWritten DEF Written
    <3>. QED  BY <1>1, <1>5, <1>8, <1>10, <3>1, <3>4
  <2>2. CASE answer = 0 /\ src < Len(input) /\ FitsAt(T!From(kernel), input, src + 1) = {}
    <3>1. src \in 0 .. Len(input) - 1
      BY <1>1, <2>2
    <3>2. FitsAt(from, input, src + 1) = {}
      BY <2>2 DEF from
    <3>3. ~T!WellFormed(from, input)
      BY <1>1, <1>2, <3>1, <3>2, Stuck
    <3>4. input # << >>
      BY <1>1, <2>2
    <3>5. T!Visible = T!ToBeWritten(kernel, input)
      BY <1>10, <2>2, <3>3, <3>4, Zenon DEF T!Visible, from
    <3>. QED  BY <1>1, <1>8, <1>10, <3>5
  <2>. QED  BY <1>1, <1>10, <2>1, <2>2 DEF Ended
<1>. QED  BY <1>9, <1>10

LEMMA InStepWrites ==
  ASSUME StepInv, StepOutput, StepOutput', kernel \in InStepKernels, [Next]_vars
  PROVE  (kernel \in InStepKernels)' /\ [Abstract!Write]_(Abstract!vars)
<1>1. /\ InStepKernels' = InStepKernels /\ MergeKernels' = MergeKernels
      /\ kernel' = kernel /\ kernel \notin MergeKernels
  BY SameKernel, InStepFacts
     DEF InStepKernels, T!ScalarKernels, T!Rvv16Kernels, MergeKernels,
         M!VslideVariants, M!MshiftVariants
<1>2. /\ out \in Seq(Int) /\ Abstract!IsPrefix(out, out)
      /\ T!Visible = IF pc = "done" THEN T!ToBeWritten(kernel, input) ELSE out
      /\ Abstract!IsPrefix(out, T!ToBeWritten(kernel, input))
      /\ Abstract!IsPrefix(T!ToBeWritten(kernel, input), T!ToBeWritten(kernel, input))
  BY DEF StepOutput
<1>3. input' = input =>
        /\ T!Visible' = IF pc' = "done" THEN T!ToBeWritten(kernel, input) ELSE out'
        /\ Abstract!IsPrefix(out', T!ToBeWritten(kernel, input))
  <2>1. kernel' \in InStepKernels'
    BY <1>1
  <2>2. /\ T!Visible' = IF pc' = "done" THEN T!ToBeWritten(kernel', input') ELSE out'
        /\ Abstract!IsPrefix(out', T!ToBeWritten(kernel', input'))
    BY <2>1, Zenon DEF StepOutput
  <2>. QED  BY <1>1, <2>2, Zenon
<1>4. CASE GoesOnInStep
  <2>1. pc # "done" /\ pc' # "done" /\ input' = input
    BY <1>4 DEF GoesOnInStep
  <2>2. Abstract!IsPrefix(out, out')
    <3>1. CASE UNCHANGED out
      BY <1>2, <3>1
    <3>2. CASE Stepped
      <4>1. \E s \in Seq(Int) : out' = out \o s
        BY <3>2, SteppedOn DEF StepInv
      <4>. QED  BY <1>2, <4>1, BeginsWith
    <3>. QED  BY <1>4, <3>1, <3>2 DEF GoesOnInStep
  <2>3. T!Visible = out /\ T!Visible' = out'
    BY <1>2, <1>3, <2>1
  <2>4. Abstract!Write
    BY <1>1, <1>3, <2>1, <2>2, <2>3 DEF Abstract!Write
  <2>. QED  BY <1>1, <2>4
<1>5. CASE EndsInStep
  <2>1. pc # "done" /\ pc' = "done" /\ input' = input
    BY <1>5 DEF EndsInStep
  <2>2. T!Visible = out /\ T!Visible' = T!ToBeWritten(kernel, input)
    BY <1>2, <1>3, <2>1
  <2>3. Abstract!Write
    BY <1>1, <1>2, <2>1, <2>2 DEF Abstract!Write
  <2>. QED  BY <1>1, <2>3
<1>6. CASE UNCHANGED vars
  <2>1. T!Visible' = T!Visible /\ pc' = pc /\ input' = input
    BY <1>1, <1>2, <1>3, <1>6 DEF vars
  <2>2. UNCHANGED Abstract!vars
    BY <1>1, <2>1 DEF Abstract!vars
  <2>. QED  BY <1>1, <2>2
<1>. QED  BY <1>4, <1>5, <1>6, InStepSteps

\* A call of one of these kernels writes the converted text from the front,
\* takes nothing back, and returns with all of it, or with an error for a text
\* that is not well-formed: the initial states and the steps of
\* InOrderOutput.  That the call returns is left to the run.
THEOREM TranscodersImplementInOrderOutput ==
  Spec /\ kernel \in InStepKernels =>
    Abstract!Init /\ [][Abstract!Write]_(Abstract!vars)
<1>1. Init /\ kernel \in InStepKernels => Abstract!Init
  <2>1. SUFFICES ASSUME Init, kernel \in InStepKernels
                 PROVE  Abstract!Init
    OBVIOUS
  <2>2. T!Init /\ kernel \notin MergeKernels
    BY <2>1, InStepFacts DEF Init, M!Init
  <2>3. out = << >> /\ pc # "done"
    BY <2>2 DEF T!Init, T!ScalarInit, T!Utf8ToNInit, T!Utf16To8Init
  <2>4. T!Visible = << >>
    BY <2>3 DEF T!Visible
  <2>. QED  BY <2>2, <2>3, <2>4 DEF Abstract!Init
<1>2. StepInv => StepOutput
  BY OutputInStep
<1>3. ASSUME StepInv, StepOutput, StepOutput', kernel \in InStepKernels, [Next]_vars
      PROVE  (kernel \in InStepKernels)' /\ [Abstract!Write]_(Abstract!vars)
  BY <1>3, InStepWrites
<1>. QED  BY <1>1, <1>2, <1>3, StepInvariant, PTL DEF Spec
=============================================================================
