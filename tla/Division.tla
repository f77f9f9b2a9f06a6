------------------------------ MODULE Division ------------------------------
(***************************************************************************)
(* What several proofs need to know of quotients and remainders, and the   *)
(* induction they use.                                                     *)
(***************************************************************************)
EXTENDS Integers, WellFoundedInduction, TLAPS

\* a smaller number of parts of size w leaves room for one more
LEMMA OneMoreFits ==
  ASSUME NEW w \in Nat, NEW x \in Int, NEW y \in Int, x < y
  PROVE  x * w + w =< y * w
<1>1. PICK k \in Nat : y = x + 1 + k
  <2>1. y - x - 1 \in Nat /\ y = x + 1 + (y - x - 1)
    OBVIOUS
  <2>. QED  BY <2>1
<1>2. y * w = x * w + w + k * w /\ k * w \in Nat /\ x * w \in Int
  BY <1>1
<1>. QED  BY <1>2

\* quotient and remainder, and that there are no others
LEMMA Quotient ==
  ASSUME NEW x \in Nat, NEW w \in Nat \ {0}
  PROVE  /\ x \div w \in Nat /\ x % w \in 0 .. w - 1
         /\ x = (x \div w) * w + (x % w)
<1>1. x \div w \in Nat /\ x % w \in 0 .. w - 1 /\ x = w * (x \div w) + (x % w)
  OBVIOUS
<1>. QED  BY <1>1

LEMMA QuotientUnique ==
  ASSUME NEW w \in Nat \ {0}, NEW a \in Nat, NEW b \in 0 .. w - 1
  PROVE  a * w + b \in Nat /\ (a * w + b) \div w = a /\ (a * w + b) % w = b
<1>1. PICK x \in Nat : x = a * w + b
  OBVIOUS
<1>2. PICK q \in Nat, r \in 0 .. w - 1 : q = x \div w /\ r = x % w /\ x = q * w + r
  BY Quotient
<1>3. q * w \in Nat /\ a * w \in Nat
  OBVIOUS
<1>4. ~ (q < a) /\ ~ (a < q)
  <2>1. q < a => q * w + w =< a * w
    BY OneMoreFits
  <2>2. a < q => a * w + w =< q * w
    BY OneMoreFits
  <2>. QED  BY <1>1, <1>2, <1>3, <2>1, <2>2
<1>. QED  BY <1>1, <1>2, <1>3, <1>4

\* multiples
LEMMA Multiple ==
  ASSUME NEW w \in Nat \ {0}, NEW a \in Nat
  PROVE  a * w \in Nat /\ (a * w) \div w = a /\ (a * w) % w = 0
<1>1. (a * w + 0) \div w = a /\ (a * w + 0) % w = 0
  BY QuotientUnique
<1>2. a * w + 0 = a * w /\ a * w \in Nat
  OBVIOUS
<1>. QED  BY <1>1, <1>2

LEMMA MultipleIs ==
  ASSUME NEW w \in Nat \ {0}, NEW x \in Nat, x % w = 0
  PROVE  x \div w \in Nat /\ x = (x \div w) * w
BY Quotient

\* two different multiples are w apart
LEMMA MultiplesApart ==
  ASSUME NEW w \in Nat \ {0}, NEW x \in Nat, NEW y \in Nat, x % w = 0, y % w = 0, x < y
  PROVE  x + w =< y
<1>1. PICK a \in Nat : x = a * w
  BY MultipleIs
<1>2. PICK b \in Nat : y = b * w
  BY MultipleIs
<1>3. a < b
  <2>1. b < a => b * w + w =< a * w
    BY OneMoreFits
  <2>2. a * w \in Nat /\ b * w \in Nat
    OBVIOUS
  <2>. QED  BY <1>1, <1>2, <2>1, <2>2
<1>. QED  BY <1>1, <1>2, <1>3, OneMoreFits

\* the multiple after one
LEMMA NextMultiple ==
  ASSUME NEW w \in Nat \ {0}, NEW x \in Nat, x % w = 0
  PROVE  (x + w) % w = 0 /\ (x + w) \div w = (x \div w) + 1
<1>1. PICK a \in Nat : x = a * w /\ a = x \div w
  BY MultipleIs
<1>2. x + w = (a + 1) * w /\ a + 1 \in Nat
  BY <1>1
<1>. QED  BY <1>1, <1>2, Multiple

\* quotients grow with their dividends
LEMMA QuotientsGrow ==
  ASSUME NEW w \in Nat \ {0}, NEW x \in Nat, NEW y \in Nat, x =< y
  PROVE  x \div w =< y \div w
<1>1. PICK q \in Nat, r \in 0 .. w - 1 : q = x \div w /\ x = q * w + r
  BY Quotient
<1>2. PICK u \in Nat, v \in 0 .. w - 1 : u = y \div w /\ y = u * w + v
  BY Quotient
<1>3. u < q => u * w + w =< q * w
  BY OneMoreFits
<1>4. u * w \in Nat /\ q * w \in Nat
  OBVIOUS
<1>. QED  BY <1>1, <1>2, <1>3, <1>4

\* an offset in rows of width w determines row and column
LEMMA RowMajor ==
  ASSUME NEW w \in Nat, NEW m \in Nat, NEW a \in Nat, NEW b \in Nat, a < m, b < w
  PROVE  /\ a * w + b \in Nat /\ a * w + b < m * w
         /\ (a * w + b) \div w = a /\ (a * w + b) % w = b
<1>1. a * w + w =< m * w
  BY OneMoreFits
<1>2. a * w \in Nat /\ m * w \in Nat
  OBVIOUS
<1>. QED  BY <1>1, <1>2, QuotientUnique

(***************************************************************************)
(* What is true of 0, and of k + 1 where it is of k, is true up to m.  The *)
(* property is a set, so that the lemma can be used for any.               *)
(***************************************************************************)
LEMMA Induction ==
  ASSUME NEW m \in Nat, NEW S, 0 \in S, \A k \in 0 .. m - 1 : k \in S => k + 1 \in S
  PROVE  \A k \in 0 .. m : k \in S
<1>. DEFINE Bad == { k \in 0 .. m : k \notin S }
<1>1. Bad \in SUBSET Nat /\ \A k \in Bad : k \in 0 .. m /\ k \notin S
  OBVIOUS
<1>2. \A k \in 0 .. m : k \notin S => k \in Bad
  OBVIOUS
<1>. HIDE DEF Bad
<1>3. ASSUME Bad # {} PROVE FALSE
  <2>1. \E x \in Bad : \A y \in Bad : ~ (<< y, x >> \in OpToRel(<, Nat))
    BY <1>1, <1>3, NatLessThanWellFounded, WFMin
  <2>2. \A x, y \in Nat : (<< y, x >> \in OpToRel(<, Nat)) <=> y < x
    BY DEF OpToRel
  <2>3. PICK x \in Bad : \A y \in Bad : ~ (y < x)
    BY <1>1, <2>1, <2>2
  <2>4. x \in 0 .. m /\ x \notin S /\ x # 0
    BY <1>1, <2>3
  <2>5. x - 1 \in 0 .. m - 1 /\ (x - 1) + 1 = x /\ x - 1 < x
    BY <2>4
  <2>6. x - 1 \in S
    BY <1>2, <2>3, <2>5
  <2>. QED  BY <2>4, <2>5, <2>6
<1>. QED  BY <1>2, <1>3
=============================================================================
