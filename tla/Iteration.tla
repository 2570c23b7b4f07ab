----------------------------- MODULE Iteration -----------------------------
(***************************************************************************)
(* What proofs about loops and counters need: induction over the naturals  *)
(* stated of a set; the values a loop runs through, as a function of the   *)
(* number of rounds (a definition by recursion on 0 .. n is such a         *)
(* function once it is known that there is one); and remainders by a       *)
(* period that is not a number the prover knows.                           *)
(***************************************************************************)
EXTENDS Integers, WellFoundedInduction, TLAPS

LEMMA LessThanIsWellFounded == IsWellFoundedOn({ss \in Nat \X Nat : ss[1] < ss[2]}, Nat)
<1>1. IsWellFoundedOn(OpToRel(<, Nat), Nat)
  BY NatLessThanWellFounded
<1>2. OpToRel(<, Nat) = {ss \in Nat \X Nat : ss[1] < ss[2]}
  BY DEF OpToRel
<1> QED
  BY <1>1, <1>2

(* A set that holds 0 and, with a number, the next one holds them all.     *)
LEMMA InductionOverNat ==
    ASSUME NEW S, 0 \in S, \A n \in Nat : n \in S => n + 1 \in S
    PROVE  Nat \subseteq S
<1> DEFINE Less == {ss \in Nat \X Nat : ss[1] < ss[2]}
           Missing == Nat \ S
<1> SUFFICES ASSUME Missing # {} PROVE FALSE
  OBVIOUS
<1>1. PICK n \in Missing : \A m \in Missing : ~(<<m, n>> \in Less)
  <2>1. IsWellFoundedOn(Less, Nat)
    BY LessThanIsWellFounded
  <2> HIDE DEF Less
  <2> QED
    BY <2>1, WFMin
<1>2. n \in Nat /\ n # 0
  OBVIOUS
<1>3. n - 1 \in Nat /\ <<n - 1, n>> \in Less
  BY <1>2
<1>4. n - 1 \in S
  BY <1>1, <1>3
<1> QED
  BY <1>2, <1>3, <1>4

\* The same up to n.
LEMMA InductionTo ==
    ASSUME NEW n \in Nat, NEW S, 0 \in S, \A i \in 1 .. n : i - 1 \in S => i \in S
    PROVE  \A i \in 0 .. n : i \in S
<1> DEFINE R == {m \in Nat : m <= n => m \in S}
<1>1. 0 \in R
  OBVIOUS
<1>2. ASSUME NEW m \in Nat, m \in R PROVE m + 1 \in R
  <2> SUFFICES ASSUME m + 1 <= n PROVE m + 1 \in S
    OBVIOUS
  <2>1. m + 1 \in 1 .. n /\ (m + 1) - 1 = m /\ m \in S
    BY <1>2
  <2> QED BY <2>1
<1> HIDE DEF R
<1>3. Nat \subseteq R
  BY <1>1, <1>2, InductionOverNat
<1> QED BY <1>3 DEF R

\* What every round of a loop keeps.
LEMMA LoopKeeps ==
    ASSUME NEW n \in Nat, NEW T, NEW f, f[0] \in T,
           \A i \in 1 .. n : f[i - 1] \in T => f[i] \in T
    PROVE  \A i \in 0 .. n : f[i] \in T
<1> DEFINE S == {i \in 0 .. n : f[i] \in T}
<1>1. 0 \in S
  OBVIOUS
<1>2. \A i \in 1 .. n : i - 1 \in S => i \in S
  OBVIOUS
<1> HIDE DEF S
<1>3. \A i \in 0 .. n : i \in S
  BY <1>1, <1>2, InductionTo
<1> QED BY <1>3 DEF S

\* f holds what `rounds` rounds make of `first`, the i-th being round[i][.].
Iterates(f, first, round, n) ==
    /\ f[0] = first
    /\ \A i \in 1 .. n : f[i] = round[i][f[i - 1]]

(* There is such a function if every round has a result.                   *)
LEMMA IterationExists ==
    ASSUME NEW T, NEW first \in T, NEW n \in Nat, NEW round \in [1 .. n -> [T -> T]]
    PROVE  \E f \in [0 .. n -> T] : Iterates(f, first, round, n)
<1> DEFINE S == {m \in Nat : m <= n => \E f \in [0 .. m -> T] : Iterates(f, first, round, m)}
<1>1. 0 \in S
  <2> DEFINE f == [i \in 0 .. 0 |-> first]
  <2>1. f \in [0 .. 0 -> T] /\ f[0] = first
    OBVIOUS
  <2> HIDE DEF f
  <2>2. Iterates(f, first, round, 0)
    BY <2>1 DEF Iterates
  <2> QED BY <2>1, <2>2
<1>2. ASSUME NEW m \in Nat, m \in S PROVE m + 1 \in S
  <2> SUFFICES ASSUME m + 1 <= n
               PROVE  \E f \in [0 .. m + 1 -> T] : Iterates(f, first, round, m + 1)
    OBVIOUS
  <2>1. PICK f \in [0 .. m -> T] : Iterates(f, first, round, m)
    BY <1>2
  <2> DEFINE last == round[m + 1][f[m]]
             g == [i \in 0 .. m + 1 |-> IF i = m + 1 THEN last ELSE f[i]]
  <2>2. last \in T
    <3>1. f[m] \in T /\ round[m + 1] \in [T -> T]
      BY <2>1
    <3> QED BY <3>1
  <2>3. g \in [0 .. m + 1 -> T] /\ g[m + 1] = last /\ \A i \in 0 .. m : g[i] = f[i]
    <3> HIDE DEF last
    <3> QED BY <2>1, <2>2
  <2> HIDE DEF g
  <2>4. g[0] = first
    BY <2>1, <2>3 DEF Iterates
  <2>5. ASSUME NEW i \in 1 .. m + 1 PROVE g[i] = round[i][g[i - 1]]
    <3>1. CASE i = m + 1
      BY <2>3, <3>1
    <3>2. CASE i \in 1 .. m
      BY <2>1, <2>3, <3>2 DEF Iterates
    <3> QED BY <3>1, <3>2
  <2> QED BY <2>3, <2>4, <2>5 DEF Iterates
<1> HIDE DEF S
<1>3. Nat \subseteq S
  BY <1>1, <1>2, InductionOverNat
<1> QED BY <1>3 DEF S

\* The same in the form of a definition.
LEMMA LoopExists ==
    ASSUME NEW T, NEW first \in T, NEW n \in Nat, NEW round \in [1 .. n -> [T -> T]]
    PROVE  \E f \in [0 .. n -> T] :
              f = [i \in 0 .. n |-> IF i = 0 THEN first ELSE round[i][f[i - 1]]]
<1>1. PICK f \in [0 .. n -> T] : Iterates(f, first, round, n)
  BY IterationExists
<1>2. ASSUME NEW i \in 0 .. n
      PROVE  f[i] = IF i = 0 THEN first ELSE round[i][f[i - 1]]
  BY <1>1 DEF Iterates
<1>3. f = [i \in 0 .. n |-> IF i = 0 THEN first ELSE round[i][f[i - 1]]]
  BY <1>2
<1> QED BY <1>3

-----------------------------------------------------------------------------
(* Remainders by any period: what follows a number's is the next one, or   *)
(* zero, and a period that divides another sees through it.                *)
LEMMA ModDef == ASSUME NEW a \in Nat, NEW p \in Nat \ {0}
  PROVE /\ a = p * (a \div p) + (a % p) /\ a \div p \in Nat /\ a % p \in 0..(p-1)
<1>1. a = p * (a \div p) + (a % p)
  BY Z3
<1>2. a \div p \in Nat
  BY Z3
<1>3. a % p \in 0..(p-1)
  BY Z3
<1> QED BY <1>1, <1>2, <1>3

LEMMA MoreTimes ==
    ASSUME NEW p \in Nat, NEW q \in Nat, NEW k \in Nat, k > q
    PROVE  p * k >= p * q + p
<1>1. PICK d \in Nat : k = q + 1 + d
  <2>1. k - q - 1 \in Nat /\ k = q + 1 + (k - q - 1)
    OBVIOUS
  <2> QED BY <2>1
<1>2. p * k = p * q + p + p * d
  BY <1>1, Z3
<1>3. p * d >= 0 /\ p * d \in Nat /\ p * q \in Nat
  BY Z3
<1> QED BY <1>2, <1>3

LEMMA ModUnique ==
    ASSUME NEW p \in Nat \ {0}, NEW q \in Nat, NEW r \in 0..(p-1)
    PROVE  (p * q + r) % p = r
<1> DEFINE a == p * q + r
           k == a \div p
           s == a % p
<1>1. p * q \in Nat /\ a \in Nat
  BY Z3
<1>2. a = p * k + s /\ k \in Nat /\ s \in 0..(p-1)
  BY <1>1, ModDef
<1>3. p * k \in Nat
  BY <1>2, Z3
<1>5. p * q + r = p * k + s
  BY <1>2
<1> HIDE DEF s, k, a
<1>4. k = q
  <2>1. CASE k > q
    <3>1. p * k >= p * q + p
      BY <1>2, <2>1, MoreTimes
    <3> HIDE DEF a, k, s
    <3> QED BY <1>1, <1>2, <1>3, <1>5, <3>1
  <2>2. CASE q > k
    <3>1. p * q >= p * k + p
      BY <1>2, <2>2, MoreTimes
    <3> QED BY <1>1, <1>2, <1>3, <1>5, <3>1
  <2> QED BY <1>2, <2>1, <2>2
<1>6. s = r
  BY <1>1, <1>2, <1>3, <1>4, <1>5
<1> QED BY <1>6 DEF s, a

LEMMA ModNext ==
    ASSUME NEW a \in Nat, NEW p \in Nat \ {0}
    PROVE  (a + 1) % p = IF (a % p) + 1 = p THEN 0 ELSE (a % p) + 1
<1> DEFINE k == a \div p
           s == a % p
<1>1. a = p * k + s /\ k \in Nat /\ s \in 0..(p-1)
  BY ModDef
<1>2. p * k \in Nat /\ p * (k + 1) = p * k + p /\ k + 1 \in Nat
  BY <1>1, Z3
<1> HIDE DEF k, s
<1>3. CASE s + 1 = p
  <2>1. a + 1 = p * (k + 1) + 0 /\ 0 \in 0..(p-1)
    BY <1>1, <1>2, <1>3
  <2>2. (p * (k + 1) + 0) % p = 0
    BY <1>2, <2>1, ModUnique
  <2> QED BY <1>3, <2>1, <2>2 DEF s
<1>4. CASE s + 1 # p
  <2>1. a + 1 = p * k + (s + 1) /\ s + 1 \in 0..(p-1)
    BY <1>1, <1>2, <1>4
  <2>2. (p * k + (s + 1)) % p = s + 1
    BY <1>1, <2>1, ModUnique
  <2> QED BY <1>4, <2>1, <2>2 DEF s
<1> QED BY <1>3, <1>4

LEMMA ModPlus ==
    ASSUME NEW a \in Nat, NEW p \in Nat \ {0}, NEW i \in Nat, i < p - (a % p)
    PROVE  (a + i) % p = (a % p) + i
<1> DEFINE k == a \div p
           s == a % p
<1>1. a = p * k + s /\ k \in Nat /\ s \in 0..(p-1)
  BY ModDef
<1> HIDE DEF k, s
<1>2. p * k \in Nat
  BY <1>1, Z3
<1>3. s + i \in 0..(p-1)
  BY <1>1 DEF s
<1>4. a + i = p * k + (s + i)
  BY <1>1, <1>2
<1>5. (p * k + (s + i)) % p = s + i
  BY <1>1, <1>3, ModUnique
<1> QED BY <1>4, <1>5 DEF s

LEMMA ModOfMod ==
    ASSUME NEW a \in Nat, NEW p \in Nat \ {0}, NEW n \in Nat \ {0}, n % p = 0
    PROVE  (a % n) % p = a % p
<1> DEFINE q == a \div n
           r == a % n
           k == n \div p
           l == r \div p
           s == r % p
<1>1. a = n * q + r /\ q \in Nat /\ r \in Nat
  BY ModDef
<1>2. n = p * k /\ k \in Nat
  <2>1. n = p * k + (n % p) /\ k \in Nat
    BY ModDef
  <2>2. p * k \in Nat
    BY <2>1, Z3
  <2> HIDE DEF k
  <2> QED BY <2>1, <2>2
<1>3. r = p * l + s /\ l \in Nat /\ s \in 0..(p-1)
  BY <1>1, ModDef
<1> HIDE DEF q, r, k, l
<1>4. p * (k * q + l) = p * k * q + p * l /\ k * q \in Nat /\ p * k * q \in Nat
      /\ p * l \in Nat /\ k * q + l \in Nat
  BY <1>1, <1>2, <1>3, Z3
<1> HIDE DEF s
<1>5. a = p * k * q + (p * l + s)
  BY <1>1, <1>2, <1>3
<1>6. a = p * (k * q + l) + s
  BY <1>3, <1>4, <1>5
<1>7. (p * (k * q + l) + s) % p = s
  BY <1>3, <1>4, ModUnique
<1> QED BY <1>6, <1>7 DEF s, r
=============================================================================
