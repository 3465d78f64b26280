----------------------------- MODULE Induction ------------------------------
(***************************************************************************)
(* Induction over the natural numbers in the form the proofs of this       *)
(* directory can cite it: of sets, not of operators.                       *)
(***************************************************************************)
EXTENDS Integers, Sequences, TLAPS, WellFoundedInduction

(* A set of natural numbers that has an element has a least one.            *)
LEMMA LeastNumber ==
  ASSUME NEW T \in SUBSET Nat, T # {}
  PROVE  \E x \in T : \A y \in T : x <= y
<1>1. \A R, S : IsWellFoundedOn(R, S) =>
        \A U \in SUBSET S : U # {} => \E x \in U : \A y \in U : ~ (<< y, x >> \in R)
  BY WFMin
<1>2. IsWellFoundedOn(OpToRel(<, Nat), Nat)
  BY NatLessThanWellFounded
<1>3. \A a, b \in Nat : a < b => << a, b >> \in OpToRel(<, Nat)
  BY DEF OpToRel
<1>4. \E R : IsWellFoundedOn(R, Nat) /\ \A a, b \in Nat : a < b => << a, b >> \in R
  BY ONLY <1>2, <1>3, Zenon
<1>5. PICK R : IsWellFoundedOn(R, Nat) /\ \A a, b \in Nat : a < b => << a, b >> \in R
  BY ONLY <1>4
<1>6. PICK x \in T : \A y \in T : ~ (<< y, x >> \in R)
  BY <1>1, <1>5
<1>7. ASSUME NEW y \in T PROVE x <= y
  <2>1. x \in Nat /\ y \in Nat
    OBVIOUS
  <2>2. ~ (y < x)
    BY <1>6, <1>5, <2>1, Zenon
  <2> QED BY <2>1, <2>2
<1> QED BY <1>7

(* What holds of 0, and of k + 1 whenever it holds of k, holds up to m.      *)
LEMMA InductionUpTo ==
  ASSUME NEW m \in Nat, NEW T,
         0 \in T, \A k \in 0 .. (m - 1) : k \in T => k + 1 \in T
  PROVE  \A k \in 0 .. m : k \in T
<1> SUFFICES ASSUME NEW j \in 0 .. m, j \notin T PROVE FALSE
  OBVIOUS
<1> DEFINE Wrong == {k \in 0 .. m : k \notin T}
<1>1. Wrong \in SUBSET Nat /\ Wrong # {}
  OBVIOUS
<1>2. PICK x \in Wrong : \A y \in Wrong : x <= y
  BY <1>1, LeastNumber
<1>3. x \in 0 .. m /\ x \notin T
  OBVIOUS
<1>4. x # 0
  BY <1>3
<1>5. x - 1 \in 0 .. (m - 1) /\ x - 1 \notin Wrong
  BY <1>2, <1>3, <1>4
<1>6. x - 1 \in T
  BY <1>5
<1> QED BY <1>3, <1>5, <1>6

(* An element of a sequence over a set is of the set, and so it stays when   *)
(* another one is appended.                                                  *)
LEMMA ElementOf ==
  ASSUME NEW S, NEW q \in Seq(S), NEW k \in 1 .. Len(q)
  PROVE  q[k] \in S
OBVIOUS

LEMMA Appended ==
  ASSUME NEW S, NEW q \in Seq(S), NEW x \in S, NEW r, r = Append(q, x)
  PROVE  /\ r \in Seq(S) /\ Len(q) \in Nat /\ DOMAIN r = 1 .. (Len(q) + 1)
         /\ r[Len(q) + 1] = x
         /\ \A i \in 1 .. Len(q) : r[i] = q[i] /\ q[i] \in S
OBVIOUS

(* A function to numbers is defined by its first value and by each value    *)
(* from the one before.                                                     *)
LEMMA Recursion ==
  ASSUME NEW m \in Nat, NEW a \in Nat,
         NEW step \in [1 .. m -> [Nat -> Nat]]
  PROVE  \E g \in [0 .. m -> Nat] :
           g[0] = a /\ \A k \in 1 .. m : g[k] = step[k][g[k - 1]]
<1> DEFINE UpTo(j, g) == /\ g \in [0 .. j -> Nat] /\ g[0] = a
                         /\ \A k \in 1 .. j : g[k] = step[k][g[k - 1]]
           T == {j \in 0 .. m : \E g : UpTo(j, g)}
<1>1. 0 \in T
  <2>1. UpTo(0, [i \in 0 .. 0 |-> a])
    OBVIOUS
  <2>2. 0 \in 0 .. m
    OBVIOUS
  <2> HIDE DEF UpTo
  <2> QED
    BY <2>1, <2>2
<1>2. ASSUME NEW j \in 0 .. (m - 1), j \in T
      PROVE  j + 1 \in T
  <2>1. PICK g : UpTo(j, g)
    BY <1>2
  <2>2. /\ g \in [0 .. j -> Nat] /\ g[0] = a
        /\ \A k \in 1 .. j : g[k] = step[k][g[k - 1]]
    BY <2>1
  <2> HIDE DEF UpTo, T
  <2>3. /\ j \in 0 .. j /\ 0 \in 0 .. j /\ j + 1 # 0 /\ j + 1 \in 1 .. m
        /\ (j + 1) - 1 = j /\ j + 1 \in 0 .. m
        /\ \A k \in 0 .. (j + 1) : k = j + 1 \/ (k # j + 1 /\ k \in 0 .. j)
        /\ \A k \in 1 .. (j + 1) : k = j + 1 \/ (k # j + 1 /\ k \in 1 .. j)
        /\ \A k \in 1 .. (j + 1) : k - 1 \in 0 .. j /\ k - 1 # j + 1
        /\ \A k \in 1 .. (j + 1) : k \in 0 .. (j + 1) /\ k - 1 \in 0 .. (j + 1)
    <3>1. j \in Nat /\ j + 1 <= m
      BY ONLY m \in Nat, j \in 0 .. (m - 1)
    <3>2. /\ j \in 0 .. j /\ 0 \in 0 .. j /\ j + 1 # 0 /\ j + 1 \in 1 .. m
          /\ (j + 1) - 1 = j /\ j + 1 \in 0 .. m
      BY ONLY m \in Nat, <3>1
    <3>3. \A k \in 0 .. (j + 1) : k = j + 1 \/ (k # j + 1 /\ k \in 0 .. j)
      BY ONLY <3>1
    <3>4. \A k \in 1 .. (j + 1) : k = j + 1 \/ (k # j + 1 /\ k \in 1 .. j)
      BY ONLY <3>1
    <3>5. \A k \in 1 .. (j + 1) : k - 1 \in 0 .. j /\ k - 1 # j + 1
      BY ONLY <3>1
    <3>6. \A k \in 1 .. (j + 1) : k \in 0 .. (j + 1) /\ k - 1 \in 0 .. (j + 1)
      BY ONLY <3>1
    <3> QED
      BY ONLY <3>2, <3>3, <3>4, <3>5, <3>6
  <2> DEFINE last == step[j + 1][g[j]]
             h == [k \in 0 .. (j + 1) |-> IF k = j + 1 THEN last ELSE g[k]]
  <2>4. g[j] \in Nat /\ last \in Nat
    BY <2>2, <2>3
  <2> HIDE DEF last
  <2>5. h \in [0 .. (j + 1) -> Nat]
    BY <2>2, <2>3, <2>4
  <2>6. h[0] = a
    BY <2>2, <2>3
  <2>7. ASSUME NEW k \in 1 .. (j + 1) PROVE h[k] = step[k][h[k - 1]]
    <3>1. h[k - 1] = g[k - 1]
      BY <2>3
    <3>2. CASE k = j + 1
      BY <2>3, <3>1, <3>2 DEF last
    <3>3. CASE k # j + 1
      <4>1. k \in 1 .. j /\ h[k] = g[k]
        BY <2>3, <3>3
      <4> QED
        BY <2>2, <3>1, <4>1
    <3> QED
      BY <3>2, <3>3
  <2>8. UpTo(j + 1, h)
    BY <2>5, <2>6, <2>7 DEF UpTo
  <2> QED
    BY <2>3, <2>8 DEF T
<1>3. m \in T
  <2> HIDE DEF T
  <2>1. \A j \in 0 .. (m - 1) : j \in T => j + 1 \in T
    BY <1>2
  <2>2. \A j \in 0 .. m : j \in T
    BY ONLY <1>1, <2>1, m \in Nat, InductionUpTo
  <2> QED
    BY <2>2
<1> QED
  BY <1>3
=============================================================================
