----------------------- MODULE ArrayDiscipline_proofs -----------------------
(***************************************************************************)
(* A well-formed image whose views agree with its instructions (see        *)
(* Verifier) keeps the discipline of the array stack and of the argument   *)
(* stack: for every image, all views, every size of the stacks and every   *)
(* width of the integers.                                                  *)
(*                                                                         *)
(* The inductive invariant is AInv.  It says of the frames f = 0 .. framese *)
(* what kinds of values V[f] they hold, where on the array stack each one  *)
(* ends and where its vectors have to end; that is stated over functions   *)
(* on the frames, so that the lemmas about a step that remains in its      *)
(* frame need not speak of the machine.                                    *)
(***************************************************************************)
EXTENDS StackDiscipline_proofs

CONSTANT views

-----------------------------------------------------------------------------
(* What frames hold.  V[f] are the values of frame f, K[f] their kinds,     *)
(* A[f] is where it ends on the array stack, R[f] where its vectors end at  *)
(* the latest: between the two are cells that belong to no vector yet.      *)

KindHeld(v, kind) ==
  /\ IsScalar(kind) => v.t # "vec"
  /\ kind >= 0 => v.i = kind
  /\ kind \in {Temp, Copied, Moved} => v.t = "vec"

(* A vector of the lower part of the array stack.                           *)
Lower(v, kind) == v.t = "vec" /\ kind # Copied

VecIn(v, low, high) == 0 <= v.n /\ low <= v.i /\ v.i + v.n <= high

(* The places whose kind is known: the last one of a frame that waits for   *)
(* its callee still holds the function that was called.                     *)
Known(f, m, K) == 1 .. (IF f = m THEN Len(K[f]) ELSE Len(K[f]) - 1)

FramesType(m, V, K, A, R) ==
  /\ m \in Nat
  /\ V \in [0 .. m -> Seq(Value)] /\ K \in [0 .. m -> Seq(Int)]
  /\ A \in [0 .. m -> Int] /\ R \in [0 .. m -> Int]
  /\ \A f \in 0 .. m : Len(V[f]) = Len(K[f])
  /\ \A f \in 0 .. m - 1 : Len(K[f]) > 0

KindsIn(m, V, K) ==
  /\ \A f \in 0 .. m : \A k \in Known(f, m, K) : KindHeld(V[f][k], K[f][k])
  /\ \A f \in 0 .. m - 1 : V[f][Len(K[f])].t # "vec"

(* The vectors of the frames up to l end in the room of their frame, which  *)
(* lies above all that the frames below have.                               *)
RoomsIn(l, A, R) ==
  \A f \in 0 .. l : /\ 0 <= R[f] /\ R[f] <= A[f]
                    /\ \A g \in 0 .. f - 1 : A[g] <= R[f]

VectorsIn(l, V, K, R) ==
  \A f \in 0 .. l : \A k \in 1 .. Len(K[f]) :
    Lower(V[f][k], K[f][k]) => VecIn(V[f][k], 0, R[f])

(* A temporary begins above what came before it.                            *)
TempsIn(l, m, V, K, A) ==
  \A f \in 0 .. l : \A k \in Known(f, m, K) : K[f][k] = Temp =>
    /\ \A g \in 0 .. f - 1 : A[g] <= V[f][k].i
    /\ \A j \in 1 .. k - 1 : Lower(V[f][j], K[f][j]) =>
         V[f][j].i + V[f][j].n <= V[f][k].i

CopiesIn(m, V, K, low) ==
  \A f \in 0 .. m : \A k \in Known(f, m, K) :
    K[f][k] = Copied => VecIn(V[f][k], low, StackMax)

-----------------------------------------------------------------------------
(* A step that remains in its frame.  The frames below stay as they are,    *)
(* but for a scalar that may be assigned; of the current one the first n    *)
(* values remain, in the same sense, and at most one of kind q is pushed.   *)

Kept(v, w, kind) == w = v \/ (w.t # "vec" /\ kind = ScalarKind)

LowerKept(m, V, K, A, R, W, L, B, S) ==
  \A f \in 0 .. m - 1 :
    /\ L[f] = K[f] /\ B[f] = A[f] /\ S[f] = R[f]
    /\ \A k \in 1 .. Len(K[f]) : Kept(V[f][k], W[f][k], K[f][k])

Remains(m, n, V, K, W, L) ==
  /\ n \in Nat /\ n <= Len(K[m]) /\ Len(L[m]) \in {n, n + 1}
  /\ \A k \in 1 .. n :
       \/ W[m][k] = V[m][k] /\ KindFits(K[m][k], L[m][k])
       \/ W[m][k].t # "vec" /\ KindFits(ScalarKind, L[m][k])

(* What remains ends before s, which is above the frames below.             *)
RoomLeft(m, n, V, K, A, s) ==
  /\ 0 <= s /\ \A g \in 0 .. m - 1 : A[g] <= s
  /\ \A k \in 1 .. n : Lower(V[m][k], K[m][k]) => V[m][k].i + V[m][k].n <= s

(* A value v of kind q is pushed on the first n.                            *)
Pushable(m, n, V, K, A, s, v, q) ==
  /\ v \in Value /\ KindHeld(v, q) /\ q # Moved
  /\ Lower(v, q) => VecIn(v, 0, s)
  /\ q = Temp =>
       /\ \A g \in 0 .. m - 1 : A[g] <= v.i
       /\ \A k \in 1 .. n :
            Lower(V[m][k], K[m][k]) => V[m][k].i + V[m][k].n <= v.i

Pushed(m, n, W, L, v, q) ==
  Len(L[m]) = n + 1 => W[m][n + 1] = v /\ KindFits(q, L[m][n + 1])

(* A kind that another one is taken for.                                    *)
LEMMA FittingKinds ==
  ASSUME NEW a \in Int, NEW b \in Int, KindFits(a, b)
  PROVE  /\ b = Temp => a = Temp
         /\ b = Copied <=> a = Copied
         /\ b = Moved <=> a = Moved
         /\ IsScalar(b) => IsScalar(a)
         /\ b >= 0 => a = b
         /\ \A v : KindHeld(v, a) => KindHeld(v, b)
  BY DEF KindFits, KindHeld, IsScalar, AnyKind, ScalarKind, Temp, Copied, Moved

LEMMA ScalarFits ==
  ASSUME NEW b \in Int, KindFits(ScalarKind, b)
  PROVE  /\ b \in {ScalarKind, AnyKind}
         /\ \A v : v.t # "vec" => KindHeld(v, b)
  BY DEF KindFits, KindHeld, IsScalar, AnyKind, ScalarKind, Temp, Copied, Moved

(* What remains of a frame, and what is new in it.                          *)
LEMMA RemainingFacts ==
  ASSUME NEW m, NEW n, NEW V, NEW K, NEW A, NEW R, NEW W, NEW L, NEW B, NEW S,
         FramesType(m, V, K, A, R), FramesType(m, W, L, B, S),
         LowerKept(m, V, K, A, R, W, L, B, S), Remains(m, n, V, K, W, L)
  PROVE  /\ m \in Nat /\ n \in Nat /\ Len(K[m]) \in Nat /\ n <= Len(K[m])
         /\ Len(L[m]) = n \/ Len(L[m]) = n + 1
         /\ \A f \in 0 .. m : /\ A[f] \in Int /\ R[f] \in Int
                              /\ B[f] \in Int /\ S[f] \in Int
                              /\ Len(K[f]) \in Nat /\ Len(L[f]) \in Nat
         /\ \A f \in 0 .. m : \A k \in 1 .. Len(K[f]) :
              /\ V[f][k] \in Value /\ V[f][k].i \in Int /\ V[f][k].n \in Int
              /\ K[f][k] \in Int
         /\ \A f \in 0 .. m : \A k \in 1 .. Len(L[f]) :
              /\ W[f][k] \in Value /\ W[f][k].i \in Int /\ W[f][k].n \in Int
              /\ L[f][k] \in Int
<1>1. /\ m \in Nat /\ n \in Nat /\ m \in 0 .. m
      /\ V \in [0 .. m -> Seq(Value)] /\ K \in [0 .. m -> Seq(Int)]
      /\ W \in [0 .. m -> Seq(Value)] /\ L \in [0 .. m -> Seq(Int)]
      /\ A \in [0 .. m -> Int] /\ R \in [0 .. m -> Int]
      /\ B \in [0 .. m -> Int] /\ S \in [0 .. m -> Int]
      /\ \A f \in 0 .. m : Len(V[f]) = Len(K[f])
      /\ \A f \in 0 .. m : Len(W[f]) = Len(L[f])
  <2>1. n \in Nat
    BY DEF Remains
  <2>2. m \in Nat
    BY DEF FramesType
  <2>3. /\ V \in [0 .. m -> Seq(Value)] /\ K \in [0 .. m -> Seq(Int)]
        /\ A \in [0 .. m -> Int] /\ R \in [0 .. m -> Int]
        /\ \A f \in 0 .. m : Len(V[f]) = Len(K[f])
    BY Zenon DEF FramesType
  <2>4. /\ W \in [0 .. m -> Seq(Value)] /\ L \in [0 .. m -> Seq(Int)]
        /\ B \in [0 .. m -> Int] /\ S \in [0 .. m -> Int]
        /\ \A f \in 0 .. m : Len(W[f]) = Len(L[f])
    BY Zenon DEF FramesType
  <2>5. m \in 0 .. m
    BY ONLY <2>2
  <2> QED
    BY ONLY <2>1, <2>2, <2>3, <2>4, <2>5
<1>2. /\ n <= Len(K[m]) /\ Len(K[m]) \in Nat
      /\ Len(L[m]) = n \/ Len(L[m]) = n + 1
  <2>1. n <= Len(K[m]) /\ Len(L[m]) \in {n, n + 1}
    BY DEF Remains
  <2>2. K[m] \in Seq(Int)
    BY <1>1
  <2> QED
    BY ONLY <2>1, <2>2
<1>3. \A f \in 0 .. m : /\ A[f] \in Int /\ R[f] \in Int
                        /\ B[f] \in Int /\ S[f] \in Int
                        /\ Len(K[f]) \in Nat /\ Len(L[f]) \in Nat
  <2> SUFFICES ASSUME NEW f \in 0 .. m
               PROVE  /\ A[f] \in Int /\ R[f] \in Int
                      /\ B[f] \in Int /\ S[f] \in Int
                      /\ Len(K[f]) \in Nat /\ Len(L[f]) \in Nat
    OBVIOUS
  <2>1. A[f] \in Int /\ R[f] \in Int /\ B[f] \in Int /\ S[f] \in Int
    BY ONLY <1>1, f \in 0 .. m
  <2>2. K[f] \in Seq(Int) /\ L[f] \in Seq(Int)
    BY ONLY <1>1, f \in 0 .. m
  <2> QED
    BY ONLY <2>1, <2>2
<1>4. \A f \in 0 .. m : \A k \in 1 .. Len(K[f]) :
        /\ V[f][k] \in Value /\ V[f][k].i \in Int /\ V[f][k].n \in Int
        /\ K[f][k] \in Int
  <2> SUFFICES ASSUME NEW f \in 0 .. m, NEW k \in 1 .. Len(K[f])
               PROVE  /\ V[f][k] \in Value /\ V[f][k].i \in Int
                      /\ V[f][k].n \in Int /\ K[f][k] \in Int
    OBVIOUS
  <2>1. V[f] \in Seq(Value) /\ K[f] \in Seq(Int) /\ k \in 1 .. Len(V[f])
    BY ONLY <1>1, f \in 0 .. m, k \in 1 .. Len(K[f])
  <2>2. V[f][k] \in Value /\ K[f][k] \in Int
    BY ONLY <2>1, k \in 1 .. Len(K[f]), ElementOf
  <2> QED
    BY ONLY <2>2, ValueFields
<1>5. \A f \in 0 .. m : \A k \in 1 .. Len(L[f]) :
        /\ W[f][k] \in Value /\ W[f][k].i \in Int /\ W[f][k].n \in Int
        /\ L[f][k] \in Int
  <2> SUFFICES ASSUME NEW f \in 0 .. m, NEW k \in 1 .. Len(L[f])
               PROVE  /\ W[f][k] \in Value /\ W[f][k].i \in Int
                      /\ W[f][k].n \in Int /\ L[f][k] \in Int
    OBVIOUS
  <2>1. W[f] \in Seq(Value) /\ L[f] \in Seq(Int) /\ k \in 1 .. Len(W[f])
    BY ONLY <1>1, f \in 0 .. m, k \in 1 .. Len(L[f])
  <2>2. W[f][k] \in Value /\ L[f][k] \in Int
    BY ONLY <2>1, k \in 1 .. Len(L[f]), ElementOf
  <2> QED
    BY ONLY <2>2, ValueFields
<1> QED
  BY ONLY <1>1, <1>2, <1>3, <1>4, <1>5

(* The step as the next lemmas see it.                                      *)
StaysInFrame(m, n, V, K, A, R, W, L, B, S, s, v, q) ==
  /\ FramesType(m, V, K, A, R) /\ FramesType(m, W, L, B, S)
  /\ KindsIn(m, V, K) /\ RoomsIn(m, A, R) /\ VectorsIn(m, V, K, R)
  /\ TempsIn(m, m, V, K, A)
  /\ LowerKept(m, V, K, A, R, W, L, B, S)
  /\ Remains(m, n, V, K, W, L) /\ Pushed(m, n, W, L, v, q)
  /\ s \in Int /\ s <= S[m] /\ S[m] <= B[m]
  /\ RoomLeft(m, n, V, K, A, s)
  /\ q \in Int /\ Pushable(m, n, V, K, A, s, v, q)

LEMMA StaysFacts ==
  ASSUME NEW m, NEW n, NEW V, NEW K, NEW A, NEW R, NEW W, NEW L, NEW B, NEW S,
         NEW s, NEW v, NEW q,
         StaysInFrame(m, n, V, K, A, R, W, L, B, S, s, v, q)
  PROVE  /\ m \in Nat /\ n \in Nat /\ Len(K[m]) \in Nat /\ n <= Len(K[m])
         /\ Len(L[m]) = n \/ Len(L[m]) = n + 1
         /\ \A f \in 0 .. m : /\ A[f] \in Int /\ R[f] \in Int
                              /\ B[f] \in Int /\ S[f] \in Int
                              /\ Len(K[f]) \in Nat /\ Len(L[f]) \in Nat
         /\ \A f \in 0 .. m : \A k \in 1 .. Len(K[f]) :
              /\ V[f][k] \in Value /\ V[f][k].i \in Int /\ V[f][k].n \in Int
              /\ K[f][k] \in Int
         /\ \A f \in 0 .. m : \A k \in 1 .. Len(L[f]) :
              /\ W[f][k] \in Value /\ W[f][k].i \in Int /\ W[f][k].n \in Int
              /\ L[f][k] \in Int
         /\ s \in Int /\ s <= S[m] /\ S[m] <= B[m] /\ q \in Int
         /\ v \in Value /\ v.i \in Int /\ v.n \in Int
<1>1. /\ FramesType(m, V, K, A, R) /\ FramesType(m, W, L, B, S)
      /\ LowerKept(m, V, K, A, R, W, L, B, S) /\ Remains(m, n, V, K, W, L)
      /\ s \in Int /\ s <= S[m] /\ S[m] <= B[m] /\ q \in Int
      /\ v \in Value
  BY DEF StaysInFrame, Pushable
<1>2. v.i \in Int /\ v.n \in Int
  BY ONLY <1>1, ValueFields
<1> QED
  BY ONLY <1>1, <1>2, RemainingFacts

(* The kinds of values are kept.                                            *)
LEMMA StaysKinds ==
  ASSUME NEW m, NEW n, NEW V, NEW K, NEW A, NEW R, NEW W, NEW L, NEW B, NEW S,
         NEW s, NEW v, NEW q,
         StaysInFrame(m, n, V, K, A, R, W, L, B, S, s, v, q)
  PROVE  KindsIn(m, W, L)
<1>1. ASSUME NEW f \in 0 .. m - 1
      PROVE  /\ f \in 0 .. m /\ f # m /\ L[f] = K[f] /\ Len(K[f]) \in Nat
             /\ \A k \in 1 .. Len(K[f]) : Kept(V[f][k], W[f][k], K[f][k])
             /\ Len(K[f]) > 0
             /\ \A k \in Known(f, m, K) : KindHeld(V[f][k], K[f][k])
             /\ V[f][Len(K[f])].t # "vec"
  <2>1. f \in 0 .. m /\ f # m /\ Len(K[f]) \in Nat
    BY ONLY StaysFacts, f \in 0 .. m - 1,
            StaysInFrame(m, n, V, K, A, R, W, L, B, S, s, v, q)
  <2>2. L[f] = K[f] /\ \A k \in 1 .. Len(K[f]) : Kept(V[f][k], W[f][k], K[f][k])
    BY DEF StaysInFrame, LowerKept
  <2>3. Len(K[f]) > 0
    BY DEF StaysInFrame, FramesType
  <2>4. V[f][Len(K[f])].t # "vec"
    BY DEF StaysInFrame, KindsIn
  <2>5. \A k \in Known(f, m, K) : KindHeld(V[f][k], K[f][k])
    BY <2>1 DEF StaysInFrame, KindsIn
  <2> QED
    BY ONLY <2>1, <2>2, <2>3, <2>4, <2>5
<1>2. ASSUME NEW f \in 0 .. m - 1, NEW k \in Known(f, m, L)
      PROVE  KindHeld(W[f][k], L[f][k])
  <2>1. k \in Known(f, m, K) /\ k \in 1 .. Len(K[f])
    BY ONLY <1>1, f \in 0 .. m - 1, k \in Known(f, m, L) DEF Known
  <2>2. KindHeld(V[f][k], K[f][k]) /\ Kept(V[f][k], W[f][k], K[f][k]) /\ L[f] = K[f]
    BY ONLY <1>1, <2>1, f \in 0 .. m - 1
  <2>3. CASE W[f][k] = V[f][k]
    BY ONLY <2>2, <2>3
  <2>4. CASE W[f][k].t # "vec" /\ K[f][k] = ScalarKind
    BY ONLY <2>2, <2>4 DEF KindHeld, IsScalar, ScalarKind, Temp, Copied, Moved
  <2> QED
    BY ONLY <2>2, <2>3, <2>4 DEF Kept
<1>3. ASSUME NEW f \in 0 .. m - 1
      PROVE  W[f][Len(L[f])].t # "vec"
  <2>1. /\ Kept(V[f][Len(K[f])], W[f][Len(K[f])], K[f][Len(K[f])]) /\ L[f] = K[f]
        /\ V[f][Len(K[f])].t # "vec"
    BY ONLY <1>1, f \in 0 .. m - 1
  <2> QED
    BY ONLY <2>1 DEF Kept
<1>4. ASSUME NEW k \in 1 .. Len(L[m])
      PROVE  KindHeld(W[m][k], L[m][k])
  <2>1. /\ m \in Nat /\ n \in Nat /\ Len(K[m]) \in Nat /\ n <= Len(K[m])
        /\ Len(L[m]) = n \/ Len(L[m]) = n + 1
        /\ L[m][k] \in Int /\ m \in 0 .. m
    <3>1. m \in Nat
      BY StaysFacts
    <3>2. m \in 0 .. m
      BY ONLY <3>1
    <3> QED
      BY ONLY <3>1, <3>2, StaysFacts, k \in 1 .. Len(L[m]),
              StaysInFrame(m, n, V, K, A, R, W, L, B, S, s, v, q)
  <2>2. CASE k <= n
    <3>1. k \in 1 .. n /\ k \in 1 .. Len(K[m]) /\ k \in Known(m, m, K)
      BY ONLY <2>1, <2>2, k \in 1 .. Len(L[m]) DEF Known
    <3>2. K[m][k] \in Int
      BY ONLY <2>1, <3>1, StaysFacts,
              StaysInFrame(m, n, V, K, A, R, W, L, B, S, s, v, q)
    <3>3. \/ W[m][k] = V[m][k] /\ KindFits(K[m][k], L[m][k])
          \/ W[m][k].t # "vec" /\ KindFits(ScalarKind, L[m][k])
      BY <3>1 DEF StaysInFrame, Remains
    <3>4. KindHeld(V[m][k], K[m][k])
      BY <2>1, <3>1 DEF StaysInFrame, KindsIn
    <3> QED
      BY ONLY <2>1, <3>2, <3>3, <3>4, FittingKinds, ScalarFits
  <2>3. CASE k > n
    <3>1. k = n + 1 /\ Len(L[m]) = n + 1
      BY ONLY <2>1, <2>3, k \in 1 .. Len(L[m])
    <3>2. W[m][k] = v /\ KindFits(q, L[m][k])
      BY <3>1 DEF StaysInFrame, Pushed
    <3>3. KindHeld(v, q) /\ q \in Int
      BY DEF StaysInFrame, Pushable
    <3> QED
      BY ONLY <2>1, <3>2, <3>3, FittingKinds
  <2> QED
    BY ONLY <2>1, <2>2, <2>3, k \in 1 .. Len(L[m])
<1>5. ASSUME NEW f \in 0 .. m, NEW k \in Known(f, m, L)
      PROVE  KindHeld(W[f][k], L[f][k])
  <2>1. m \in Nat
    BY StaysFacts
  <2>2. CASE f = m
    BY ONLY <1>4, <2>2, k \in Known(f, m, L) DEF Known
  <2>3. CASE f # m
    <3>1. f \in 0 .. m - 1
      BY ONLY <2>1, <2>3, f \in 0 .. m
    <3> QED
      BY ONLY <1>2, <3>1, k \in Known(f, m, L)
  <2> QED
    BY ONLY <2>2, <2>3
<1> QED
  BY ONLY <1>3, <1>5 DEF KindsIn

(* A frame below the current one is as it was.                              *)
LEMMA StaysBelow ==
  ASSUME NEW m, NEW n, NEW V, NEW K, NEW A, NEW R, NEW W, NEW L, NEW B, NEW S,
         NEW s, NEW v, NEW q,
         StaysInFrame(m, n, V, K, A, R, W, L, B, S, s, v, q),
         NEW f \in 0 .. m, f # m
  PROVE  /\ f \in 0 .. m - 1
         /\ L[f] = K[f] /\ B[f] = A[f] /\ S[f] = R[f]
         /\ \A k \in 1 .. Len(K[f]) : Kept(V[f][k], W[f][k], K[f][k])
         /\ \A g \in 0 .. f : g \in 0 .. m /\ B[g] = A[g]
         /\ Known(f, m, L) = Known(f, m, K)
         /\ \A k \in Known(f, m, K) : k \in 1 .. Len(K[f])
<1>1. m \in Nat /\ Len(K[f]) \in Nat
  BY ONLY StaysFacts, f \in 0 .. m,
          StaysInFrame(m, n, V, K, A, R, W, L, B, S, s, v, q)
<1>2. f \in 0 .. m - 1 /\ \A g \in 0 .. f : g \in 0 .. m /\ g \in 0 .. m - 1
  BY ONLY <1>1, f \in 0 .. m, f # m
<1>3. /\ L[f] = K[f] /\ B[f] = A[f] /\ S[f] = R[f]
      /\ \A k \in 1 .. Len(K[f]) : Kept(V[f][k], W[f][k], K[f][k])
  BY <1>2 DEF StaysInFrame, LowerKept
<1>4. \A g \in 0 .. f : B[g] = A[g]
  BY <1>2 DEF StaysInFrame, LowerKept
<1>5. /\ Known(f, m, L) = Known(f, m, K)
      /\ \A k \in Known(f, m, K) : k \in 1 .. Len(K[f])
  BY ONLY <1>1, <1>3, f # m DEF Known
<1> QED
  BY ONLY <1>2, <1>3, <1>4, <1>5

LEMMA StaysRooms ==
  ASSUME NEW m, NEW n, NEW V, NEW K, NEW A, NEW R, NEW W, NEW L, NEW B, NEW S,
         NEW s, NEW v, NEW q,
         StaysInFrame(m, n, V, K, A, R, W, L, B, S, s, v, q)
  PROVE  RoomsIn(m, B, S)
<1> SUFFICES ASSUME NEW f \in 0 .. m
             PROVE  /\ 0 <= S[f] /\ S[f] <= B[f]
                    /\ \A g \in 0 .. f - 1 : B[g] <= S[f]
  BY DEF RoomsIn
<1>1. /\ \A g \in 0 .. m : A[g] \in Int /\ B[g] \in Int /\ S[g] \in Int
      /\ m \in Nat /\ s \in Int /\ s <= S[m] /\ S[m] <= B[m]
  BY ONLY StaysFacts, StaysInFrame(m, n, V, K, A, R, W, L, B, S, s, v, q)
<1>2. CASE f # m
  <2>1. /\ 0 <= R[f] /\ R[f] <= A[f]
        /\ \A g \in 0 .. f - 1 : A[g] <= R[f]
    BY DEF StaysInFrame, RoomsIn
  <2>2. /\ B[f] = A[f] /\ S[f] = R[f]
        /\ \A g \in 0 .. f : B[g] = A[g]
    BY ONLY <1>2, StaysBelow, f \in 0 .. m,
            StaysInFrame(m, n, V, K, A, R, W, L, B, S, s, v, q)
  <2>3. \A g \in 0 .. f - 1 : g \in 0 .. f
    OBVIOUS
  <2> QED
    BY ONLY <2>1, <2>2, <2>3
<1>3. CASE f = m
  <2>1. 0 <= s /\ \A g \in 0 .. m - 1 : A[g] <= s
    BY DEF StaysInFrame, RoomLeft
  <2>2. \A g \in 0 .. m - 1 : B[g] = A[g]
    BY DEF StaysInFrame, LowerKept
  <2>3. \A g \in 0 .. m - 1 : g \in 0 .. m
    BY ONLY <1>1
  <2>4. m \in 0 .. m
    BY ONLY <1>1
  <2> QED
    BY ONLY <1>1, <1>3, <2>1, <2>2, <2>3, <2>4
<1> QED
  BY ONLY <1>2, <1>3

(* A vector that remains, where it was, ends where it did.                  *)
LEMMA StaysLower ==
  ASSUME NEW m, NEW n, NEW V, NEW K, NEW A, NEW R, NEW W, NEW L, NEW B, NEW S,
         NEW s, NEW v, NEW q,
         StaysInFrame(m, n, V, K, A, R, W, L, B, S, s, v, q),
         NEW k \in 1 .. Len(L[m]), Lower(W[m][k], L[m][k])
  PROVE  \/ /\ k \in 1 .. n /\ k \in 1 .. Len(K[m]) /\ W[m][k] = V[m][k]
            /\ Lower(V[m][k], K[m][k]) /\ KindFits(K[m][k], L[m][k])
         \/ /\ k = n + 1 /\ W[m][k] = v /\ Lower(v, q) /\ KindFits(q, L[m][k])
<1>1. /\ m \in Nat /\ n \in Nat /\ Len(K[m]) \in Nat /\ n <= Len(K[m])
      /\ Len(L[m]) = n \/ Len(L[m]) = n + 1
  BY ONLY StaysFacts, StaysInFrame(m, n, V, K, A, R, W, L, B, S, s, v, q)
<1>2. m \in 0 .. m
  BY ONLY <1>1
<1>3. L[m][k] \in Int /\ q \in Int /\ \A j \in 1 .. Len(K[m]) : K[m][j] \in Int
  BY ONLY <1>2, StaysFacts, k \in 1 .. Len(L[m]),
          StaysInFrame(m, n, V, K, A, R, W, L, B, S, s, v, q)
<1>4. W[m][k].t = "vec" /\ L[m][k] # Copied
  BY DEF Lower
<1>5. CASE k <= n
  <2>1. k \in 1 .. n /\ k \in 1 .. Len(K[m])
    BY ONLY <1>1, <1>5, k \in 1 .. Len(L[m])
  <2>2. W[m][k] = V[m][k] /\ KindFits(K[m][k], L[m][k])
    BY <1>4, <2>1 DEF StaysInFrame, Remains
  <2>3. K[m][k] # Copied
    BY ONLY <1>3, <1>4, <2>1, <2>2, FittingKinds
  <2> QED
    BY ONLY <1>4, <2>1, <2>2, <2>3 DEF Lower
<1>6. CASE k > n
  <2>1. k = n + 1 /\ Len(L[m]) = n + 1
    BY ONLY <1>1, <1>6, k \in 1 .. Len(L[m])
  <2>2. W[m][k] = v /\ KindFits(q, L[m][k])
    BY <2>1 DEF StaysInFrame, Pushed
  <2>3. q # Copied
    BY ONLY <1>3, <1>4, <2>2, FittingKinds
  <2> QED
    BY ONLY <1>4, <2>1, <2>2, <2>3 DEF Lower
<1> QED
  BY ONLY <1>1, <1>5, <1>6, k \in 1 .. Len(L[m])

(* A vector that ends at s or before is in every room that ends no earlier. *)
LEMMA Roomy ==
  ASSUME NEW v, v.i \in Int, v.n \in Int, NEW low, NEW high,
         VecIn(v, low, high), NEW s \in Int, NEW t \in Int,
         v.i + v.n <= s, s <= t
  PROVE  VecIn(v, low, t)
<1>1. v.i + v.n <= t
  BY ONLY v.i \in Int, v.n \in Int, s \in Int, t \in Int, v.i + v.n <= s, s <= t
<1> QED
  BY ONLY <1>1, VecIn(v, low, high) DEF VecIn

LEMMA StaysVectors ==
  ASSUME NEW m, NEW n, NEW V, NEW K, NEW A, NEW R, NEW W, NEW L, NEW B, NEW S,
         NEW s, NEW v, NEW q,
         StaysInFrame(m, n, V, K, A, R, W, L, B, S, s, v, q)
  PROVE  VectorsIn(m, W, L, S)
<1> SUFFICES ASSUME NEW f \in 0 .. m, NEW k \in 1 .. Len(L[f]),
                    Lower(W[f][k], L[f][k])
             PROVE  VecIn(W[f][k], 0, S[f])
  BY DEF VectorsIn
<1>1. CASE f # m
  <2>1. /\ L[f] = K[f] /\ S[f] = R[f]
        /\ \A j \in 1 .. Len(K[f]) : Kept(V[f][j], W[f][j], K[f][j])
    BY ONLY <1>1, StaysBelow, f \in 0 .. m,
            StaysInFrame(m, n, V, K, A, R, W, L, B, S, s, v, q)
  <2>2. W[f][k] = V[f][k] /\ Lower(V[f][k], K[f][k]) /\ k \in 1 .. Len(K[f])
    BY ONLY <2>1, k \in 1 .. Len(L[f]), Lower(W[f][k], L[f][k]) DEF Lower, Kept
  <2>3. VecIn(V[f][k], 0, R[f])
    BY <2>2 DEF StaysInFrame, VectorsIn
  <2> QED
    BY ONLY <2>1, <2>2, <2>3
<1>2. CASE f = m
  <2>1. /\ k \in 1 .. Len(L[m]) /\ Lower(W[m][k], L[m][k]) /\ m \in 0 .. m
        /\ s \in Int /\ s <= S[m] /\ v.i \in Int /\ v.n \in Int
        /\ S[m] \in Int
        /\ \A j \in 1 .. Len(K[m]) : V[m][j].i \in Int /\ V[m][j].n \in Int
    BY ONLY <1>2, f \in 0 .. m, k \in 1 .. Len(L[f]), Lower(W[f][k], L[f][k]),
            StaysFacts, StaysInFrame(m, n, V, K, A, R, W, L, B, S, s, v, q)
  <2>2. CASE /\ k \in 1 .. n /\ k \in 1 .. Len(K[m]) /\ W[m][k] = V[m][k]
             /\ Lower(V[m][k], K[m][k])
    <3>1. VecIn(V[m][k], 0, R[m])
      <4>1. VectorsIn(m, V, K, R)
        BY DEF StaysInFrame
      <4> QED
        BY ONLY <2>1, <2>2, <4>1 DEF VectorsIn
    <3>2. V[m][k].i + V[m][k].n <= s
      BY <2>2 DEF StaysInFrame, RoomLeft
    <3>3. V[m][k].i \in Int /\ V[m][k].n \in Int
      BY ONLY <2>1, <2>2
    <3>4. VecIn(V[m][k], 0, S[m])
      BY ONLY <2>1, <3>1, <3>2, <3>3, Roomy
    <3> QED
      BY ONLY <1>2, <2>2, <3>4
  <2>3. CASE W[m][k] = v /\ Lower(v, q)
    <3>1. VecIn(v, 0, s)
      BY <2>3 DEF StaysInFrame, Pushable
    <3> QED
      BY ONLY <1>2, <2>1, <2>3, <3>1 DEF VecIn
  <2> QED
    BY ONLY <2>1, <2>2, <2>3, StaysLower,
            StaysInFrame(m, n, V, K, A, R, W, L, B, S, s, v, q)
<1> QED
  BY ONLY <1>1, <1>2

LEMMA StaysTemps ==
  ASSUME NEW m, NEW n, NEW V, NEW K, NEW A, NEW R, NEW W, NEW L, NEW B, NEW S,
         NEW s, NEW v, NEW q,
         StaysInFrame(m, n, V, K, A, R, W, L, B, S, s, v, q)
  PROVE  TempsIn(m, m, W, L, B)
<1> SUFFICES ASSUME NEW f \in 0 .. m, NEW k \in Known(f, m, L), L[f][k] = Temp
             PROVE  /\ \A g \in 0 .. f - 1 : B[g] <= W[f][k].i
                    /\ \A j \in 1 .. k - 1 : Lower(W[f][j], L[f][j]) =>
                         W[f][j].i + W[f][j].n <= W[f][k].i
  BY DEF TempsIn
<1>1. /\ m \in Nat /\ n \in Nat /\ Len(K[m]) \in Nat /\ n <= Len(K[m])
      /\ Len(L[m]) = n \/ Len(L[m]) = n + 1
      /\ m \in 0 .. m
  <2>1. m \in Nat
    BY ONLY StaysFacts, StaysInFrame(m, n, V, K, A, R, W, L, B, S, s, v, q)
  <2>2. m \in 0 .. m
    BY ONLY <2>1
  <2> QED
    BY ONLY <2>2, StaysFacts, StaysInFrame(m, n, V, K, A, R, W, L, B, S, s, v, q)
<1>2. CASE f # m
  <2>1. /\ f \in 0 .. m - 1 /\ L[f] = K[f]
        /\ \A j \in 1 .. Len(K[f]) : Kept(V[f][j], W[f][j], K[f][j])
        /\ \A g \in 0 .. f : B[g] = A[g]
        /\ Known(f, m, L) = Known(f, m, K)
        /\ \A j \in Known(f, m, K) : j \in 1 .. Len(K[f])
    BY ONLY <1>2, StaysBelow, f \in 0 .. m,
            StaysInFrame(m, n, V, K, A, R, W, L, B, S, s, v, q)
  <2>2. /\ k \in Known(f, m, K) /\ k \in 1 .. Len(K[f]) /\ K[f][k] = Temp
        /\ W[f][k] = V[f][k]
    BY ONLY <2>1, k \in Known(f, m, L), L[f][k] = Temp
       DEF Kept, Temp, ScalarKind
  <2>3. /\ \A g \in 0 .. f - 1 : A[g] <= V[f][k].i
        /\ \A j \in 1 .. k - 1 : Lower(V[f][j], K[f][j]) =>
             V[f][j].i + V[f][j].n <= V[f][k].i
    BY <2>2 DEF StaysInFrame, TempsIn
  <2>4. \A g \in 0 .. f - 1 : B[g] = A[g]
    BY ONLY <2>1, f \in 0 .. m
  <2>5. Len(K[f]) \in Nat
    BY ONLY StaysFacts, f \in 0 .. m,
            StaysInFrame(m, n, V, K, A, R, W, L, B, S, s, v, q)
  <2>6. ASSUME NEW j \in 1 .. k - 1, Lower(W[f][j], L[f][j])
        PROVE  Lower(V[f][j], K[f][j]) /\ W[f][j] = V[f][j]
    <3>1. j \in 1 .. Len(K[f])
      BY ONLY <2>2, <2>5, j \in 1 .. k - 1
    <3> QED
      BY ONLY <2>1, <2>6, <3>1 DEF Lower, Kept
  <2> QED
    BY ONLY <2>2, <2>3, <2>4, <2>6
<1>3. CASE f = m
  <2>1. k \in 1 .. Len(L[m]) /\ L[m][k] = Temp
    BY ONLY <1>3, k \in Known(f, m, L), L[f][k] = Temp DEF Known
  <2>2. /\ q \in Int /\ \A j \in 1 .. Len(K[m]) : K[m][j] \in Int
        /\ L[m][k] \in Int
    BY ONLY <1>1, <2>1, StaysFacts,
            StaysInFrame(m, n, V, K, A, R, W, L, B, S, s, v, q)
  <2>3. \A g \in 0 .. m - 1 : B[g] = A[g]
    BY DEF StaysInFrame, LowerKept
  <2>4. \A j \in 1 .. Len(L[m]) : Lower(W[m][j], L[m][j]) =>
          \/ j \in 1 .. n /\ W[m][j] = V[m][j] /\ Lower(V[m][j], K[m][j])
          \/ j = n + 1
    BY ONLY StaysLower, StaysInFrame(m, n, V, K, A, R, W, L, B, S, s, v, q)
  <2>5. CASE k <= n
    <3>1. k \in 1 .. n /\ k \in 1 .. Len(K[m]) /\ k \in Known(m, m, K)
      BY ONLY <1>1, <2>1, <2>5 DEF Known
    <3>2. \/ W[m][k] = V[m][k] /\ KindFits(K[m][k], L[m][k])
          \/ KindFits(ScalarKind, L[m][k])
      BY <3>1 DEF StaysInFrame, Remains
    <3>3. W[m][k] = V[m][k] /\ K[m][k] = Temp
      BY ONLY <2>1, <2>2, <3>1, <3>2, FittingKinds, ScalarFits
         DEF ScalarKind, AnyKind, Temp
    <3>4. /\ \A g \in 0 .. m - 1 : A[g] <= V[m][k].i
          /\ \A j \in 1 .. k - 1 : Lower(V[m][j], K[m][j]) =>
               V[m][j].i + V[m][j].n <= V[m][k].i
      BY <1>1, <3>1, <3>3 DEF StaysInFrame, TempsIn
    <3>5. ASSUME NEW j \in 1 .. k - 1, Lower(W[m][j], L[m][j])
          PROVE  W[m][j] = V[m][j] /\ Lower(V[m][j], K[m][j])
      <4>1. j \in 1 .. Len(L[m]) /\ j # n + 1
        BY ONLY <1>1, <2>1, <2>5, j \in 1 .. k - 1
      <4> QED
        BY ONLY <2>4, <3>5, <4>1
    <3> QED
      BY ONLY <1>3, <2>3, <3>3, <3>4, <3>5
  <2>6. CASE k > n
    <3>1. k = n + 1 /\ Len(L[m]) = n + 1
      BY ONLY <1>1, <2>1, <2>6
    <3>2. W[m][k] = v /\ KindFits(q, L[m][k])
      BY <3>1 DEF StaysInFrame, Pushed
    <3>3. q = Temp
      BY ONLY <2>1, <2>2, <3>2, FittingKinds
    <3>4. /\ \A g \in 0 .. m - 1 : A[g] <= v.i
          /\ \A j \in 1 .. n : Lower(V[m][j], K[m][j]) =>
               V[m][j].i + V[m][j].n <= v.i
      BY <3>3 DEF StaysInFrame, Pushable
    <3>5. ASSUME NEW j \in 1 .. k - 1, Lower(W[m][j], L[m][j])
          PROVE  j \in 1 .. n /\ W[m][j] = V[m][j] /\ Lower(V[m][j], K[m][j])
      <4>1. j \in 1 .. Len(L[m]) /\ j # n + 1
        BY ONLY <1>1, <3>1, j \in 1 .. k - 1
      <4> QED
        BY ONLY <2>4, <3>5, <4>1
    <3> QED
      BY ONLY <1>3, <2>3, <3>2, <3>4, <3>5
  <2> QED
    BY ONLY <1>1, <2>1, <2>5, <2>6
<1> QED
  BY ONLY <1>2, <1>3

(* The copies of arguments keep to their end of the array stack.            *)
LEMMA StaysCopies ==
  ASSUME NEW m, NEW n, NEW V, NEW K, NEW A, NEW R, NEW W, NEW L, NEW B, NEW S,
         NEW s, NEW v, NEW q,
         StaysInFrame(m, n, V, K, A, R, W, L, B, S, s, v, q),
         NEW low, CopiesIn(m, V, K, low),
         q = Copied => VecIn(v, low, StackMax)
  PROVE  CopiesIn(m, W, L, low)
<1> SUFFICES ASSUME NEW f \in 0 .. m, NEW k \in Known(f, m, L), L[f][k] = Copied
             PROVE  VecIn(W[f][k], low, StackMax)
  BY DEF CopiesIn
<1>1. CASE f # m
  <2>1. /\ L[f] = K[f]
        /\ \A j \in 1 .. Len(K[f]) : Kept(V[f][j], W[f][j], K[f][j])
        /\ Known(f, m, L) = Known(f, m, K)
        /\ \A j \in Known(f, m, K) : j \in 1 .. Len(K[f])
    BY ONLY <1>1, StaysBelow, f \in 0 .. m,
            StaysInFrame(m, n, V, K, A, R, W, L, B, S, s, v, q)
  <2>2. k \in Known(f, m, K) /\ K[f][k] = Copied /\ W[f][k] = V[f][k]
    BY ONLY <2>1, k \in Known(f, m, L), L[f][k] = Copied
       DEF Kept, Copied, ScalarKind
  <2> QED
    BY <2>2 DEF CopiesIn
<1>2. CASE f = m
  <2>1. /\ m \in Nat /\ n \in Nat /\ Len(K[m]) \in Nat /\ n <= Len(K[m])
        /\ Len(L[m]) = n \/ Len(L[m]) = n + 1
        /\ k \in 1 .. Len(L[m]) /\ L[m][k] = Copied /\ q \in Int
    BY ONLY <1>2, k \in Known(f, m, L), L[f][k] = Copied, StaysFacts,
            StaysInFrame(m, n, V, K, A, R, W, L, B, S, s, v, q) DEF Known
  <2>2. L[m][k] \in Int /\ \A j \in 1 .. Len(K[m]) : K[m][j] \in Int
    <3>1. m \in 0 .. m
      BY ONLY <2>1
    <3> QED
      BY ONLY <2>1, <3>1, StaysFacts,
              StaysInFrame(m, n, V, K, A, R, W, L, B, S, s, v, q)
  <2>3. CASE k <= n
    <3>1. k \in 1 .. n /\ k \in 1 .. Len(K[m]) /\ k \in Known(m, m, K)
      BY ONLY <2>1, <2>3 DEF Known
    <3>2. \/ W[m][k] = V[m][k] /\ KindFits(K[m][k], L[m][k])
          \/ KindFits(ScalarKind, L[m][k])
      BY <3>1 DEF StaysInFrame, Remains
    <3>3. W[m][k] = V[m][k] /\ K[m][k] = Copied
      BY ONLY <2>1, <2>2, <3>1, <3>2, FittingKinds, ScalarFits
         DEF ScalarKind, AnyKind, Copied
    <3>4. m \in 0 .. m
      BY ONLY <2>1
    <3> QED
      BY <1>2, <3>1, <3>3, <3>4 DEF CopiesIn
  <2>4. CASE k > n
    <3>1. k = n + 1 /\ Len(L[m]) = n + 1
      BY ONLY <2>1, <2>4
    <3>2. W[m][k] = v /\ KindFits(q, L[m][k])
      BY <3>1 DEF StaysInFrame, Pushed
    <3>3. q = Copied
      BY ONLY <2>1, <2>2, <3>2, FittingKinds
    <3> QED
      BY <1>2, <3>2, <3>3
  <2> QED
    BY ONLY <2>1, <2>3, <2>4
<1> QED
  BY ONLY <1>1, <1>2

-----------------------------------------------------------------------------
(* The frames of the machine.                                              *)

View(f)  == views[framestack[f].fn].at[framestack[f].ip]
Blind(f) == views[framestack[f].fn].blind

(* Between OP_SHIFT_ASTACKENT_TO_BASE and OP_RETURN the result lies on the  *)
(* caller's part of the array stack, and what else the function holds may   *)
(* be overwritten.                                                          *)
Moving == Op = OP_RETURN /\ views[Frame.fn].gives = Temp
Last   == IF Moving THEN framese - 1 ELSE framese
Result == stack[SP - 1]

Room(f) == IF Moving /\ f = framese - 1 THEN Result.i
           ELSE framestack[f].asp - View(f).loose

Values == [f \in 0 .. framese |-> Vals(f)]
Kinds  == [f \in 0 .. framese |-> View(f).kinds]
Asps   == [f \in 0 .. framese |-> framestack[f].asp]
Rooms  == [f \in 0 .. framese |-> Room(f)]

FrameArrays ==
  /\ KindsIn(framese, Values, Kinds)
  /\ RoomsIn(Last, Asps, Rooms)
  /\ VectorsIn(Last, Values, Kinds, Rooms)
  /\ TempsIn(Last, framese, Values, Kinds, Asps)

(* A frame that waits is ready for what its callee gives back.              *)
CallersAgree ==
  \A f \in 0 .. framese - 1 :
    LET callee == views[framestack[f + 1].fn]
    IN  /\ KindFits(callee.gives, View(f).kinds[Len(ShapeOf(f))])
        /\ callee.gives = Temp => View(f).loose = 0
        /\ ~callee.blind => View(f).args = callee.outs
        /\ callee.reach <= Len(ShapeOf(f))

(* Who is called by a function that is blind is blind, and who looks into   *)
(* other frames finds no copies of arguments there.                         *)
BlindAbove ==
  \A f, g \in 0 .. framese :
    f < g /\ ~Blind(g) => ~Blind(f) /\ NoneIn(Copied, View(f).kinds)

(* The program's variables are what the functions in it take them for.      *)
GlobalsAgree ==
  framese > 1 => \A k \in 1 .. Len(views[2].held) :
    IF views[2].held[k] = ScalarKind THEN View(1).kinds[k] = ScalarKind
    ELSE View(1).kinds[k] # Copied

ScalarElements == \A c \in CellIndex : astack[c].t # "vec"

ResultMoved ==
  Moving => /\ Result.t = "vec" /\ 0 <= Result.n
            /\ Result.i + Result.n = framestack[framese - 1].asp

(* The topmost frame that is not blind knows the argument stack.            *)
ArgsAgree ==
  \A f \in 0 .. framese :
    ~Blind(f) /\ (f = framese \/ Blind(f + 1)) =>
      /\ argsp = Len(View(f).args)
      /\ \A k \in 1 .. argsp : View(f).args[k] = 1 <=> argstack[k - 1].t = "vec"

(* Its vectors lie one below the other at the end of the array stack.       *)
CopiesStacked ==
  /\ argasp <= StackMax
  /\ \A j \in 0 .. argsp - 1 : argstack[j].t = "vec" =>
       /\ VecIn(argstack[j], argasp, StackMax)
       /\ \A k \in j + 1 .. argsp - 1 :
            argstack[k].t = "vec" => argstack[k].i + argstack[k].n <= argstack[j].i

Arrays == /\ FrameArrays /\ CallersAgree /\ BlindAbove /\ GlobalsAgree
          /\ ScalarElements /\ ResultMoved

Arguments == /\ ArgsAgree /\ CopiesIn(framese, Values, Kinds, argasp)
             /\ CopiesStacked

VInv == DInv /\ ArraysWellFormed(image, views)

AInv == VInv /\ (status = "run" => Arrays /\ Arguments)

(* What the views say of a frame.                                           *)
LEMMA ViewFacts ==
  ASSUME VInv, status = "run", NEW f \in 0 .. framese
  PROVE  /\ framestack[f].fn \in DOMAIN image.fns
         /\ framestack[f].ip \in DOMAIN image.fns[framestack[f].fn].shape
         /\ ShapeOf(f) = image.fns[framestack[f].fn].shape[framestack[f].ip]
         /\ ViewHeaderOK(image, views, framestack[f].fn)
         /\ ViewOK(image, views, framestack[f].fn, framestack[f].ip)
         /\ View(f).kinds \in Seq(Int) /\ Len(View(f).kinds) = Len(ShapeOf(f))
         /\ \A k \in 1 .. Len(ShapeOf(f)) : View(f).kinds[k] >= Moved
         /\ View(f).loose \in Nat /\ View(f).args \in Seq({0, 1})
         /\ framestack[f] \in FrameType
<1>1. DInv /\ ArraysWellFormed(image, views) /\ f \in FrameIndex
      /\ framestack \in [FrameIndex -> FrameType]
  <2>1. DInv /\ ArraysWellFormed(image, views)
    BY DEF VInv
  <2>2. framese \in FrameIndex /\ framestack \in [FrameIndex -> FrameType]
    BY ONLY <2>1 DEF DInv, IInv, TypeOK
  <2>3. f \in FrameIndex
    BY ONLY <2>2, f \in 0 .. framese, SizesAssumption DEF FrameIndex
  <2> QED
    BY ONLY <2>1, <2>2, <2>3
<1>2. /\ framestack[f].fn \in DOMAIN image.fns
      /\ framestack[f].ip \in DOMAIN image.fns[framestack[f].fn].shape
  BY <1>1 DEF DInv, FrameInv, Discipline, FramesKnown, Fn
<1>3. /\ ViewHeaderOK(image, views, framestack[f].fn)
      /\ ViewOK(image, views, framestack[f].fn, framestack[f].ip)
  BY ONLY <1>1, <1>2 DEF ArraysWellFormed
<1>4. ShapeOf(f) = image.fns[framestack[f].fn].shape[framestack[f].ip]
  BY DEF ShapeOf, Fn
<1>5. /\ View(f).kinds \in Seq(Int) /\ Len(View(f).kinds) = Len(ShapeOf(f))
      /\ \A k \in 1 .. Len(View(f).kinds) : View(f).kinds[k] >= Moved
      /\ View(f).loose \in Nat /\ View(f).args \in Seq({0, 1})
  BY ONLY <1>3, <1>4 DEF ViewOK, View
<1> QED
  BY ONLY <1>1, <1>2, <1>3, <1>4, <1>5

(* The values of the frames are as many as their kinds; where the frames    *)
(* end on the array stack are numbers.                                      *)
FramesTyped ==
  /\ FramesType(framese, Values, Kinds, Asps, Rooms)
  /\ \A f \in 0 .. framese :
       /\ Values[f] = Vals(f) /\ Kinds[f] = View(f).kinds
       /\ Asps[f] = framestack[f].asp /\ Rooms[f] = Room(f)
       /\ Len(Kinds[f]) = Len(ShapeOf(f))
       /\ \A k \in 1 .. Len(Kinds[f]) :
            Values[f][k] = stack[framestack[f].base + k - 1]

LEMMA FrameTypes == VInv /\ status = "run" => FramesTyped
<1> SUFFICES ASSUME VInv, status = "run"
             PROVE  FramesTyped
  OBVIOUS
<1>1. DInv /\ framese \in Nat /\ stack \in [CellIndex -> Value]
  BY DEF VInv, DInv, IInv, TypeOK, FrameIndex
<1>2. \A f \in 0 .. framese :
        /\ View(f).kinds \in Seq(Int) /\ Len(View(f).kinds) = Len(ShapeOf(f))
        /\ View(f).loose \in Nat /\ framestack[f].asp \in Int
  BY ViewFacts DEF FrameType
<1>3. ASSUME NEW f \in 0 .. framese
      PROVE  /\ Len(ShapeOf(f)) \in Nat
             /\ Vals(f) \in Seq(Value) /\ Len(Vals(f)) = Len(ShapeOf(f))
             /\ \A k \in 1 .. Len(ShapeOf(f)) :
                  Vals(f)[k] = stack[framestack[f].base + k - 1]
  <2>1. /\ Len(ShapeOf(f)) \in Nat
        /\ \A k \in 1 .. Len(ShapeOf(f)) : framestack[f].base + k - 1 \in CellIndex
    BY ONLY FrameHolds, <1>1, status = "run", f \in 0 .. framese
  <2>2. PICK n : n = Len(ShapeOf(f))
    OBVIOUS
  <2>3. PICK v : v = Vals(f)
    OBVIOUS
  <2>4. v = [k \in 1 .. n |-> stack[framestack[f].base + k - 1]]
    BY <2>2, <2>3 DEF Vals
  <2>5. \A k \in 1 .. n : stack[framestack[f].base + k - 1] \in Value
    BY ONLY <1>1, <2>1, <2>2
  <2>6. v \in Seq(Value) /\ Len(v) = n
    BY ONLY <2>1, <2>2, <2>4, <2>5
  <2> QED
    BY ONLY <2>1, <2>2, <2>3, <2>4, <2>6
<1>4. \A f \in 0 .. framese : Room(f) \in Int
  <2> SUFFICES ASSUME NEW f \in 0 .. framese
               PROVE  Room(f) \in Int
    OBVIOUS
  <2>1. framestack[f].asp - View(f).loose \in Int
    BY ONLY <1>2, f \in 0 .. framese
  <2>2. CASE Moving
    <3>1. /\ InstructionOK(image, Frame.fn, IP) /\ Frame.base \in Nat
          /\ ShapeOf(framese) = Fn(framese).shape[IP]
          /\ Fn(framese) = image.fns[Frame.fn]
          /\ Len(ShapeOf(framese)) \in Nat
          /\ SP = Frame.base + Len(ShapeOf(framese)) /\ SP <= StackMax
      BY ONLY CurrentFacts, <1>1, status = "run"
    <3>2. Needs(image.fns[Frame.fn], IP) = 1
      BY <2>2, SameInstruction DEF Moving, Needs
    <3>3. Len(ShapeOf(framese)) > 0
      <4>1. 1 <= Len(image.fns[Frame.fn].shape[IP])
        BY ONLY <3>1, <3>2 DEF InstructionOK
      <4> QED
        BY ONLY <3>1, <4>1
    <3>4. SP - 1 \in CellIndex
      <4>1. /\ Frame.base \in Nat /\ Len(ShapeOf(framese)) \in Nat
            /\ SP = Frame.base + Len(ShapeOf(framese)) /\ SP <= StackMax
        BY ONLY <3>1
      <4>2. SP \in Nat /\ SP >= 1
        BY ONLY <3>3, <4>1
      <4> QED
        BY ONLY <4>1, <4>2, SizesAssumption DEF CellIndex
    <3>5. Result \in Value
      BY ONLY <1>1, <3>4 DEF Result
    <3> QED
      BY ONLY <2>1, <3>5, ValueFields DEF Room
  <2> QED
    BY ONLY <2>1, <2>2 DEF Room
<1>5. \A f \in 0 .. framese - 1 : Len(ShapeOf(f)) > 0
  BY <1>1 DEF DInv, FrameInv, Discipline, HeightsAgree
<1>6. \A f \in 0 .. framese :
        /\ Values[f] = Vals(f) /\ Kinds[f] = View(f).kinds
        /\ Asps[f] = framestack[f].asp /\ Rooms[f] = Room(f)
  BY DEF Values, Kinds, Asps, Rooms
<1>7. /\ Values \in [0 .. framese -> Seq(Value)]
      /\ Kinds \in [0 .. framese -> Seq(Int)]
      /\ Asps \in [0 .. framese -> Int] /\ Rooms \in [0 .. framese -> Int]
  BY <1>2, <1>3, <1>4 DEF Values, Kinds, Asps, Rooms
<1>8. FramesType(framese, Values, Kinds, Asps, Rooms)
  <2>1. \A f \in 0 .. framese : Len(Values[f]) = Len(Kinds[f])
    BY ONLY <1>2, <1>3, <1>6
  <2>2. \A f \in 0 .. framese - 1 : Len(Kinds[f]) > 0
    BY ONLY <1>1, <1>2, <1>5, <1>6
  <2> QED
    BY ONLY <1>1, <1>7, <2>1, <2>2 DEF FramesType
<1> QED
  BY ONLY <1>2, <1>3, <1>6, <1>8 DEF FramesTyped

(* The same after a step.                                                   *)
LEMMA FrameTypesNext == VInv' /\ (status = "run")' => FramesTyped'
  BY FrameTypes, PTL

(* What the views say of the current instruction.                           *)
LEMMA InstructionViews ==
  ASSUME VInv, status = "run"
  PROVE  /\ View(framese) = views[Frame.fn].at[IP]
         /\ ShapeOf(framese) = image.fns[Frame.fn].shape[IP]
         /\ Fn(framese) = image.fns[Frame.fn]
         /\ Frame.fn \in DOMAIN image.fns
         /\ ViewHeaderOK(image, views, Frame.fn)
         /\ ElementsOK(image, views, Frame.fn, IP)
         /\ VariablesOK(image, views, Frame.fn, IP)
         /\ PassingOK(image, views, Frame.fn, IP)
         /\ ArgumentsOK(image, views, Frame.fn, IP)
         /\ ViewAfterOK(image, views, Frame.fn, IP)
         /\ InstructionOK(image, Frame.fn, IP)
         /\ framese \in Nat /\ framese \in 0 .. framese
<1>1. DInv /\ ArraysWellFormed(image, views)
  BY DEF VInv
<1>2. /\ Frame.fn \in DOMAIN image.fns /\ Fn(framese) = image.fns[Frame.fn]
      /\ IP \in DOMAIN Fn(framese).shape
      /\ ShapeOf(framese) = Fn(framese).shape[IP]
      /\ InstructionOK(image, Frame.fn, IP)
      /\ framese \in Nat
  BY ONLY CurrentFacts, <1>1, status = "run"
<1>3. /\ ViewHeaderOK(image, views, Frame.fn)
      /\ ElementsOK(image, views, Frame.fn, IP)
      /\ VariablesOK(image, views, Frame.fn, IP)
      /\ PassingOK(image, views, Frame.fn, IP)
      /\ ArgumentsOK(image, views, Frame.fn, IP)
      /\ ViewAfterOK(image, views, Frame.fn, IP)
  BY ONLY <1>1, <1>2 DEF ArraysWellFormed
<1>4. View(framese) = views[Frame.fn].at[IP]
  BY DEF View, Frame, IP
<1>5. framese \in 0 .. framese
  BY ONLY <1>2
<1> QED
  BY ONLY <1>2, <1>3, <1>4, <1>5

(* The machine remains in its frame and goes on at t.                       *)
OnFrame(t) ==
  /\ UNCHANGED << image, framese >>
  /\ \A f \in 0 .. framese - 1 : framestack'[f] = framestack[f]
  /\ framestack'[framese].fn = Frame.fn
  /\ framestack'[framese].base = Frame.base
  /\ framestack'[framese].ip = t

LEMMA OnFrameViews ==
  ASSUME VInv, status = "run", NEW t, OnFrame(t)
  PROVE  /\ framese' = framese /\ image' = image
         /\ \A f \in 0 .. framese - 1 :
              /\ View(f)' = View(f) /\ ShapeOf(f)' = ShapeOf(f)
              /\ Blind(f)' = Blind(f) /\ framestack'[f] = framestack[f]
         /\ \A f \in 0 .. framese :
              /\ framestack'[f].fn = framestack[f].fn
              /\ framestack'[f].base = framestack[f].base
              /\ Blind(f)' = Blind(f)
         /\ View(framese)' = views[Frame.fn].at[t]
         /\ ShapeOf(framese)' = image.fns[Frame.fn].shape[t]
         /\ Fn(framese)' = Fn(framese)
<1>1. /\ framese' = framese /\ image' = image
      /\ \A f \in 0 .. framese - 1 : framestack'[f] = framestack[f]
      /\ framestack'[framese].fn = Frame.fn
      /\ framestack'[framese].base = Frame.base
      /\ framestack'[framese].ip = t
  BY DEF OnFrame
<1>2. \A f \in 0 .. framese - 1 :
        /\ View(f)' = View(f) /\ ShapeOf(f)' = ShapeOf(f)
        /\ Blind(f)' = Blind(f) /\ framestack'[f] = framestack[f]
  BY <1>1 DEF View, ShapeOf, Fn, Blind
<1>3. framese \in Nat
  BY InstructionViews
<1>4. \A f \in 0 .. framese : f # framese => f \in 0 .. framese - 1
  BY ONLY <1>3
<1>5. \A f \in 0 .. framese :
              /\ framestack'[f].fn = framestack[f].fn
              /\ framestack'[f].base = framestack[f].base
  BY ONLY <1>1, <1>4 DEF Frame
<1>6. \A f \in 0 .. framese : Blind(f)' = Blind(f)
  BY ONLY <1>5 DEF Blind
<1>7. View(framese)' = views[Frame.fn].at[t]
  BY ONLY <1>1 DEF View, Frame
<1>8. ShapeOf(framese)' = image.fns[Frame.fn].shape[t] /\ Fn(framese)' = Fn(framese)
  BY ONLY <1>1 DEF ShapeOf, Fn, Frame
<1> QED
  BY ONLY <1>1, <1>2, <1>5, <1>6, <1>7, <1>8

(* Whoever returns a vector has it last, and knows it is in place.          *)
LEMMA NotMoving ==
  VInv /\ status = "run" /\ NoneIn(Moved, View(framese).kinds) => ~Moving
<1> SUFFICES ASSUME VInv, status = "run", Moving,
                    NoneIn(Moved, View(framese).kinds)
             PROVE  FALSE
  OBVIOUS
<1>1. DInv
  BY DEF VInv
<1>2. Op = OP_RETURN /\ views[Frame.fn].gives = Temp
  BY DEF Moving
<1>3. /\ View(framese) = views[Frame.fn].at[IP]
      /\ ShapeOf(framese) = image.fns[Frame.fn].shape[IP]
      /\ ArgumentsOK(image, views, Frame.fn, IP)
      /\ InstructionOK(image, Frame.fn, IP)
      /\ framese \in 0 .. framese
  BY ONLY InstructionViews, VInv, status = "run"
<1>4. OpAt(image.fns[Frame.fn], IP) = OP_RETURN
  BY ONLY <1>2, SameInstruction
<1>5. /\ Len(View(framese).kinds) = Len(ShapeOf(framese))
      /\ View(framese).kinds \in Seq(Int)
  BY ONLY ViewFacts, <1>3, VInv, status = "run"
<1>6. Len(View(framese).kinds) \in 1 .. Len(View(framese).kinds)
  <2>1. Needs(image.fns[Frame.fn], IP) = 1
    BY ONLY <1>4 DEF Needs
  <2>2. 1 <= Len(ShapeOf(framese))
    BY ONLY <1>3, <2>1 DEF InstructionOK
  <2> QED
    BY ONLY <1>5, <2>2
<1>7. KindFits(View(framese).kinds[Len(View(framese).kinds)], Moved)
  BY ONLY <1>2, <1>3, <1>4 DEF ArgumentsOK
<1>8. View(framese).kinds[Len(View(framese).kinds)] = Moved
  BY ONLY <1>7 DEF KindFits, Moved, AnyKind, ScalarKind
<1> QED
  BY ONLY <1>6, <1>8, NoneIn(Moved, View(framese).kinds) DEF NoneIn

LEMMA NotMovingNext ==
  VInv' /\ (status = "run")' /\ NoneIn(Moved, View(framese).kinds)' => ~Moving'
  BY NotMoving, PTL

-----------------------------------------------------------------------------
(* A handler that remains in its frame.                                     *)

(* What the views promise of the place where control goes.                  *)
LEMMA PlaceFits ==
  ASSUME VInv, status = "run", NEW t \in Targets(Fn(framese), IP),
         NEW kinds, kinds = KindsAfter(image, views, Frame.fn, IP),
         Len(kinds) = Len(After(image, Frame.fn, IP)),
         NEW view, view = views[Frame.fn].at[t]
  PROVE  /\ Len(view.kinds) = Len(kinds) /\ view.kinds \in Seq(Int)
         /\ \A k \in 1 .. Len(kinds) : KindFits(kinds[k], view.kinds[k])
         /\ view.loose \in Nat
         /\ view.loose <= LooseAfter(image, views, Frame.fn, IP)
         /\ view.args = ArgsAfter(image, views, Frame.fn, IP)
<1>1. /\ Fn(framese) = image.fns[Frame.fn] /\ Frame.fn \in DOMAIN image.fns
      /\ InstructionOK(image, Frame.fn, IP)
      /\ ViewAfterOK(image, views, Frame.fn, IP)
  BY ONLY InstructionViews, VInv, status = "run"
<1>3. /\ t \in DOMAIN image.fns[Frame.fn].shape
      /\ Fits(After(image, Frame.fn, IP), image.fns[Frame.fn].shape[t])
  BY ONLY <1>1, t \in Targets(Fn(framese), IP) DEF InstructionOK
<1>4. ViewOK(image, views, Frame.fn, t)
  BY ONLY <1>1, <1>3, VInv DEF VInv, ArraysWellFormed
<1>5. /\ view.kinds \in Seq(Int) /\ view.loose \in Nat
      /\ Len(view.kinds) = Len(image.fns[Frame.fn].shape[t])
  BY ONLY <1>4, view = views[Frame.fn].at[t] DEF ViewOK
<1>6. Len(view.kinds) = Len(kinds)
  BY ONLY <1>3, <1>5, Len(kinds) = Len(After(image, Frame.fn, IP)) DEF Fits
<1>7. /\ \A k \in 1 .. Len(kinds) : KindFits(kinds[k], view.kinds[k])
      /\ view.loose <= LooseAfter(image, views, Frame.fn, IP)
      /\ view.args = ArgsAfter(image, views, Frame.fn, IP)
  BY ONLY <1>1, t \in Targets(Fn(framese), IP), view = views[Frame.fn].at[t],
          kinds = KindsAfter(image, views, Frame.fn, IP) DEF ViewAfterOK
<1> QED
  BY ONLY <1>5, <1>6, <1>7

LEMMA AfterFits ==
  ASSUME VInv, status = "run", NEW t \in Targets(Fn(framese), IP), OnFrame(t),
         NEW kinds, kinds = KindsAfter(image, views, Frame.fn, IP),
         Len(kinds) = Len(After(image, Frame.fn, IP))
  PROVE  /\ Len(View(framese)'.kinds) = Len(kinds)
         /\ View(framese)'.kinds \in Seq(Int)
         /\ \A k \in 1 .. Len(kinds) : KindFits(kinds[k], View(framese)'.kinds[k])
         /\ View(framese)'.loose \in Nat
         /\ View(framese)'.loose <= LooseAfter(image, views, Frame.fn, IP)
         /\ View(framese)'.args = ArgsAfter(image, views, Frame.fn, IP)
<1>1. View(framese)' = views[Frame.fn].at[t]
  BY ONLY OnFrameViews, VInv, status = "run", OnFrame(t)
<1> QED
  BY ONLY <1>1, PlaceFits, VInv, status = "run", t \in Targets(Fn(framese), IP),
          kinds = KindsAfter(image, views, Frame.fn, IP),
          Len(kinds) = Len(After(image, Frame.fn, IP))

(* The step leaves n of the frame's values and pushes v of kind q, or       *)
(* nothing, and what the frame has ends with s on the array stack.          *)
StepStays(t, n, kinds, s, v, q) ==
  /\ t \in Targets(Fn(framese), IP) /\ OnFrame(t)
  /\ kinds = KindsAfter(image, views, Frame.fn, IP)
  /\ Len(kinds) = Len(After(image, Frame.fn, IP))
  /\ n \in Nat /\ n <= Len(ShapeOf(framese)) /\ Len(kinds) \in {n, n + 1}
  /\ \A k \in 1 .. n :
       \/ /\ stack'[Frame.base + k - 1] = stack[Frame.base + k - 1]
          /\ kinds[k] = View(framese).kinds[k]
       \/ stack'[Frame.base + k - 1].t # "vec" /\ kinds[k] = ScalarKind
  /\ Len(kinds) = n + 1 => kinds[n + 1] = q /\ stack'[Frame.base + n] = v
  /\ \A f \in 0 .. framese - 1 : \A k \in 1 .. Len(ShapeOf(f)) :
       Kept(stack[framestack[f].base + k - 1],
            stack'[framestack[f].base + k - 1], View(f).kinds[k])
  /\ s \in Int /\ LooseAfter(image, views, Frame.fn, IP) \in Int
  /\ s <= framestack'[framese].asp - LooseAfter(image, views, Frame.fn, IP)
  /\ q \in Int
  /\ RoomLeft(framese, n, Values, Kinds, Asps, s)
  /\ Pushable(framese, n, Values, Kinds, Asps, s, v, q)

(* The machine does not return, nor is it about to.                         *)
LEMMA CalmFacts ==
  ASSUME AInv, status = "run", Op # OP_RETURN
  PROVE  /\ VInv /\ ~Moving /\ Last = framese /\ NoneIn(Moved, Kinds[framese])
         /\ \A f \in 0 .. framese : Rooms[f] = framestack[f].asp - View(f).loose
         /\ FramesTyped
         /\ KindsIn(framese, Values, Kinds) /\ RoomsIn(framese, Asps, Rooms)
         /\ VectorsIn(framese, Values, Kinds, Rooms)
         /\ TempsIn(framese, framese, Values, Kinds, Asps)
<1>1. VInv /\ FrameArrays /\ FramesTyped
  BY FrameTypes DEF AInv, Arrays
<1>2. ~Moving
  BY DEF Moving
<1>3. Last = framese
  BY ONLY <1>2 DEF Last
<1>4. \A f \in 0 .. framese : Rooms[f] = framestack[f].asp - View(f).loose
  BY ONLY <1>1, <1>2 DEF FramesTyped, Room
<1>5. NoneIn(Moved, Kinds[framese])
  <2>1. /\ View(framese) = views[Frame.fn].at[IP]
        /\ ArgumentsOK(image, views, Frame.fn, IP)
        /\ framese \in 0 .. framese
    BY ONLY InstructionViews, <1>1, status = "run"
  <2>2. OpAt(image.fns[Frame.fn], IP) # OP_RETURN
    BY SameInstruction
  <2>3. NoneIn(Moved, View(framese).kinds)
    BY ONLY <2>1, <2>2 DEF ArgumentsOK
  <2> QED
    BY ONLY <1>1, <2>1, <2>3 DEF FramesTyped
<1> QED
  BY ONLY <1>1, <1>2, <1>3, <1>4, <1>5 DEF FrameArrays

LEMMA StaysRelated ==
  ASSUME AInv, VInv', status = "run", status' = "run", Op # OP_RETURN,
         NEW t, NEW n, NEW kinds, NEW s, NEW v, NEW q,
         StepStays(t, n, kinds, s, v, q),
         NEW m, m = framese, NEW V, V = Values, NEW K, K = Kinds,
         NEW A, A = Asps, NEW R, R = Rooms, NEW W, W = Values',
         NEW L, L = Kinds', NEW B, B = Asps', NEW S, S = Rooms'
  PROVE  /\ ~Moving' /\ framese' = m
         /\ StaysInFrame(m, n, V, K, A, R, W, L, B, S, s, v, q)
<1>1. /\ VInv /\ ~Moving /\ NoneIn(Moved, K[m])
      /\ \A f \in 0 .. m : R[f] = framestack[f].asp - View(f).loose
      /\ FramesTyped
      /\ KindsIn(m, V, K) /\ RoomsIn(m, A, R)
      /\ VectorsIn(m, V, K, R) /\ TempsIn(m, m, V, K, A)
  BY CalmFacts
<1>2. /\ FramesType(m, V, K, A, R)
      /\ \A f \in 0 .. m :
           /\ K[f] = View(f).kinds /\ A[f] = framestack[f].asp
           /\ Len(K[f]) = Len(ShapeOf(f))
           /\ \A k \in 1 .. Len(K[f]) : V[f][k] = stack[framestack[f].base + k - 1]
  BY <1>1 DEF FramesTyped
<1>3. FramesTyped'
  BY FrameTypesNext
<1>4. /\ framese' = m /\ image' = image
      /\ \A f \in 0 .. m - 1 :
           /\ View(f)' = View(f) /\ ShapeOf(f)' = ShapeOf(f)
           /\ framestack'[f] = framestack[f]
      /\ \A f \in 0 .. m : /\ framestack'[f].fn = framestack[f].fn
                           /\ framestack'[f].base = framestack[f].base
      /\ View(m)' = View(framese)' /\ ShapeOf(m)' = ShapeOf(framese)'
  <2>1. OnFrame(t)
    BY DEF StepStays
  <2>2. framese' = m
    BY <2>1 DEF OnFrame
  <2>3. View(m)' = View(framese)' /\ ShapeOf(m)' = ShapeOf(framese)'
    BY <2>2
  <2> QED
    BY ONLY <1>1, <2>1, <2>2, <2>3, m = framese, OnFrameViews, status = "run"
<1>5. /\ FramesType(m, W, L, B, S)
      /\ \A f \in 0 .. m :
           /\ L[f] = View(f)'.kinds /\ B[f] = framestack'[f].asp
           /\ S[f] = Room(f)' /\ Len(L[f]) = Len(ShapeOf(f)')
           /\ \A k \in 1 .. Len(L[f]) :
                W[f][k] = stack'[framestack[f].base + k - 1]
  <2>1. /\ FramesType(m, W, L, B, S)
        /\ \A f \in 0 .. m :
             /\ L[f] = View(f).kinds' /\ B[f] = framestack'[f].asp
             /\ S[f] = Room(f)' /\ Len(L[f]) = Len(ShapeOf(f)')
             /\ \A k \in 1 .. Len(L[f]) :
                  W[f][k] = stack'[framestack'[f].base + k - 1]
    BY <1>3, <1>4 DEF FramesTyped
  <2> QED
    BY ONLY <1>4, <2>1
<1>6. /\ Len(L[m]) = Len(kinds)
      /\ \A k \in 1 .. Len(kinds) : KindFits(kinds[k], L[m][k])
      /\ View(m)'.loose \in Nat
      /\ View(m)'.loose <= LooseAfter(image, views, Frame.fn, IP)
  <2>1. /\ t \in Targets(Fn(framese), IP) /\ OnFrame(t)
        /\ kinds = KindsAfter(image, views, Frame.fn, IP)
        /\ Len(kinds) = Len(After(image, Frame.fn, IP))
    BY DEF StepStays
  <2>2. m \in 0 .. m
    BY ONLY <1>2 DEF FramesType
  <2> QED
    BY ONLY <1>1, <1>4, <1>5, <2>1, <2>2, AfterFits, status = "run"
<1>7. m \in Nat /\ m \in 0 .. m /\ \A f \in 0 .. m - 1 : f \in 0 .. m
  BY ONLY <1>2 DEF FramesType
<1>8. /\ n \in Nat /\ n <= Len(K[m]) /\ Len(kinds) \in {n, n + 1}
      /\ \A k \in 1 .. n :
           \/ /\ stack'[framestack[m].base + k - 1] = stack[framestack[m].base + k - 1]
              /\ kinds[k] = K[m][k]
           \/ stack'[framestack[m].base + k - 1].t # "vec" /\ kinds[k] = ScalarKind
      /\ Len(kinds) = n + 1 =>
           kinds[n + 1] = q /\ stack'[framestack[m].base + n] = v
  <2>1. Len(K[m]) = Len(ShapeOf(m)) /\ K[m] = View(m).kinds
    BY ONLY <1>2, <1>7
  <2> QED
    BY <2>1 DEF StepStays, Frame
<1>9. LowerKept(m, V, K, A, R, W, L, B, S) \/ Moving'
  <2> SUFFICES ASSUME ~Moving', NEW f \in 0 .. m - 1
               PROVE  /\ L[f] = K[f] /\ B[f] = A[f] /\ S[f] = R[f]
                      /\ \A k \in 1 .. Len(K[f]) :
                           Kept(V[f][k], W[f][k], K[f][k])
    BY DEF LowerKept
  <2>1. f \in 0 .. m
    BY ONLY <1>7, f \in 0 .. m - 1
  <2>2. L[f] = K[f] /\ B[f] = A[f]
    BY ONLY <1>2, <1>4, <1>5, <2>1, f \in 0 .. m - 1
  <2>3. Room(f)' = framestack'[f].asp - View(f)'.loose
    BY DEF Room
  <2>4. S[f] = R[f]
    BY ONLY <1>1, <1>4, <1>5, <2>1, <2>3, f \in 0 .. m - 1
  <2>5. ASSUME NEW k \in 1 .. Len(K[f])
        PROVE  Kept(V[f][k], W[f][k], K[f][k])
    <3>1. /\ V[f][k] = stack[framestack[f].base + k - 1]
          /\ W[f][k] = stack'[framestack[f].base + k - 1]
          /\ K[f] = View(f).kinds /\ k \in 1 .. Len(ShapeOf(f))
      BY ONLY <1>2, <1>5, <2>1, <2>2, k \in 1 .. Len(K[f])
    <3>2. Kept(stack[framestack[f].base + k - 1],
               stack'[framestack[f].base + k - 1], View(f).kinds[k])
      BY <3>1 DEF StepStays
    <3> QED
      BY ONLY <3>1, <3>2
  <2> QED
    BY ONLY <2>2, <2>4, <2>5
<1>10. Remains(m, n, V, K, W, L)
  <2>1. ASSUME NEW k \in 1 .. n
        PROVE  \/ W[m][k] = V[m][k] /\ KindFits(K[m][k], L[m][k])
               \/ W[m][k].t # "vec" /\ KindFits(ScalarKind, L[m][k])
    <3>1. k \in 1 .. Len(K[m]) /\ k \in 1 .. Len(L[m]) /\ k \in 1 .. Len(kinds)
      <4>1. Len(K[m]) \in Nat
        BY ONLY <1>2, <1>7 DEF FramesType
      <4> QED
        BY ONLY <1>6, <1>8, <4>1, k \in 1 .. n
    <3>2. /\ V[m][k] = stack[framestack[m].base + k - 1]
          /\ W[m][k] = stack'[framestack[m].base + k - 1]
      BY ONLY <1>2, <1>5, <1>7, <3>1
    <3>3. KindFits(kinds[k], L[m][k])
      BY ONLY <1>6, <3>1
    <3> QED
      BY ONLY <1>8, <3>2, <3>3, k \in 1 .. n
  <2> QED
    BY ONLY <1>6, <1>8, <2>1 DEF Remains
<1>11. Pushed(m, n, W, L, v, q)
  <2> SUFFICES ASSUME Len(L[m]) = n + 1
               PROVE  W[m][n + 1] = v /\ KindFits(q, L[m][n + 1])
    BY DEF Pushed
  <2>1. n + 1 \in 1 .. Len(L[m]) /\ n + 1 \in 1 .. Len(kinds)
    BY ONLY <1>6, <1>8, Len(L[m]) = n + 1
  <2>2. W[m][n + 1] = stack'[framestack[m].base + (n + 1) - 1]
    BY ONLY <1>5, <1>7, <2>1
  <2>3. framestack[m].base \in Nat
    <3>1. DInv
      BY ONLY <1>1 DEF VInv
    <3> QED
      BY ONLY <3>1, <1>7, FrameHolds, m = framese, status = "run"
  <2>4. framestack[m].base + (n + 1) - 1 = framestack[m].base + n
    BY ONLY <1>8, <2>3
  <2> QED
    BY ONLY <1>6, <1>8, <2>1, <2>2, <2>4, Len(L[m]) = n + 1
<1>12. q \in Int /\ q # Moved /\ Pushable(m, n, V, K, A, s, v, q)
       /\ RoomLeft(m, n, V, K, A, s) /\ s \in Int
  BY DEF StepStays, Pushable
<1>13. ~Moving'
  <2>1. NoneIn(Moved, L[m])
    <3>1. ASSUME NEW k \in 1 .. Len(L[m])
          PROVE  L[m][k] # Moved
      <4>1. Len(L[m]) = n \/ Len(L[m]) = n + 1
        BY ONLY <1>6, <1>8
      <4>2. k \in 1 .. n \/ (k = n + 1 /\ Len(L[m]) = n + 1)
        BY ONLY <1>8, <4>1, k \in 1 .. Len(L[m])
      <4>3. KindFits(kinds[k], L[m][k])
        BY ONLY <1>6, k \in 1 .. Len(L[m])
      <4>4. CASE k \in 1 .. n
        <5>1. kinds[k] = K[m][k] \/ kinds[k] = ScalarKind
          BY ONLY <1>8, <4>4
        <5>2. K[m][k] # Moved
          <6>1. Len(K[m]) \in Nat
            BY ONLY <1>2, <1>7 DEF FramesType
          <6>2. k \in 1 .. Len(K[m])
            BY ONLY <1>8, <4>4, <6>1
          <6> QED
            BY ONLY <1>1, <6>2 DEF NoneIn
        <5> QED
          BY ONLY <4>3, <5>1, <5>2 DEF KindFits, ScalarKind, AnyKind, Moved
      <4>5. CASE k = n + 1 /\ Len(L[m]) = n + 1
        <5>1. kinds[k] = q
          BY ONLY <1>6, <1>8, <4>5
        <5> QED
          BY ONLY <1>12, <4>3, <5>1 DEF KindFits, ScalarKind, AnyKind, Moved
      <4> QED
        BY ONLY <4>2, <4>4, <4>5
    <3> QED
      BY ONLY <3>1 DEF NoneIn
  <2>2. NoneIn(Moved, View(framese).kinds)'
    BY ONLY <1>4, <1>5, <1>7, <2>1
  <2> QED
    BY ONLY <2>2, NotMovingNext, VInv', status' = "run"
<1>14. S[m] <= B[m] /\ s <= S[m]
  <2>1. S[m] = B[m] - View(m)'.loose /\ B[m] = framestack'[framese].asp
    <3>1. Room(m)' = framestack'[m].asp - View(m)'.loose
      BY ONLY <1>13 DEF Room
    <3> QED
      BY ONLY <1>5, <1>7, <3>1, m = framese
  <2>2. B[m] \in Int
    BY ONLY <1>5, <1>7 DEF FramesType
  <2>3. /\ LooseAfter(image, views, Frame.fn, IP) \in Int
        /\ s <= framestack'[framese].asp - LooseAfter(image, views, Frame.fn, IP)
    BY DEF StepStays
  <2> QED
    BY ONLY <1>6, <1>12, <2>1, <2>2, <2>3
<1> QED
  <2>1. LowerKept(m, V, K, A, R, W, L, B, S)
    BY ONLY <1>9, <1>13
  <2>2. StaysInFrame(m, n, V, K, A, R, W, L, B, S, s, v, q)
    BY ONLY <1>1, <1>2, <1>5, <1>10, <1>11, <1>12, <1>14, <2>1 DEF StaysInFrame
  <2> QED
    BY ONLY <1>4, <1>13, <2>2

(* What is said of the array stack is kept, ...                             *)
LEMMA StaysArrays ==
  ASSUME AInv, VInv', status = "run", status' = "run", Op # OP_RETURN,
         NEW t, NEW n, NEW kinds, NEW s, NEW v, NEW q,
         StepStays(t, n, kinds, s, v, q), ScalarElements'
  PROVE  Arrays'
<1>1. PICK m : m = framese
  OBVIOUS
<1>2. PICK V : V = Values
  OBVIOUS
<1>3. PICK K : K = Kinds
  OBVIOUS
<1>4. PICK A : A = Asps
  OBVIOUS
<1>5. PICK R : R = Rooms
  OBVIOUS
<1>6. PICK W : W = Values'
  OBVIOUS
<1>7. PICK L : L = Kinds'
  OBVIOUS
<1>8. PICK B : B = Asps'
  OBVIOUS
<1>9. PICK S : S = Rooms'
  OBVIOUS
<1>10. /\ ~Moving' /\ framese' = m
       /\ StaysInFrame(m, n, V, K, A, R, W, L, B, S, s, v, q)
  BY ONLY <1>1, <1>2, <1>3, <1>4, <1>5, <1>6, <1>7, <1>8, <1>9,
          StaysRelated, AInv, VInv', status = "run", status' = "run",
          Op # OP_RETURN, StepStays(t, n, kinds, s, v, q)
<1>11. FrameArrays'
  <2>1. /\ KindsIn(m, W, L) /\ RoomsIn(m, B, S) /\ VectorsIn(m, W, L, S)
        /\ TempsIn(m, m, W, L, B)
    BY ONLY <1>10, StaysKinds, StaysRooms, StaysVectors, StaysTemps
  <2>2. Last' = m
    BY ONLY <1>10 DEF Last
  <2>3. /\ KindsIn(framese', Values', Kinds') /\ RoomsIn(Last', Asps', Rooms')
        /\ VectorsIn(Last', Values', Kinds', Rooms')
        /\ TempsIn(Last', framese', Values', Kinds', Asps')
    BY ONLY <1>6, <1>7, <1>8, <1>9, <1>10, <2>1, <2>2
  <2> QED
    BY ONLY <2>3 DEF FrameArrays
<1>12. /\ VInv /\ m \in Nat /\ CallersAgree /\ BlindAbove /\ GlobalsAgree
  <2>1. VInv /\ CallersAgree /\ BlindAbove /\ GlobalsAgree
    BY DEF AInv, Arrays
  <2> QED
    BY ONLY <1>1, <2>1, InstructionViews, status = "run"
<1>13. /\ \A f \in 0 .. m - 1 :
            View(f)' = View(f) /\ ShapeOf(f)' = ShapeOf(f) /\ Blind(f)' = Blind(f)
       /\ \A f \in 0 .. m : /\ framestack'[f].fn = framestack[f].fn
                            /\ Blind(f)' = Blind(f)
  <2>1. OnFrame(t)
    BY DEF StepStays
  <2> QED
    BY ONLY <1>1, <1>12, <2>1, OnFrameViews, status = "run"
<1>14. CallersAgree'
  <2> SUFFICES ASSUME NEW f \in 0 .. m - 1
               PROVE  LET callee == views[framestack'[f + 1].fn]
                      IN  /\ KindFits(callee.gives, View(f)'.kinds[Len(ShapeOf(f)')])
                          /\ callee.gives = Temp => View(f)'.loose = 0
                          /\ ~callee.blind => View(f)'.args = callee.outs
                          /\ callee.reach <= Len(ShapeOf(f)')
    BY <1>10 DEF CallersAgree
  <2>1. f + 1 \in 0 .. m
    BY ONLY <1>12, f \in 0 .. m - 1
  <2>2. framestack'[f + 1].fn = framestack[f + 1].fn
    BY ONLY <1>13, <2>1
  <2> QED
    BY ONLY <1>1, <1>12, <1>13, <2>2, f \in 0 .. m - 1 DEF CallersAgree
<1>15. BlindAbove'
  <2> SUFFICES ASSUME NEW f \in 0 .. m, NEW g \in 0 .. m, f < g, ~Blind(g)'
               PROVE  ~Blind(f)' /\ NoneIn(Copied, View(f)'.kinds)
    BY <1>10 DEF BlindAbove
  <2>1. f \in 0 .. m - 1
    BY ONLY <1>12, f \in 0 .. m, g \in 0 .. m, f < g
  <2>2. ~Blind(g) /\ View(f)' = View(f) /\ Blind(f)' = Blind(f)
    BY ONLY <1>13, <2>1, g \in 0 .. m, ~Blind(g)'
  <2> QED
    BY ONLY <1>1, <1>12, <2>2, f \in 0 .. m, g \in 0 .. m, f < g DEF BlindAbove
<1>16. GlobalsAgree'
  <2> SUFFICES ASSUME m > 1
               PROVE  \A k \in 1 .. Len(views[2].held) :
                        IF views[2].held[k] = ScalarKind
                        THEN View(1)'.kinds[k] = ScalarKind
                        ELSE View(1)'.kinds[k] # Copied
    BY <1>10 DEF GlobalsAgree
  <2>1. 1 \in 0 .. m - 1
    BY ONLY <1>12, m > 1
  <2>2. View(1)' = View(1)
    BY ONLY <1>13, <2>1
  <2> QED
    BY ONLY <1>1, <1>12, <2>2, m > 1 DEF GlobalsAgree
<1>17. ResultMoved'
  BY ONLY <1>10 DEF ResultMoved
<1> QED
  BY ONLY <1>11, <1>14, <1>15, <1>16, <1>17, ScalarElements' DEF Arrays

(* ... the copies of arguments are where they were, ...                     *)
LEMMA StaysCopied ==
  ASSUME AInv, VInv', status = "run", status' = "run", Op # OP_RETURN,
         NEW t, NEW n, NEW kinds, NEW s, NEW v, NEW q,
         StepStays(t, n, kinds, s, v, q),
         CopiesIn(framese, Values, Kinds, argasp'),
         q = Copied => VecIn(v, argasp', StackMax)
  PROVE  CopiesIn(framese, Values, Kinds, argasp)'
<1>1. PICK m : m = framese
  OBVIOUS
<1>2. PICK V : V = Values
  OBVIOUS
<1>3. PICK K : K = Kinds
  OBVIOUS
<1>4. PICK A : A = Asps
  OBVIOUS
<1>5. PICK R : R = Rooms
  OBVIOUS
<1>6. PICK W : W = Values'
  OBVIOUS
<1>7. PICK L : L = Kinds'
  OBVIOUS
<1>8. PICK B : B = Asps'
  OBVIOUS
<1>9. PICK S : S = Rooms'
  OBVIOUS
<1>10. PICK low : low = argasp'
  OBVIOUS
<1>11. framese' = m /\ StaysInFrame(m, n, V, K, A, R, W, L, B, S, s, v, q)
  BY ONLY <1>1, <1>2, <1>3, <1>4, <1>5, <1>6, <1>7, <1>8, <1>9,
          StaysRelated, AInv, VInv', status = "run", status' = "run",
          Op # OP_RETURN, StepStays(t, n, kinds, s, v, q)
<1>12. CopiesIn(m, V, K, low) /\ (q = Copied => VecIn(v, low, StackMax))
  BY <1>1, <1>2, <1>3, <1>10
<1>13. CopiesIn(m, W, L, low)
  BY ONLY <1>11, <1>12, StaysCopies
<1> QED
  BY ONLY <1>6, <1>7, <1>10, <1>11, <1>13

(* ... and a step that leaves the argument stack alone keeps what is said   *)
(* of it.                                                                   *)
LEMMA StaysArguments ==
  ASSUME AInv, VInv', status = "run", status' = "run", Op # OP_RETURN,
         NEW t, NEW n, NEW kinds, NEW s, NEW v, NEW q,
         StepStays(t, n, kinds, s, v, q),
         UNCHANGED << argstack, argsp, argasp >>,
         ArgsAfter(image, views, Frame.fn, IP) = View(framese).args,
         q = Copied => VecIn(v, argasp, StackMax)
  PROVE  Arguments'
<1>1. VInv /\ ArgsAgree /\ CopiesIn(framese, Values, Kinds, argasp)
      /\ CopiesStacked /\ framese \in Nat
  BY InstructionViews DEF AInv, Arguments
<1>2. /\ t \in Targets(Fn(framese), IP) /\ OnFrame(t)
      /\ kinds = KindsAfter(image, views, Frame.fn, IP)
      /\ Len(kinds) = Len(After(image, Frame.fn, IP))
  BY DEF StepStays
<1>3. View(framese)'.args = View(framese).args
  BY ONLY <1>1, <1>2, AfterFits, status = "run",
          ArgsAfter(image, views, Frame.fn, IP) = View(framese).args
<1>4. /\ framese' = framese
      /\ \A f \in 0 .. framese - 1 : View(f)' = View(f)
      /\ \A f \in 0 .. framese : Blind(f)' = Blind(f)
  BY ONLY <1>1, <1>2, OnFrameViews, status = "run"
<1>5. CopiesIn(framese, Values, Kinds, argasp)'
  BY <1>1, StaysCopied
<1>6. CopiesStacked'
  BY <1>1 DEF CopiesStacked
<1>7. ASSUME NEW f \in 0 .. framese, ~Blind(f)', f = framese \/ Blind(f + 1)'
      PROVE  /\ argsp' = Len(View(f)'.args)
             /\ \A k \in 1 .. argsp' :
                  View(f)'.args[k] = 1 <=> argstack'[k - 1].t = "vec"
  <2>1. View(f)'.args = View(f).args
    <3>1. f = framese \/ f \in 0 .. framese - 1
      BY ONLY <1>1, f \in 0 .. framese
    <3> QED
      BY ONLY <1>3, <1>4, <3>1
  <2>2. ~Blind(f) /\ (f = framese \/ Blind(f + 1))
    <3>1. f = framese \/ f + 1 \in 0 .. framese
      BY ONLY <1>1, f \in 0 .. framese
    <3> QED
      BY ONLY <1>4, <1>7, <3>1
  <2>3. /\ argsp = Len(View(f).args)
        /\ \A k \in 1 .. argsp : View(f).args[k] = 1 <=> argstack[k - 1].t = "vec"
    BY ONLY <1>1, <2>2, f \in 0 .. framese DEF ArgsAgree
  <2> QED
    BY <2>1, <2>3
<1>8. ArgsAgree'
  BY <1>4, <1>7 DEF ArgsAgree
<1> QED
  BY ONLY <1>5, <1>6, <1>8 DEF Arguments
-----------------------------------------------------------------------------
(* What the views know after an instruction.                                *)

(* One value of a known kind is pushed, ...                                 *)
LEMMA KindsPushed ==
  ASSUME VInv, status = "run", NEW x, Pushes(image, Frame.fn, IP) = << x >>,
         Op \notin {OP_SET_LOCAL_LONG, OP_SHIFT_ASTACKENT_TO_BASE},
         NEW p \in Nat, Pops(Fn(framese), IP) = p, p <= Len(ShapeOf(framese)),
         NEW kinds, kinds = KindsAfter(image, views, Frame.fn, IP)
  PROVE  LET n == Len(ShapeOf(framese)) - p
         IN  /\ n \in Nat /\ Len(kinds) = n + 1
             /\ Len(kinds) = Len(After(image, Frame.fn, IP))
             /\ \A k \in 1 .. n : kinds[k] = View(framese).kinds[k]
             /\ kinds[n + 1] = PushedKind(image, views, Frame.fn, IP)
<1>1. /\ View(framese) = views[Frame.fn].at[IP]
      /\ Fn(framese) = image.fns[Frame.fn] /\ framese \in 0 .. framese
      /\ DInv
  BY InstructionViews DEF VInv
<1>2. PICK s : s = View(framese).kinds
  OBVIOUS
<1>3. PICK q : q = PushedKind(image, views, Frame.fn, IP)
  OBVIOUS
<1>4. PICK n : n = Len(ShapeOf(framese)) - p
  OBVIOUS
<1>5. s \in Seq(Int) /\ Len(s) = Len(ShapeOf(framese))
  BY ONLY ViewFacts, <1>1, <1>2, VInv, status = "run"
<1> DEFINE T == Int \cup {q}
<1>6. n \in Nat /\ n <= Len(s) /\ s \in Seq(T) /\ q \in T
      /\ n = Len(s) - p
  BY ONLY <1>4, <1>5, p \in Nat, p <= Len(ShapeOf(framese))
<1> HIDE DEF T
<1>7. kinds = SubSeq(s, 1, n) \o << q >>
  <2>1. /\ OpAt(image.fns[Frame.fn], IP) = Op
        /\ Pushes(image, Frame.fn, IP) # << >>
    BY SameInstruction
  <2> QED
    BY ONLY <1>1, <1>2, <1>3, <1>6, <2>1, Pops(Fn(framese), IP) = p,
            kinds = KindsAfter(image, views, Frame.fn, IP),
            Op \notin {OP_SET_LOCAL_LONG, OP_SHIFT_ASTACKENT_TO_BASE}
       DEF KindsAfter
<1>8. /\ SubSeq(s, 1, n) \in Seq(T) /\ Len(SubSeq(s, 1, n)) = n
      /\ \A k \in 1 .. n : SubSeq(s, 1, n)[k] = s[k]
  BY ONLY <1>6, TakenOff
<1>9. /\ Len(kinds) = n + 1 /\ kinds[n + 1] = q
      /\ \A k \in 1 .. n : kinds[k] = s[k]
  <2>1. PICK front : front = SubSeq(s, 1, n)
    OBVIOUS
  <2>2. kinds = front \o << q >> /\ front \in Seq(T) /\ Len(front) = n
        /\ \A k \in 1 .. n : front[k] = s[k]
    BY ONLY <1>7, <1>8, <2>1
  <2>3. /\ Len(front \o << q >>) = Len(front) + 1
        /\ \A k \in 1 .. Len(front) : (front \o << q >>)[k] = front[k]
        /\ (front \o << q >>)[Len(front) + 1] = q
    BY ONLY <1>6, <2>2, PushedOn
  <2> QED
    BY ONLY <2>2, <2>3
<1>10. Len(After(image, Frame.fn, IP)) = n + 1
  <2>1. PICK after : after = After(image, Frame.fn, IP)
    OBVIOUS
  <2>2. Len(after) = Len(ShapeOf(framese)) - p + 1
    BY ONLY <1>1, <2>1, AfterPush, status = "run", p \in Nat,
            Pushes(image, Frame.fn, IP) = << x >>, Pops(Fn(framese), IP) = p,
            p <= Len(ShapeOf(framese))
  <2> QED
    BY ONLY <1>4, <2>1, <2>2
<1> QED
  BY ONLY <1>2, <1>3, <1>4, <1>6, <1>9, <1>10

(* ... or none.                                                             *)
LEMMA KindsDropped ==
  ASSUME VInv, status = "run", Pushes(image, Frame.fn, IP) = << >>,
         Op \notin {OP_SET_LOCAL_LONG, OP_SHIFT_ASTACKENT_TO_BASE},
         NEW p \in Nat, Pops(Fn(framese), IP) = p, p <= Len(ShapeOf(framese)),
         NEW kinds, kinds = KindsAfter(image, views, Frame.fn, IP)
  PROVE  LET n == Len(ShapeOf(framese)) - p
         IN  /\ n \in Nat /\ Len(kinds) = n
             /\ Len(kinds) = Len(After(image, Frame.fn, IP))
             /\ \A k \in 1 .. n : kinds[k] = View(framese).kinds[k]
<1>1. /\ View(framese) = views[Frame.fn].at[IP]
      /\ Fn(framese) = image.fns[Frame.fn] /\ framese \in 0 .. framese
      /\ DInv
  BY InstructionViews DEF VInv
<1>2. PICK s : s = View(framese).kinds
  OBVIOUS
<1>4. PICK n : n = Len(ShapeOf(framese)) - p
  OBVIOUS
<1>5. s \in Seq(Int) /\ Len(s) = Len(ShapeOf(framese))
  BY ONLY ViewFacts, <1>1, <1>2, VInv, status = "run"
<1>6. n \in Nat /\ n <= Len(s) /\ n = Len(s) - p
  BY ONLY <1>4, <1>5, p \in Nat, p <= Len(ShapeOf(framese))
<1>7. kinds = SubSeq(s, 1, n)
  <2>1. OpAt(image.fns[Frame.fn], IP) = Op
    BY SameInstruction
  <2> QED
    BY ONLY <1>1, <1>2, <1>6, <2>1, Pops(Fn(framese), IP) = p,
            Pushes(image, Frame.fn, IP) = << >>,
            kinds = KindsAfter(image, views, Frame.fn, IP),
            Op \notin {OP_SET_LOCAL_LONG, OP_SHIFT_ASTACKENT_TO_BASE}
       DEF KindsAfter
<1>8. Len(kinds) = n /\ \A k \in 1 .. n : kinds[k] = s[k]
  BY ONLY <1>5, <1>6, <1>7, TakenOff
<1>9. Len(After(image, Frame.fn, IP)) = n
  BY <1>1, <1>4, AfterDrop
<1> QED
  BY ONLY <1>2, <1>4, <1>6, <1>8, <1>9

(* Most instructions leave the loose cells and the argument stack alone.    *)
LEMMA SameAfter ==
  ASSUME VInv, status = "run"
  PROVE  /\ Op \notin {OP_POP_TO_ASTACK, OP_ASTACK_SHIFT_UP, OP_LOC_ALINK_LONG,
                       OP_GET_INDEX, OP_CALL} =>
              LooseAfter(image, views, Frame.fn, IP) = View(framese).loose
         /\ Op \notin {OP_ARGSTACK_LOAD, OP_ARGSTACK_UNLOAD, OP_CALL} =>
              ArgsAfter(image, views, Frame.fn, IP) = View(framese).args
<1>1. /\ OpAt(image.fns[Frame.fn], IP) = Op
      /\ View(framese) = views[Frame.fn].at[IP]
  BY SameInstruction, InstructionViews
<1>2. ASSUME Op \notin {OP_POP_TO_ASTACK, OP_ASTACK_SHIFT_UP, OP_LOC_ALINK_LONG,
                        OP_GET_INDEX, OP_CALL}
      PROVE  LooseAfter(image, views, Frame.fn, IP) = View(framese).loose
  BY ONLY <1>1, <1>2 DEF LooseAfter
<1>3. ASSUME Op \notin {OP_ARGSTACK_LOAD, OP_ARGSTACK_UNLOAD, OP_CALL}
      PROVE  ArgsAfter(image, views, Frame.fn, IP) = View(framese).args
  BY ONLY <1>1, <1>3 DEF ArgsAfter
<1> QED
  BY <1>2, <1>3

LEMMA OtherAfter ==
  ASSUME VInv, status = "run"
  PROVE  /\ Op = OP_POP_TO_ASTACK =>
              LooseAfter(image, views, Frame.fn, IP) = View(framese).loose + 1
         /\ Op = OP_ASTACK_SHIFT_UP =>
              LooseAfter(image, views, Frame.fn, IP) =
                View(framese).loose + View(framese).kinds[Len(View(framese).kinds)]
         /\ Op \in {OP_LOC_ALINK_LONG, OP_GET_INDEX, OP_CALL} =>
              LooseAfter(image, views, Frame.fn, IP) =
                IF PushedKind(image, views, Frame.fn, IP) = Temp THEN 0
                ELSE View(framese).loose
         /\ Op = OP_ARGSTACK_LOAD =>
              ArgsAfter(image, views, Frame.fn, IP) =
                Append(View(framese).args, Arg(2))
         /\ Op = OP_ARGSTACK_UNLOAD =>
              ArgsAfter(image, views, Frame.fn, IP) =
                SubSeq(View(framese).args, 1, Len(View(framese).args) - 1)
<1>1. /\ OpAt(image.fns[Frame.fn], IP) = Op
      /\ ArgAt(image.fns[Frame.fn], IP, 2) = Arg(2)
      /\ View(framese) = views[Frame.fn].at[IP]
  BY SameInstruction, InstructionViews
<1>2. /\ OP_ASTACK_SHIFT_UP # OP_POP_TO_ASTACK
      /\ OP_POP_TO_ASTACK \notin {OP_LOC_ALINK_LONG, OP_GET_INDEX, OP_CALL}
      /\ OP_ASTACK_SHIFT_UP \notin {OP_LOC_ALINK_LONG, OP_GET_INDEX, OP_CALL}
      /\ OP_ARGSTACK_UNLOAD # OP_ARGSTACK_LOAD
  BY DEF OP_ASTACK_SHIFT_UP, OP_POP_TO_ASTACK, OP_LOC_ALINK_LONG,
         OP_GET_INDEX, OP_CALL, OP_ARGSTACK_UNLOAD, OP_ARGSTACK_LOAD
<1>3. /\ Op = OP_POP_TO_ASTACK =>
           LooseAfter(image, views, Frame.fn, IP) = View(framese).loose + 1
      /\ Op = OP_ASTACK_SHIFT_UP =>
           LooseAfter(image, views, Frame.fn, IP) =
             View(framese).loose + View(framese).kinds[Len(View(framese).kinds)]
  BY ONLY <1>1, <1>2, Zenon DEF LooseAfter
<1>4. Op \in {OP_LOC_ALINK_LONG, OP_GET_INDEX, OP_CALL} =>
        LooseAfter(image, views, Frame.fn, IP) =
          IF PushedKind(image, views, Frame.fn, IP) = Temp THEN 0
          ELSE View(framese).loose
  BY ONLY <1>1, <1>2 DEF LooseAfter
<1>5. /\ Op = OP_ARGSTACK_LOAD =>
           ArgsAfter(image, views, Frame.fn, IP) =
             Append(View(framese).args, Arg(2))
      /\ Op = OP_ARGSTACK_UNLOAD =>
           ArgsAfter(image, views, Frame.fn, IP) =
             SubSeq(View(framese).args, 1, Len(View(framese).args) - 1)
  BY ONLY <1>1, <1>2, Zenon DEF ArgsAfter
<1> QED
  BY ONLY <1>3, <1>4, <1>5

(* What a frame holds ends where its loose cells begin.                     *)
LEMMA RoomAbove ==
  ASSUME AInv, status = "run", Op # OP_RETURN,
         NEW n \in Nat, n <= Len(ShapeOf(framese)),
         NEW s \in Int, s >= ASP - View(framese).loose
  PROVE  RoomLeft(framese, n, Values, Kinds, Asps, s)
<1>1. PICK m : m = framese
  OBVIOUS
<1>2. PICK V : V = Values
  OBVIOUS
<1>3. PICK K : K = Kinds
  OBVIOUS
<1>4. PICK A : A = Asps
  OBVIOUS
<1>5. PICK R : R = Rooms
  OBVIOUS
<1>6. /\ FramesType(m, V, K, A, R) /\ RoomsIn(m, A, R) /\ VectorsIn(m, V, K, R)
      /\ Len(K[m]) = Len(ShapeOf(framese))
      /\ R[m] = ASP - View(framese).loose /\ m \in 0 .. m
  <2>1. FramesTyped /\ VInv
    BY CalmFacts
  <2>2. m \in 0 .. m
    BY ONLY InstructionViews, <1>1, <2>1, status = "run"
  <2>3. FramesType(m, V, K, A, R) /\ Len(K[m]) = Len(ShapeOf(framese))
    BY ONLY <1>1, <1>2, <1>3, <1>4, <1>5, <2>1, <2>2 DEF FramesTyped
  <2>4. R[m] = framestack[m].asp - View(m).loose
    BY <1>1, <1>5, <2>2, CalmFacts
  <2>5. RoomsIn(m, A, R) /\ VectorsIn(m, V, K, R)
    BY <1>1, <1>2, <1>3, <1>4, <1>5, CalmFacts
  <2> QED
    BY <1>1, <2>2, <2>3, <2>4, <2>5 DEF ASP, Frame
<1>7. /\ m \in Nat /\ V \in [0 .. m -> Seq(Value)] /\ K \in [0 .. m -> Seq(Int)]
      /\ A \in [0 .. m -> Int] /\ R \in [0 .. m -> Int]
      /\ Len(V[m]) = Len(K[m])
  BY ONLY <1>6 DEF FramesType
<1>8. R[m] \in Int /\ R[m] <= s /\ 0 <= R[m] /\ \A g \in 0 .. m - 1 : A[g] <= R[m]
  BY ONLY <1>6, <1>7, s >= ASP - View(framese).loose DEF RoomsIn
<1>9. ASSUME NEW g \in 0 .. m - 1
      PROVE  A[g] <= s
  <2>1. g \in 0 .. m
    BY ONLY <1>7, g \in 0 .. m - 1
  <2>2. A[g] \in Int /\ A[g] <= R[m]
    BY ONLY <1>7, <1>8, <2>1, g \in 0 .. m - 1
  <2> QED
    BY ONLY <1>8, <2>2, s \in Int
<1>10. ASSUME NEW k \in 1 .. n, Lower(V[m][k], K[m][k])
       PROVE  V[m][k].i + V[m][k].n <= s
  <2>1. k \in 1 .. Len(K[m]) /\ K[m] \in Seq(Int) /\ V[m] \in Seq(Value)
    <3>1. K[m] \in Seq(Int) /\ V[m] \in Seq(Value)
      BY ONLY <1>6, <1>7
    <3>2. Len(K[m]) \in Nat
      BY ONLY <3>1
    <3> QED
      BY ONLY <1>6, <3>1, <3>2, n \in Nat, n <= Len(ShapeOf(framese)), k \in 1 .. n
  <2>2. V[m][k] \in Value
    BY ONLY <1>7, <2>1, ElementOf
  <2>3. V[m][k].i \in Int /\ V[m][k].n \in Int
    BY ONLY <2>2, ValueFields
  <2>4. VecIn(V[m][k], 0, R[m])
    BY ONLY <1>6, <1>10, <2>1 DEF VectorsIn
  <2>5. V[m][k].i + V[m][k].n <= R[m]
    BY ONLY <2>4 DEF VecIn
  <2> QED
    BY ONLY <1>8, <2>3, <2>5, s \in Int
<1>11. 0 <= s
  BY ONLY <1>8, s \in Int
<1> QED
  BY ONLY <1>1, <1>2, <1>3, <1>4, <1>9, <1>10, <1>11 DEF RoomLeft

(* Only scalars and junk are free of the array stack.                       *)
LEMMA ScalarPushable ==
  ASSUME NEW q \in Int, IsScalar(q), NEW v \in Value, KindHeld(v, q),
         NEW m, NEW n, NEW V, NEW K, NEW A, NEW s
  PROVE  Pushable(m, n, V, K, A, s, v, q)
<1>1. v.t # "vec" /\ q # Moved /\ q # Temp
  BY DEF IsScalar, KindHeld, ScalarKind, Moved, Temp
<1>2. ~Lower(v, q)
  BY ONLY <1>1 DEF Lower
<1> QED
  BY ONLY <1>1, <1>2, v \in Value, KindHeld(v, q) DEF Pushable

(* The current frame is resumed.                                            *)
LEMMA ResumeOnFrame ==
  ASSUME VInv, status = "run", UNCHANGED << image, framese >>,
         NEW ip, NEW sp, NEW asp, Resume(ip, sp, asp)
  PROVE  OnFrame(ip) /\ framestack'[framese].asp = asp
<1>1. TypeOK /\ framestack \in [FrameIndex -> FrameType] /\ framese \in FrameIndex
  BY DEF VInv, DInv, IInv, TypeOK
<1>2. /\ \A f \in 0 .. framese - 1 : framestack'[f] = framestack[f]
      /\ \A f \in 0 .. framese : /\ framestack'[f].fn = framestack[f].fn
                                 /\ framestack'[f].base = framestack[f].base
      /\ framestack'[framese].ip = ip
  BY <1>1, ResumeMoves
<1>3. framese \in 0 .. framese
  BY InstructionViews
<1>4. framestack'[framese].asp = asp
  BY ONLY <1>1, Resume(ip, sp, asp) DEF Resume, FrameType
<1> QED
  BY <1>2, <1>3, <1>4 DEF OnFrame, Frame

(* What is pushed is on top of what remains.                                *)
LEMMA PushWorks ==
  ASSUME AInv, status = "run", UNCHANGED << image, framese >>, Op # OP_RETURN,
         NEW p \in Nat, NEW x, Effect(p, << x >>), p <= Len(ShapeOf(framese)),
         NEW n, n = Len(ShapeOf(framese)) - p,
         NEW cell, cell = SP - p, cell < StackMax,
         NEW asp \in Int, Resume(NextIP, cell + 1, asp),
         NEW v, stack' = [stack EXCEPT ![cell] = v],
         NEW q \in Int, q = PushedKind(image, views, Frame.fn, IP),
         NEW s \in Int, NEW l \in Int, l = LooseAfter(image, views, Frame.fn, IP),
         s <= asp - l,
         RoomLeft(framese, n, Values, Kinds, Asps, s),
         Pushable(framese, n, Values, Kinds, Asps, s, v, q)
  PROVE  StepStays(NextIP, n, KindsAfter(image, views, Frame.fn, IP), s, v, q)
<1>1. VInv /\ DInv
  BY DEF AInv, VInv
<1>2. PICK kinds : kinds = KindsAfter(image, views, Frame.fn, IP)
  OBVIOUS
<1>3. /\ Pops(Fn(framese), IP) = p /\ Pushes(image, Frame.fn, IP) = << x >>
      /\ NextIP \in Targets(Fn(framese), IP)
  BY DEF Effect
<1>4. Op \notin {OP_SET_LOCAL_LONG, OP_SHIFT_ASTACKENT_TO_BASE}
  <2>1. << x >> # << >>
    OBVIOUS
  <2>2. Op \notin DropOps /\ Op \notin Stays
    BY ONLY Effects, <1>3, <2>1 DEF Effect
  <2> QED
    BY ONLY <2>2 DEF DropOps, Stays
<1>5. /\ n \in Nat /\ Len(kinds) = n + 1
      /\ Len(kinds) = Len(After(image, Frame.fn, IP))
      /\ \A k \in 1 .. n : kinds[k] = View(framese).kinds[k]
      /\ kinds[n + 1] = q
  BY ONLY <1>1, <1>2, <1>3, <1>4, KindsPushed, status = "run", p \in Nat,
          p <= Len(ShapeOf(framese)), n = Len(ShapeOf(framese)) - p,
          q = PushedKind(image, views, Frame.fn, IP)
<1>6. OnFrame(NextIP) /\ framestack'[framese].asp = asp
  BY ONLY <1>1, ResumeOnFrame, status = "run", UNCHANGED << image, framese >>,
          Resume(NextIP, cell + 1, asp)
<1>7. /\ Frame.base \in Nat /\ Len(ShapeOf(framese)) \in Nat
      /\ SP = Frame.base + Len(ShapeOf(framese)) /\ SP <= StackMax
      /\ stack \in [CellIndex -> Value]
  <2>1. stack \in [CellIndex -> Value]
    BY ONLY <1>1 DEF DInv, IInv, TypeOK
  <2> QED
    BY ONLY <1>1, <2>1, CurrentFacts, status = "run"
<1>8. cell = Frame.base + n /\ cell \in CellIndex /\ n <= Len(ShapeOf(framese))
  <2>1. PICK len : len = Len(ShapeOf(framese))
    OBVIOUS
  <2>2. PICK sp : sp = SP
    OBVIOUS
  <2>3. PICK b : b = Frame.base
    OBVIOUS
  <2>4. /\ b \in Nat /\ len \in Nat /\ sp = b + len /\ n \in Nat
        /\ n = len - p /\ cell = sp - p
    BY ONLY <1>5, <1>7, <2>1, <2>2, <2>3, n = Len(ShapeOf(framese)) - p,
            cell = SP - p
  <2>5. cell = b + n /\ n <= len /\ cell \in Nat /\ cell < StackMax
    BY ONLY <2>4, p \in Nat, cell < StackMax
  <2>6. cell \in CellIndex
    BY ONLY <2>5, SizesAssumption DEF CellIndex
  <2> QED
    BY ONLY <2>1, <2>3, <2>5, <2>6
<1>9. stack'[Frame.base + n] = v /\ \A c : c # cell => stack'[c] = stack[c]
  <2>1. stack'[cell] = v /\ \A c : c # cell => stack'[c] = stack[c]
    BY ONLY <1>7, <1>8, stack' = [stack EXCEPT ![cell] = v]
  <2> QED
    BY ONLY <1>8, <2>1
<1>10. \A k \in 1 .. n :
         stack'[Frame.base + k - 1] = stack[Frame.base + k - 1]
  <2> SUFFICES ASSUME NEW k \in 1 .. n
               PROVE  stack'[Frame.base + k - 1] = stack[Frame.base + k - 1]
    OBVIOUS
  <2>1. Frame.base + k - 1 # cell
    <3>1. cell = Frame.base + n /\ Frame.base \in Nat /\ n \in Nat
      BY ONLY <1>5, <1>7, <1>8
    <3> QED
      BY ONLY <3>1, k \in 1 .. n
  <2> QED
    BY ONLY <1>9, <2>1
<1>11. \A f \in 0 .. framese - 1 : \A k \in 1 .. Len(ShapeOf(f)) :
         Kept(stack[framestack[f].base + k - 1],
              stack'[framestack[f].base + k - 1], View(f).kinds[k])
  <2> SUFFICES ASSUME NEW f \in 0 .. framese - 1, NEW k \in 1 .. Len(ShapeOf(f))
               PROVE  stack'[framestack[f].base + k - 1] =
                        stack[framestack[f].base + k - 1]
    BY DEF Kept
  <2>1. /\ framestack[f].base + k - 1 \in CellIndex
        /\ framestack[f].base + k - 1 < Frame.base
    BY ONLY Below, <1>1, status = "run", f \in 0 .. framese - 1,
            k \in 1 .. Len(ShapeOf(f))
  <2>2. framestack[f].base + k - 1 # cell
    BY ONLY <1>5, <1>7, <1>8, <2>1 DEF CellIndex
  <2> QED
    BY ONLY <1>9, <2>2
<1>12. l = LooseAfter(image, views, Frame.fn, IP)
       /\ s <= framestack'[framese].asp - l
  BY ONLY <1>6, s <= asp - l, l = LooseAfter(image, views, Frame.fn, IP)
<1>13. Len(kinds) \in {n, n + 1} /\ n <= Len(ShapeOf(framese))
  BY ONLY <1>5, <1>8
<1> QED
  BY ONLY <1>2, <1>3, <1>5, <1>6, <1>9, <1>10, <1>11, <1>12, <1>13,
          s \in Int, l \in Int, q \in Int,
          RoomLeft(framese, n, Values, Kinds, Asps, s),
          Pushable(framese, n, Values, Kinds, Asps, s, v, q) DEF StepStays

(* Nothing is pushed, and what remains is as it was.                        *)
LEMMA DropWorks ==
  ASSUME AInv, status = "run", UNCHANGED << image, framese, stack >>,
         Op # OP_RETURN,
         Op \notin {OP_SET_LOCAL_LONG, OP_SHIFT_ASTACKENT_TO_BASE},
         Pushes(image, Frame.fn, IP) = << >>,
         NEW t \in Targets(Fn(framese), IP),
         NEW p \in Nat, Pops(Fn(framese), IP) = p, p <= Len(ShapeOf(framese)),
         NEW n, n = Len(ShapeOf(framese)) - p,
         NEW sp, NEW asp \in Int, Resume(t, sp, asp),
         NEW s \in Int, NEW l \in Int, l = LooseAfter(image, views, Frame.fn, IP),
         s <= asp - l,
         RoomLeft(framese, n, Values, Kinds, Asps, s)
  PROVE  StepStays(t, n, KindsAfter(image, views, Frame.fn, IP), s, Junk,
                   ScalarKind)
<1>1. VInv /\ DInv
  BY DEF AInv, VInv
<1>2. PICK kinds : kinds = KindsAfter(image, views, Frame.fn, IP)
  OBVIOUS
<1>3. /\ n \in Nat /\ Len(kinds) = n
      /\ Len(kinds) = Len(After(image, Frame.fn, IP))
      /\ \A k \in 1 .. n : kinds[k] = View(framese).kinds[k]
  BY ONLY <1>1, <1>2, KindsDropped, status = "run", p \in Nat,
          Pushes(image, Frame.fn, IP) = << >>, Pops(Fn(framese), IP) = p,
          Op \notin {OP_SET_LOCAL_LONG, OP_SHIFT_ASTACKENT_TO_BASE},
          p <= Len(ShapeOf(framese)), n = Len(ShapeOf(framese)) - p
<1>4. OnFrame(t) /\ framestack'[framese].asp = asp
  BY ONLY <1>1, ResumeOnFrame, status = "run",
          UNCHANGED << image, framese, stack >>, Resume(t, sp, asp)
<1>5. n <= Len(ShapeOf(framese))
  <2>1. Len(ShapeOf(framese)) \in Nat
    BY ONLY <1>1, CurrentFacts, status = "run"
  <2> QED
    BY ONLY <2>1, p \in Nat, n = Len(ShapeOf(framese)) - p
<1>6. l = LooseAfter(image, views, Frame.fn, IP)
      /\ s <= framestack'[framese].asp - l
  BY ONLY <1>4, s <= asp - l, l = LooseAfter(image, views, Frame.fn, IP)
<1>7. /\ Len(kinds) \in {n, n + 1} /\ Len(kinds) # n + 1
      /\ ScalarKind \in Int
  BY ONLY <1>3 DEF ScalarKind
<1>8. Pushable(framese, n, Values, Kinds, Asps, s, Junk, ScalarKind)
  <2>1. Junk \in Value /\ KindHeld(Junk, ScalarKind) /\ IsScalar(ScalarKind)
    BY MakingValues DEF Junk, KindHeld, IsScalar, ScalarKind, Temp, Copied, Moved
  <2> QED
    BY ONLY <1>7, <2>1, ScalarPushable
<1>9. \A f \in 0 .. framese - 1 : \A k \in 1 .. Len(ShapeOf(f)) :
         Kept(stack[framestack[f].base + k - 1],
              stack'[framestack[f].base + k - 1], View(f).kinds[k])
  BY DEF Kept
<1>10. \A k \in 1 .. n : stack'[Frame.base + k - 1] = stack[Frame.base + k - 1]
  OBVIOUS
<1> QED
  BY ONLY <1>2, <1>3, <1>4, <1>5, <1>6, <1>7, <1>8, <1>9, <1>10,
          s \in Int, l \in Int, t \in Targets(Fn(framese), IP),
          RoomLeft(framese, n, Values, Kinds, Asps, s) DEF StepStays

(* Elements stay scalars where none is written, ...                         *)
LEMMA SameElements ==
  AInv /\ status = "run" /\ UNCHANGED astack => ScalarElements'
BY DEF AInv, Arrays, ScalarElements

(* ... and where some are copied.                                           *)
LEMMA CopiedElements ==
  ASSUME AInv, status = "run", NEW dst, NEW src, NEW n,
         astack' = CopyCells(astack, dst, src, n)
  PROVE  ScalarElements'
<1>1. /\ astack \in [CellIndex -> Value]
      /\ \A c \in CellIndex : astack[c].t # "vec"
  BY DEF AInv, VInv, DInv, IInv, TypeOK, Arrays, ScalarElements
<1>2. \A a : Cell(astack, a).t # "vec"
  BY ONLY <1>1 DEF Cell, Junk
<1>3. ASSUME NEW c \in CellIndex
      PROVE  astack'[c].t # "vec"
  <2>1. astack'[c] = astack[c] \/ \E a : astack'[c] = Cell(astack, a)
    BY <1>1 DEF CopyCells
  <2> QED
    BY ONLY <1>1, <1>2, <2>1, c \in CellIndex
<1> QED
  BY <1>3 DEF ScalarElements, CellIndex

(* What follows for a handler that leaves the argument stack alone.         *)
LEMMA StaysAll ==
  ASSUME AInv, VInv', status = "run", status' = "run", Op # OP_RETURN,
         NEW t, NEW n, NEW kinds, NEW s, NEW v, NEW q,
         StepStays(t, n, kinds, s, v, q), ScalarElements',
         UNCHANGED << argstack, argsp, argasp >>,
         ArgsAfter(image, views, Frame.fn, IP) = View(framese).args,
         q = Copied => VecIn(v, argasp, StackMax)
  PROVE  Arrays' /\ Arguments'
BY StaysArrays, StaysArguments

(* The numbers of the current frame.                                        *)
LEMMA Current ==
  ASSUME AInv, status = "run"
  PROVE  /\ ASP \in Int /\ ASP <= StackMax /\ SP \in Int /\ Frame.base \in Nat
         /\ View(framese).loose \in Nat /\ Len(ShapeOf(framese)) \in Nat
         /\ SP = Frame.base + Len(ShapeOf(framese)) /\ SP <= StackMax
         /\ View(framese).kinds \in Seq(Int)
         /\ Len(View(framese).kinds) = Len(ShapeOf(framese))
         /\ \A k \in 1 .. Len(ShapeOf(framese)) : View(framese).kinds[k] >= Moved
         /\ View(framese).args \in Seq({0, 1})
         /\ View(framese) = views[Frame.fn].at[IP]
         /\ \A k : Slot(k) \in Value /\ peekv(k) \in Value
<1>1. VInv /\ DInv /\ IInv /\ TypeOK
  BY DEF AInv, VInv, DInv, IInv
<1>2. framese \in 0 .. framese /\ View(framese) = views[Frame.fn].at[IP]
  BY ONLY <1>1, InstructionViews, status = "run"
<1> QED
  BY ONLY <1>1, <1>2, FrameFacts, ViewFacts, CurrentFacts, RunningFacts,
          status = "run"

LEMMA PushStays ==
  ASSUME AInv, VInv', status = "run", status' = "run", UNCHANGED image,
         Op \notin Peeks,
         Op \notin {OP_POP_TO_ASTACK, OP_ASTACK_SHIFT_UP, OP_LOC_ALINK_LONG,
                    OP_GET_INDEX, OP_CALL, OP_ARGSTACK_LOAD, OP_ARGSTACK_UNLOAD},
         NEW p \in Nat, NEW x, Effect(p, << x >>),
         NEW v, pushv(NextIP, SP - p, ASP, v),
         NEW q \in Int, q = PushedKind(image, views, Frame.fn, IP),
         Pushable(framese, Len(ShapeOf(framese)) - p, Values, Kinds, Asps,
                  ASP - View(framese).loose, v, q),
         q = Copied => VecIn(v, argasp, StackMax)
  PROVE  Arrays' /\ Arguments'
<1>1. ~(SP - p < 0) /\ ~(SP - p >= StackMax)
  BY DEF pushv, Wild
<1>2. /\ UNCHANGED << framese, astack, argstack, argsp, argasp >>
      /\ Resume(NextIP, SP - p + 1, ASP)
      /\ stack' = [stack EXCEPT ![SP - p] = v]
  BY <1>1 DEF pushv
<1>3. VInv /\ DInv
  BY DEF AInv, VInv
<1>4. Op # OP_RETURN
  BY DEF Peeks
<1>5. PICK n : n = Len(ShapeOf(framese)) - p
  OBVIOUS
<1>6. PICK l : l = View(framese).loose
  OBVIOUS
<1>7. PICK cell : cell = SP - p
  OBVIOUS
<1>8. PICK s : s = ASP - l
  OBVIOUS
<1>9. /\ l = LooseAfter(image, views, Frame.fn, IP)
      /\ ArgsAfter(image, views, Frame.fn, IP) = View(framese).args
  BY <1>3, <1>6, SameAfter
<1>10. p <= Len(ShapeOf(framese))
  BY <1>3, EnoughThere DEF Effect
<1>11. /\ ASP \in Int /\ SP \in Int /\ l \in Int /\ Len(ShapeOf(framese)) \in Nat
  BY ONLY Current, AInv, status = "run", <1>6
<1>12. s \in Int /\ s <= ASP - l /\ cell < StackMax /\ s >= ASP - l
  BY ONLY <1>1, <1>7, <1>8, <1>11, p \in Nat, SizesAssumption
<1>13. n \in Nat /\ n <= Len(ShapeOf(framese))
  BY ONLY <1>5, <1>10, <1>11, p \in Nat
<1>14. RoomLeft(framese, n, Values, Kinds, Asps, s)
  BY ONLY RoomAbove, AInv, status = "run", <1>4, <1>6, <1>12, <1>13
<1>15. Pushable(framese, n, Values, Kinds, Asps, s, v, q)
  BY <1>5, <1>6, <1>8
<1>16. UNCHANGED << image, framese >> /\ Resume(NextIP, cell + 1, ASP)
       /\ stack' = [stack EXCEPT ![cell] = v]
  BY ONLY <1>2, <1>7, UNCHANGED image
<1>17. StepStays(NextIP, n, KindsAfter(image, views, Frame.fn, IP), s, v, q)
  BY ONLY PushWorks, AInv, status = "run", <1>4, <1>5, <1>7, <1>9, <1>10,
          <1>11, <1>12, <1>14, <1>15, <1>16, p \in Nat, Effect(p, << x >>),
          q \in Int, q = PushedKind(image, views, Frame.fn, IP)
<1>18. ScalarElements'
  BY <1>2, SameElements
<1> QED
  BY <1>2, <1>4, <1>9, <1>17, <1>18, StaysAll

(* A handler that pushes a scalar.                                          *)
LEMMA ScalarStays ==
  ASSUME AInv, VInv', status = "run", status' = "run", UNCHANGED image,
         Op \notin Peeks,
         Op \notin {OP_POP_TO_ASTACK, OP_ASTACK_SHIFT_UP, OP_LOC_ALINK_LONG,
                    OP_GET_INDEX, OP_CALL, OP_ARGSTACK_LOAD, OP_ARGSTACK_UNLOAD},
         NEW p \in Nat, NEW x, Effect(p, << x >>),
         NEW v \in Value, pushv(NextIP, SP - p, ASP, v),
         NEW q \in Int, q = PushedKind(image, views, Frame.fn, IP),
         IsScalar(q), KindHeld(v, q)
  PROVE  Arrays' /\ Arguments'
<1>1. Pushable(framese, Len(ShapeOf(framese)) - p, Values, Kinds, Asps,
               ASP - View(framese).loose, v, q)
  BY ScalarPushable
<1>2. q # Copied
  BY DEF IsScalar, ScalarKind, Copied
<1> QED
  BY <1>1, <1>2, PushStays

(* A handler that takes p values off and leaves the array stack as it is.   *)
LEMMA DropStays ==
  ASSUME AInv, VInv', status = "run", status' = "run", UNCHANGED image,
         UNCHANGED << framese, stack, argstack, argsp, argasp >>,
         ScalarElements',
         Op # OP_RETURN,
         Op \notin {OP_SET_LOCAL_LONG, OP_SHIFT_ASTACKENT_TO_BASE,
                    OP_CALL, OP_ARGSTACK_LOAD, OP_ARGSTACK_UNLOAD},
         Pushes(image, Frame.fn, IP) = << >>,
         NEW t \in Targets(Fn(framese), IP),
         NEW p \in Nat, Pops(Fn(framese), IP) = p, p <= Len(ShapeOf(framese)),
         NEW sp, NEW asp \in Int, Resume(t, sp, asp),
         NEW l \in Int, l = LooseAfter(image, views, Frame.fn, IP),
         asp - l >= ASP - View(framese).loose
  PROVE  Arrays' /\ Arguments'
<1>1. VInv
  BY DEF AInv
<1>2. PICK n : n = Len(ShapeOf(framese)) - p
  OBVIOUS
<1>3. PICK s : s = asp - l
  OBVIOUS
<1>4. s \in Int /\ s <= asp - l /\ s >= ASP - View(framese).loose
  BY ONLY <1>3, asp \in Int, l \in Int, asp - l >= ASP - View(framese).loose
<1>5. n \in Nat /\ n <= Len(ShapeOf(framese))
  <2>1. Len(ShapeOf(framese)) \in Nat
    BY Current
  <2> QED
    BY ONLY <1>2, <2>1, p \in Nat, p <= Len(ShapeOf(framese))
<1>6. RoomLeft(framese, n, Values, Kinds, Asps, s)
  BY ONLY RoomAbove, AInv, status = "run", Op # OP_RETURN, <1>4, <1>5
<1>7. StepStays(t, n, KindsAfter(image, views, Frame.fn, IP), s, Junk, ScalarKind)
  <2>1. UNCHANGED << image, framese, stack >>
    OBVIOUS
  <2>2. Op \notin {OP_SET_LOCAL_LONG, OP_SHIFT_ASTACKENT_TO_BASE}
    OBVIOUS
  <2> QED
    BY ONLY DropWorks, AInv, status = "run", <1>2, <1>4, <1>6, <2>1, <2>2,
            Op # OP_RETURN, Pushes(image, Frame.fn, IP) = << >>,
            t \in Targets(Fn(framese), IP), p \in Nat,
            Pops(Fn(framese), IP) = p, p <= Len(ShapeOf(framese)),
            asp \in Int, Resume(t, sp, asp), l \in Int,
            l = LooseAfter(image, views, Frame.fn, IP)
<1>8. ArgsAfter(image, views, Frame.fn, IP) = View(framese).args
  BY <1>1, SameAfter
<1>9. ScalarKind # Copied
  BY DEF ScalarKind, Copied
<1> QED
  BY <1>7, <1>8, <1>9, StaysAll

(* The kinds that are pushed.                                               *)
LEMMA PushedKinds ==
  LET kind == PushedKind(image, views, Frame.fn, IP)
      view == views[Frame.fn].at[IP]
      fn   == image.fns[Frame.fn]
      s    == fn.shape[IP]
  IN  /\ Op \in LoadOps =>
           kind = IF Constants[ArgLong(1) + 1].t = "int" /\ Constants[ArgLong(1) + 1].i >= 0
                  THEN Constants[ArgLong(1) + 1].i ELSE ScalarKind
      /\ Op = OP_PUSH_BYTE => kind = Arg(1)
      /\ Op = OP_ZERO => kind = 0
      /\ Op = OP_ONE => kind = 1
      /\ Op = OP_LOC_ALINK_LONG => kind = Temp
      /\ Op = OP_GET_LOCAL_LONG =>
           kind = IF ArgLong(1) # 0
                  THEN OuterKind(views, fn.level - ArgLong(1), ArgLong(3))
                  ELSE IF IsScalar(view.kinds[ArgLong(3) + 1]) THEN ScalarKind
                  ELSE AnyKind
      /\ Op = OP_GET_INDEX =>
           kind = IF Arg(1) = Arg(2) THEN ScalarKind ELSE Temp
      /\ Op = OP_CALL => kind = views[s[Len(s) - Arg(1)]].gives
      /\ Op = OP_ARGSTACK_PEEK =>
           kind = IF view.args[Len(view.args)] = 1 THEN Copied ELSE ScalarKind
      /\ Op \in BinaryOps \cup {OP_NOT, OP_READ, OP_TRUE, OP_FALSE,
                                OP_EMPTY_STRING} => kind = ScalarKind
<1>1. PICK fn : fn = image.fns[Frame.fn]
  OBVIOUS
<1>2. PICK view : view = views[Frame.fn].at[IP]
  OBVIOUS
<1>3. PICK s : s = fn.shape[IP]
  OBVIOUS
<1>4. PICK val : val = Constants[ArgLong(1) + 1]
  OBVIOUS
<1>5. PICK kind : kind = PushedKind(image, views, Frame.fn, IP)
  OBVIOUS
<1>6. /\ OpAt(fn, IP) = Op
      /\ ArgAt(fn, IP, 1) = Arg(1) /\ ArgAt(fn, IP, 2) = Arg(2)
      /\ LongAt(fn, IP, 1) = ArgLong(1) /\ LongAt(fn, IP, 3) = ArgLong(3)
  BY <1>1, SameInstruction
<1>7. val = fn.constants[ArgLong(1) + 1]
  BY <1>1, <1>4 DEF Constants
<1>8. kind =
        CASE Op \in LoadOps -> IF val.t = "int" /\ val.i >= 0 THEN val.i ELSE ScalarKind
          [] Op = OP_PUSH_BYTE -> Arg(1)
          [] Op = OP_ZERO -> 0
          [] Op = OP_ONE  -> 1
          [] Op = OP_LOC_ALINK_LONG -> Temp
          [] Op = OP_GET_LOCAL_LONG ->
               IF ArgLong(1) # 0
               THEN OuterKind(views, fn.level - ArgLong(1), ArgLong(3))
               ELSE IF IsScalar(view.kinds[ArgLong(3) + 1]) THEN ScalarKind
               ELSE AnyKind
          [] Op = OP_GET_INDEX -> IF Arg(1) = Arg(2) THEN ScalarKind ELSE Temp
          [] Op = OP_CALL -> views[s[Len(s) - Arg(1)]].gives
          [] Op = OP_ARGSTACK_PEEK ->
               IF view.args[Len(view.args)] = 1 THEN Copied ELSE ScalarKind
          [] OTHER -> ScalarKind
  BY ONLY <1>1, <1>2, <1>3, <1>5, <1>6, <1>7, Zenon DEF PushedKind
<1> DEFINE a  == Arg(1)
           b  == Arg(2)
           l  == ArgLong(1)
           op == Op
           inner == IF IsScalar(view.kinds[ArgLong(3) + 1]) THEN ScalarKind
                    ELSE AnyKind
           outer == OuterKind(views, fn.level - ArgLong(1), ArgLong(3))
           called == views[s[Len(s) - Arg(1)]].gives
           peeked == IF view.args[Len(view.args)] = 1 THEN Copied ELSE ScalarKind
           loaded == IF val.t = "int" /\ val.i >= 0 THEN val.i ELSE ScalarKind
<1>9. kind = CASE op \in LoadOps -> loaded
               [] op = OP_PUSH_BYTE -> a
               [] op = OP_ZERO -> 0
               [] op = OP_ONE  -> 1
               [] op = OP_LOC_ALINK_LONG -> Temp
               [] op = OP_GET_LOCAL_LONG -> IF l # 0 THEN outer ELSE inner
               [] op = OP_GET_INDEX -> IF a = b THEN ScalarKind ELSE Temp
               [] op = OP_CALL -> called
               [] op = OP_ARGSTACK_PEEK -> peeked
               [] OTHER -> ScalarKind
  BY ONLY <1>8, Zenon
<1> HIDE DEF a, b, l, op, inner, outer, called, peeked, loaded
<1>10. /\ op \in LoadOps => kind = loaded
       /\ op = OP_PUSH_BYTE => kind = a
       /\ op = OP_ZERO => kind = 0
       /\ op = OP_ONE => kind = 1
       /\ op = OP_LOC_ALINK_LONG => kind = Temp
       /\ op = OP_GET_LOCAL_LONG => kind = IF l # 0 THEN outer ELSE inner
       /\ op = OP_GET_INDEX => kind = IF a = b THEN ScalarKind ELSE Temp
       /\ op = OP_CALL => kind = called
       /\ op = OP_ARGSTACK_PEEK => kind = peeked
       /\ op \in BinaryOps \cup {OP_NOT, OP_READ, OP_TRUE, OP_FALSE,
                                 OP_EMPTY_STRING} => kind = ScalarKind
  BY ONLY <1>9 DEF LoadOps, BinaryOps,
       OP_LOCI_LONG, OP_LOCS_LONG, OP_LOCF_LONG, OP_LOC_ALINK_LONG,
       OP_PUSH_BYTE, OP_ADDI, OP_SUBI, OP_MULI, OP_DIVI, OP_GRT, OP_GRTEQ,
       OP_LT, OP_LEQ, OP_EQUA, OP_NOT, OP_ZERO, OP_ONE, OP_TRUE, OP_FALSE,
       OP_EMPTY_STRING, OP_GET_LOCAL_LONG, OP_GET_INDEX, OP_READ, OP_CALL,
       OP_ARGSTACK_PEEK
<1>11. Op = OP_GET_LOCAL_LONG =>
         kind = IF ArgLong(1) # 0
                THEN OuterKind(views, fn.level - ArgLong(1), ArgLong(3))
                ELSE IF IsScalar(view.kinds[ArgLong(3) + 1]) THEN ScalarKind
                ELSE AnyKind
  BY ONLY <1>10, Zenon DEF op, l, outer, inner
<1>12. /\ Op \in LoadOps =>
            kind = IF val.t = "int" /\ val.i >= 0 THEN val.i ELSE ScalarKind
       /\ Op = OP_CALL => kind = views[s[Len(s) - Arg(1)]].gives
       /\ Op = OP_ARGSTACK_PEEK =>
            kind = IF view.args[Len(view.args)] = 1 THEN Copied ELSE ScalarKind
  BY ONLY <1>10, Zenon DEF op, called, peeked, loaded
<1>13. /\ Op = OP_PUSH_BYTE => kind = Arg(1)
       /\ Op = OP_ZERO => kind = 0
       /\ Op = OP_ONE => kind = 1
       /\ Op = OP_LOC_ALINK_LONG => kind = Temp
       /\ Op = OP_GET_INDEX => kind = IF Arg(1) = Arg(2) THEN ScalarKind ELSE Temp
       /\ Op \in BinaryOps \cup {OP_NOT, OP_READ, OP_TRUE, OP_FALSE,
                                 OP_EMPTY_STRING} => kind = ScalarKind
  BY ONLY <1>10, Zenon DEF op, a, b
<1> QED
  BY ONLY <1>1, <1>2, <1>3, <1>4, <1>5, <1>11, <1>12, <1>13

-----------------------------------------------------------------------------
(* The handlers.  None of those that push scalars disturbs a vector.        *)

LEMMA ScalarKept ==
  /\ ScalarKind \in Int /\ IsScalar(ScalarKind)
  /\ \A v : v.t # "vec" => KindHeld(v, ScalarKind)
  /\ \A x \in Nat : IsScalar(x) /\ KindHeld(IntV(x), x)
BY DEF IsScalar, KindHeld, IntV, ScalarKind, Temp, Copied, Moved

LEMMA LoadConstantArrays ==
  ASSUME AInv, VInv', status' = "run", UNCHANGED image, LoadConstant
  PROVE  Arrays' /\ Arguments'
<1>1. status = "run" /\ Op \in LoadOps /\ VInv /\ DInv
  BY DEF LoadConstant, Fetch, LoadOps, AInv, VInv
<1>2. Op \notin Peeks
      /\ Op \notin {OP_POP_TO_ASTACK, OP_ASTACK_SHIFT_UP, OP_LOC_ALINK_LONG,
                    OP_GET_INDEX, OP_CALL, OP_ARGSTACK_LOAD, OP_ARGSTACK_UNLOAD}
  BY ONLY <1>1, Groups DEF PushOps, DropOps, Alone, Stays
<1>3. PICK val : val = Constants[ArgLong(1) + 1]
  OBVIOUS
<1>4. ArgLong(1) + 1 \in DOMAIN Constants /\ pushv(NextIP, SP - 0, ASP, val)
  <2>1. SP - 0 = SP
    BY <1>1, Current
  <2> QED
    BY <1>3, <2>1 DEF LoadConstant, Wild
<1>5. val \in Value /\ val.i \in Int
  <2>1. TypeOK
    BY ONLY <1>1 DEF DInv, IInv
  <2>2. Constants \in Seq(Value)
    BY ONLY <2>1, FrameFacts
  <2>3. val \in Value
    BY ONLY <1>3, <1>4, <2>2, ElementOf
  <2> QED
    BY ONLY <2>3, ValueFields
<1>6. val.t # "vec"
  <2>1. ElementsOK(image, views, Frame.fn, IP)
    BY ONLY <1>1, InstructionViews
  <2>2. /\ OpAt(image.fns[Frame.fn], IP) = Op
        /\ LongAt(image.fns[Frame.fn], IP, 1) = ArgLong(1)
    BY SameInstruction
  <2> QED
    BY ONLY <1>1, <1>3, <2>1, <2>2 DEF ElementsOK, Constants
<1>7. PICK q : q = PushedKind(image, views, Frame.fn, IP)
  OBVIOUS
<1>8. q = IF val.t = "int" /\ val.i >= 0 THEN val.i ELSE ScalarKind
  BY ONLY <1>1, <1>3, <1>7, PushedKinds
<1>9. q \in Int /\ IsScalar(q) /\ KindHeld(val, q)
  <2>1. CASE val.t = "int" /\ val.i >= 0
    BY ONLY <1>5, <1>6, <1>8, <2>1 DEF IsScalar, KindHeld, Temp, Copied, Moved
  <2>2. CASE ~(val.t = "int" /\ val.i >= 0)
    BY ONLY <1>6, <1>8, <2>2, ScalarKept
  <2> QED
    BY ONLY <2>1, <2>2
<1>10. \E x : Effect(0, << x >>)
  BY ONLY <1>1, Effects
<1> QED
  BY <1>1, <1>2, <1>4, <1>5, <1>7, <1>9, <1>10, ScalarStays

LEMMA PlainPushArrays ==
  ASSUME AInv, VInv', status' = "run", UNCHANGED image,
         PushByte \/ Zero \/ One \/ PushFalse \/ PushTrue \/ EmptyString \/ Read
  PROVE  Arrays' /\ Arguments'
<1> DEFINE ops == {OP_PUSH_BYTE, OP_ZERO, OP_ONE, OP_FALSE, OP_TRUE,
                   OP_EMPTY_STRING, OP_READ}
           kind == PushedKind(image, views, Frame.fn, IP)
<1>1. status = "run" /\ Op \in ops /\ VInv /\ DInv /\ IInv
  BY DEF PushByte, Zero, One, PushFalse, PushTrue, EmptyString, Read, Fetch,
         AInv, VInv, DInv
<1>2. Op \in PushOps
  BY ONLY <1>1 DEF PushOps
<1>3. /\ Op \notin Peeks /\ Effect(0, << 0 >>)
      /\ Op \notin {OP_POP_TO_ASTACK, OP_ASTACK_SHIFT_UP, OP_GET_INDEX,
                    OP_CALL, OP_ARGSTACK_LOAD, OP_ARGSTACK_UNLOAD}
  BY ONLY <1>2, Groups, Effects DEF DropOps, Alone, Stays
<1>4. Op # OP_LOC_ALINK_LONG
  BY ONLY <1>1 DEF OP_LOC_ALINK_LONG, OP_PUSH_BYTE, OP_ZERO, OP_ONE, OP_FALSE,
                   OP_TRUE, OP_EMPTY_STRING, OP_READ
<1>5. SP - 0 = SP
  BY <1>1, Current
<1>6. ASSUME NEW v \in Value, pushv(NextIP, SP, ASP, v),
             kind \in Int, IsScalar(kind), KindHeld(v, kind)
      PROVE  Arrays' /\ Arguments'
  <2>1. PICK q : q = kind
    OBVIOUS
  <2>2. q \in Int /\ IsScalar(q) /\ KindHeld(v, q) /\ pushv(NextIP, SP - 0, ASP, v)
        /\ q = PushedKind(image, views, Frame.fn, IP)
    BY ONLY <1>5, <1>6, <2>1
  <2>3. Op \notin {OP_POP_TO_ASTACK, OP_ASTACK_SHIFT_UP, OP_LOC_ALINK_LONG,
                   OP_GET_INDEX, OP_CALL, OP_ARGSTACK_LOAD, OP_ARGSTACK_UNLOAD}
    BY ONLY <1>3, <1>4
  <2> QED
    BY ONLY ScalarStays, AInv, VInv', status' = "run", UNCHANGED image, <1>1,
            <1>3, <2>2, <2>3, v \in Value
<1> HIDE DEF kind
<1>7. CASE PushByte
  <2>1. Fetch(OP_PUSH_BYTE) /\ pushv(NextIP, SP, ASP, IntV(Arg(1)))
    BY <1>7 DEF PushByte
  <2>2. 1 \in 1 .. OperandBytes(OP_PUSH_BYTE)
    BY Operands DEF OneOperandByte
  <2>3. Arg(1) \in Byte /\ Op = OP_PUSH_BYTE
    <3>1. TypeOK
      BY ONLY <1>1 DEF IInv
    <3> QED
      BY ONLY <2>1, <2>2, <3>1, FetchFacts
  <2>4. kind = Arg(1)
    BY ONLY <2>3, PushedKinds DEF kind
  <2>5. Arg(1) \in Nat
    BY ONLY <2>3 DEF Byte
  <2>6. IntV(Arg(1)) \in Value
    BY ONLY <2>5, MakingValues
  <2> QED
    BY ONLY <1>6, <2>1, <2>4, <2>5, <2>6, ScalarKept
<1>8. CASE Zero
  <2>1. Op = OP_ZERO /\ pushv(NextIP, SP, ASP, IntV(0)) /\ IntV(0) \in Value
    BY <1>8, MakingValues DEF Zero, Fetch
  <2>2. kind = 0 /\ 0 \in Nat
    BY ONLY <2>1, PushedKinds DEF kind
  <2> QED
    BY ONLY <1>6, <2>1, <2>2, ScalarKept
<1>9. CASE One
  <2>1. Op = OP_ONE /\ pushv(NextIP, SP, ASP, IntV(1)) /\ IntV(1) \in Value
    BY <1>9, MakingValues DEF One, Fetch
  <2>2. kind = 1 /\ 1 \in Nat
    BY ONLY <2>1, PushedKinds DEF kind
  <2> QED
    BY ONLY <1>6, <2>1, <2>2, ScalarKept
<1>10. CASE PushFalse \/ PushTrue \/ EmptyString \/ Read
  <2>1. Op \in {OP_FALSE, OP_TRUE, OP_EMPTY_STRING, OP_READ}
    BY <1>10 DEF PushFalse, PushTrue, EmptyString, Read, Fetch
  <2>2. kind = ScalarKind
    BY ONLY <2>1, PushedKinds DEF kind
  <2>3. \E v \in Value : v.t # "vec" /\ pushv(NextIP, SP, ASP, v)
    <3>1. CASE PushFalse \/ PushTrue
      <4>1. \A b \in BOOLEAN : BoolV(b) \in Value /\ BoolV(b).t # "vec"
        BY MakingValues DEF BoolV, IntV
      <4>2. pushv(NextIP, SP, ASP, BoolV(FALSE)) \/ pushv(NextIP, SP, ASP, BoolV(TRUE))
        BY <3>1 DEF PushFalse, PushTrue
      <4> QED
        BY ONLY <4>1, <4>2
    <3>2. CASE EmptyString
      <4>1. pushv(NextIP, SP, ASP, StrV(1)) /\ StrV(1) \in Value /\ StrV(1).t # "vec"
        BY <3>2, MakingValues DEF EmptyString, StrV
      <4> QED
        BY ONLY <4>1
    <3>3. CASE Read
      <4>1. PICK v \in ReadValues(Arg(1)) : pushv(NextIP, SP, ASP, v)
        BY <3>3 DEF Read, Abort
      <4>2. v \in Value /\ v.t # "vec"
        <5>1. /\ \A b \in BOOLEAN : BoolV(b) \in Value /\ BoolV(b).t # "vec"
              /\ \A x \in ReadInts : IntV(x) \in Value /\ IntV(x).t # "vec"
              /\ \A x \in DOMAIN Strings : StrV(x) \in Value /\ StrV(x).t # "vec"
          <6>1. \A x \in Int : /\ IntV(x) \in Value /\ IntV(x).t # "vec"
                              /\ StrV(x) \in Value /\ StrV(x).t # "vec"
            BY ONLY MakingValues DEF IntV, StrV
          <6>2. \A x \in DOMAIN Strings : x \in Int
            BY ONLY StringsAssumption
          <6>3. \A b \in BOOLEAN : BoolV(b) \in Value /\ BoolV(b).t # "vec"
            BY ONLY <6>1 DEF BoolV
          <6> QED
            BY ONLY <6>1, <6>2, <6>3, InputAssumption
        <5> QED
          BY ONLY <5>1, v \in ReadValues(Arg(1)) DEF ReadValues
      <4> QED
        BY ONLY <4>1, <4>2
    <3> QED
      BY <1>10, <3>1, <3>2, <3>3
  <2> QED
    BY ONLY <1>6, <2>2, <2>3, ScalarKept
<1> QED
  BY <1>7, <1>8, <1>9, <1>10

LEMMA OperatorArrays ==
  ASSUME AInv, VInv', status' = "run", UNCHANGED image,
         Addi \/ Subi \/ Muli \/ Divi \/ Compare \/ Equa \/ Not
  PROVE  Arrays' /\ Arguments'
<1>1. status = "run" /\ Op \in BinaryOps \cup {OP_NOT} /\ VInv /\ DInv /\ IInv
      /\ (Not => Op = OP_NOT) /\ (~Not => Op \in BinaryOps)
  BY DEF Addi, Subi, Muli, Divi, Compare, Equa, Not, Fetch, BinaryOps,
         AInv, VInv, DInv
<1>2. /\ Op \notin Peeks
      /\ Op \notin {OP_POP_TO_ASTACK, OP_ASTACK_SHIFT_UP, OP_LOC_ALINK_LONG,
                    OP_GET_INDEX, OP_CALL, OP_ARGSTACK_LOAD, OP_ARGSTACK_UNLOAD}
  BY ONLY <1>1, Groups, Singles DEF DropOps, Alone, Stays, PushOps
<1>3. PICK q : q = PushedKind(image, views, Frame.fn, IP)
  OBVIOUS
<1>4. q = ScalarKind
  BY ONLY <1>1, <1>3, PushedKinds
<1>5. \A b : BoolV(b) \in Value /\ BoolV(b).t # "vec"
  BY MakingValues DEF BoolV, IntV
<1>6. \A x \in Int : IntV(x) \in Value /\ IntV(x).t # "vec"
  BY MakingValues DEF IntV
<1>7. CASE Not
  <2>1. pushv(NextIP, SP - 1, ASP, BoolV(peekv(1).i = 0))
    BY <1>7 DEF Not
  <2>2. PICK v \in Value : v.t # "vec" /\ pushv(NextIP, SP - 1, ASP, v)
    BY ONLY <1>5, <2>1
  <2>3. Effect(1, << 0 >>)
    BY ONLY <1>1, <1>7, Effects
  <2> QED
    BY <1>1, <1>2, <1>3, <1>4, <2>2, <2>3, ScalarKept, ScalarStays
<1>8. CASE ~Not
  <2>1. \E v \in Value : v.t # "vec" /\ pushv(NextIP, SP - 2, ASP, v)
    <3>1. /\ peekv(1).i \in Int /\ peekv(2).i \in Int
      BY <1>1, Current, ValueFields
    <3>2. CASE Addi
      <4>1. PICK x : x = peekv(2).i + peekv(1).i
        OBVIOUS
      <4>2. pushv(NextIP, SP - 2, ASP, IntV(Wrap(x))) /\ x \in Int
        BY <3>1, <3>2, <4>1 DEF Addi
      <4> QED
        BY ONLY <1>6, <4>2, WrapType
    <3>3. CASE Subi
      <4>1. PICK x : x = peekv(2).i - peekv(1).i
        OBVIOUS
      <4>2. pushv(NextIP, SP - 2, ASP, IntV(Wrap(x))) /\ x \in Int
        BY <3>1, <3>3, <4>1 DEF Subi
      <4> QED
        BY ONLY <1>6, <4>2, WrapType
    <3>4. CASE Muli
      <4>1. PICK x : x = peekv(2).i * peekv(1).i
        OBVIOUS
      <4>2. pushv(NextIP, SP - 2, ASP, IntV(Wrap(x))) /\ x \in Int
        BY <3>1, <3>4, <4>1 DEF Muli
      <4> QED
        BY ONLY <1>6, <4>2, WrapType
    <3>5. CASE Divi
      <4>1. PICK x : x = TruncDiv(peekv(2).i, peekv(1).i)
        OBVIOUS
      <4>2. pushv(NextIP, SP - 2, ASP, IntV(x)) /\ x \in Int
        BY <3>1, <3>5, <4>1, TruncDivType DEF Divi, runtime_error, Abort
      <4> QED
        BY ONLY <1>6, <4>2
    <3>6. CASE Compare
      <4>1. \E b : pushv(NextIP, SP - 2, ASP, BoolV(b))
        BY <3>6 DEF Compare, Abort
      <4> QED
        BY ONLY <1>5, <4>1
    <3>7. CASE Equa
      <4>1. \E b : pushv(NextIP, SP - 2, ASP, BoolV(b))
        BY <3>7 DEF Equa, Abort
      <4> QED
        BY ONLY <1>5, <4>1
    <3> QED
      BY <1>8, <3>2, <3>3, <3>4, <3>5, <3>6, <3>7
  <2>2. PICK v \in Value : v.t # "vec" /\ pushv(NextIP, SP - 2, ASP, v)
    BY ONLY <2>1
  <2>3. Effect(2, << 0 >>)
    BY ONLY <1>1, <1>8, Effects
  <2> QED
    BY <1>1, <1>2, <1>3, <1>4, <2>2, <2>3, ScalarKept, ScalarStays
<1> QED
  BY <1>7, <1>8

LEMMA JumpArrays ==
  ASSUME AInv, VInv', status' = "run", UNCHANGED image,
         Skip \/ SkipBack \/ SkipF
  PROVE  Arrays' /\ Arguments'
<1>1. status = "run" /\ Op \in Jumps /\ VInv /\ DInv
  BY DEF Skip, SkipBack, SkipF, Fetch, Jumps, AInv, VInv
<1>2. Pops(Fn(framese), IP) = 0 /\ Pushes(image, Frame.fn, IP) = << >>
  BY <1>1, JumpEffects
<1>3. UNCHANGED << framese, stack, astack, argstack, argsp, argasp >>
  BY DEF Skip, SkipBack, SkipF, Goto
<1>4. PICK t \in Targets(Fn(framese), IP) : Resume(t, SP, ASP)
  <2>1. CASE Skip
    <3>1. Op = OP_SKIP_LONG /\ Resume(NextIP + ArgLong(1), SP, ASP)
      BY <2>1 DEF Skip, Fetch, Goto
    <3> QED
      BY <3>1, JumpEffects
  <2>2. CASE SkipBack
    <3>1. Op = OP_SKIP_BACK_LONG /\ Resume(NextIP - ArgLong(1), SP, ASP)
      BY <2>2 DEF SkipBack, Fetch, Goto
    <3> QED
      BY <3>1, JumpEffects
  <2>3. CASE SkipF
    <3>1. /\ Op = OP_SKIPF_LONG /\ NextIP + 0 = NextIP
          /\ Resume(NextIP + (IF peekv(1).i = 0 THEN ArgLong(1) ELSE 0),
                    SP, ASP)
      BY <2>3, <1>1, HandlerFacts DEF SkipF, Fetch, Goto, DInv
    <3> QED
      BY <3>1, JumpEffects
  <2> QED
    BY <2>1, <2>2, <2>3
<1>5. /\ Op # OP_RETURN
      /\ Op \notin {OP_SET_LOCAL_LONG, OP_SHIFT_ASTACKENT_TO_BASE,
                    OP_CALL, OP_ARGSTACK_LOAD, OP_ARGSTACK_UNLOAD}
      /\ Op \notin {OP_POP_TO_ASTACK, OP_ASTACK_SHIFT_UP, OP_LOC_ALINK_LONG,
                    OP_GET_INDEX, OP_CALL}
  BY ONLY <1>1, Groups DEF DropOps, Stays, Alone, Ends, PushOps
<1>6. PICK l : l = LooseAfter(image, views, Frame.fn, IP)
  OBVIOUS
<1>7. l = View(framese).loose
  BY ONLY <1>1, <1>5, <1>6, SameAfter
<1>8. l \in Int /\ ASP \in Int /\ ASP - l >= ASP - View(framese).loose
      /\ 0 <= Len(ShapeOf(framese))
  BY ONLY <1>1, <1>7, Current, AInv
<1>9. ScalarElements'
  BY <1>1, <1>3, SameElements
<1> QED
  BY ONLY DropStays, AInv, VInv', status' = "run", UNCHANGED image, <1>1, <1>2,
          <1>3, <1>4, <1>5, <1>6, <1>8, <1>9

(* Handlers that take p values off and go on with the next instruction.     *)
LEMMA TakeStays ==
  ASSUME AInv, VInv', status = "run", status' = "run", UNCHANGED image,
         UNCHANGED << framese, stack, argstack, argsp, argasp >>,
         ScalarElements',
         Op \notin Peeks,
         Op \notin {OP_SET_LOCAL_LONG, OP_CALL, OP_ARGSTACK_LOAD,
                    OP_ARGSTACK_UNLOAD},
         NEW p \in Nat, Effect(p, << >>),
         NEW sp, NEW asp \in Int, Resume(NextIP, sp, asp),
         NEW l \in Int, l = LooseAfter(image, views, Frame.fn, IP),
         asp - l >= ASP - View(framese).loose
  PROVE  Arrays' /\ Arguments'
<1>1. DInv /\ VInv
  BY DEF AInv, VInv
<1>2. /\ Pops(Fn(framese), IP) = p /\ Pushes(image, Frame.fn, IP) = << >>
      /\ NextIP \in Targets(Fn(framese), IP)
  BY DEF Effect
<1>3. p <= Len(ShapeOf(framese))
  BY <1>1, <1>2, EnoughThere
<1>4. /\ Op # OP_RETURN
      /\ Op \notin {OP_SET_LOCAL_LONG, OP_SHIFT_ASTACKENT_TO_BASE,
                    OP_CALL, OP_ARGSTACK_LOAD, OP_ARGSTACK_UNLOAD}
  BY DEF Peeks
<1>5. UNCHANGED << framese, stack, argstack, argsp, argasp >> /\ ScalarElements'
  OBVIOUS
<1> QED
  BY ONLY DropStays, AInv, VInv', status = "run", status' = "run",
          UNCHANGED image, <1>2, <1>3, <1>4, <1>5, p \in Nat, asp \in Int,
          Resume(NextIP, sp, asp), l \in Int, asp - l >= ASP - View(framese).loose,
          l = LooseAfter(image, views, Frame.fn, IP)

(* A scalar is what a kind says.                                            *)
LEMMA TopHeld ==
  ASSUME AInv, status = "run", Op # OP_RETURN,
         NEW k \in 1 .. Len(ShapeOf(framese))
  PROVE  /\ Frame.base + k - 1 \in CellIndex
         /\ stack[Frame.base + k - 1] \in Value
         /\ Slot(Frame.base + k - 1) = stack[Frame.base + k - 1]
         /\ Values[framese][k] = stack[Frame.base + k - 1]
         /\ Kinds[framese][k] = View(framese).kinds[k]
         /\ KindHeld(stack[Frame.base + k - 1], View(framese).kinds[k])
<1>1. FramesTyped /\ KindsIn(framese, Values, Kinds) /\ VInv
  BY CalmFacts
<1>2. framese \in 0 .. framese /\ DInv /\ stack \in [CellIndex -> Value]
  <2>1. DInv /\ stack \in [CellIndex -> Value]
    BY ONLY <1>1 DEF VInv, DInv, IInv, TypeOK
  <2> QED
    BY ONLY <1>1, <2>1, InstructionViews, status = "run"
<1>3. Frame.base + k - 1 \in CellIndex
  BY ONLY FrameHolds, <1>2, status = "run", k \in 1 .. Len(ShapeOf(framese))
     DEF Frame
<1>4. /\ Values[framese][k] = stack[Frame.base + k - 1]
      /\ Kinds[framese] = View(framese).kinds
      /\ k \in 1 .. Len(Kinds[framese])
  BY ONLY <1>1, <1>2, k \in 1 .. Len(ShapeOf(framese)) DEF FramesTyped, Frame
<1>5. k \in Known(framese, framese, Kinds)
  BY ONLY <1>4 DEF Known
<1>6. KindHeld(Values[framese][k], Kinds[framese][k])
  BY ONLY <1>1, <1>2, <1>5 DEF KindsIn
<1>7. stack[Frame.base + k - 1] \in Value
  BY ONLY <1>2, <1>3
<1>8. Slot(Frame.base + k - 1) = stack[Frame.base + k - 1]
  BY ONLY <1>2, <1>3 DEF Slot, Cell
<1> QED
  BY ONLY <1>3, <1>4, <1>6, <1>7, <1>8

LEMMA PopArrays ==
  ASSUME AInv, VInv', status' = "run", UNCHANGED image,
         Popv \/ PopToAstack \/ AstackShiftUp \/ Newline
  PROVE  Arrays' /\ Arguments'
<1> DEFINE n    == Len(ShapeOf(framese))
           kind == View(framese).kinds[n]
<1>1. status = "run" /\ VInv /\ DInv
      /\ Op \in {OP_POPV, OP_POP_TO_ASTACK, OP_ASTACK_SHIFT_UP, OP_NEWLINE}
  BY DEF Popv, PopToAstack, AstackShiftUp, Newline, Fetch, AInv, VInv
<1>2. Op \in DropOps \cup {OP_NEWLINE} /\ OP_NEWLINE \in Stays
  BY ONLY <1>1 DEF DropOps, Stays
<1>3. /\ Op \notin Peeks
      /\ Op \notin {OP_SET_LOCAL_LONG, OP_CALL, OP_ARGSTACK_LOAD,
                    OP_ARGSTACK_UNLOAD}
      /\ Op \notin {OP_LOC_ALINK_LONG, OP_GET_INDEX, OP_CALL}
  BY ONLY <1>1 DEF Peeks, OP_POPV, OP_POP_TO_ASTACK, OP_ASTACK_SHIFT_UP,
       OP_NEWLINE, OP_SET_LOCAL_LONG, OP_CALL, OP_ARGSTACK_LOAD,
       OP_ARGSTACK_UNLOAD, OP_LOC_ALINK_LONG, OP_GET_INDEX, OP_SKIPF_LONG,
       OP_SHIFT_ASTACKENT_TO_BASE, OP_RETURN
<1>4. ASSUME NEW p \in Nat, Effect(p, << >>), ScalarElements',
             UNCHANGED << framese, stack, argstack, argsp, argasp >>,
             NEW sp, NEW asp \in Int, Resume(NextIP, sp, asp),
             NEW l \in Int, l = LooseAfter(image, views, Frame.fn, IP),
             asp - l >= ASP - View(framese).loose
      PROVE  Arrays' /\ Arguments'
  BY ONLY <1>1, <1>3, <1>4, TakeStays, AInv, VInv', status' = "run",
          UNCHANGED image
<1>5. /\ ASP \in Int /\ View(framese).loose \in Int /\ n \in Nat
      /\ SP = Frame.base + n /\ Frame.base \in Nat
      /\ View(framese) = views[Frame.fn].at[IP]
      /\ Len(View(framese).kinds) = n
  BY ONLY Current, AInv, <1>1
<1>6. Op \in {OP_POPV, OP_NEWLINE} =>
        LooseAfter(image, views, Frame.fn, IP) = View(framese).loose
  <2>1. OP_POPV \notin {OP_POP_TO_ASTACK, OP_ASTACK_SHIFT_UP}
        /\ OP_NEWLINE \notin {OP_POP_TO_ASTACK, OP_ASTACK_SHIFT_UP}
    BY DEF OP_POPV, OP_NEWLINE, OP_POP_TO_ASTACK, OP_ASTACK_SHIFT_UP
  <2> QED
    BY ONLY <1>1, <1>3, <2>1, SameAfter
<1>7. CASE Newline
  <2>1. /\ Op = OP_NEWLINE /\ Resume(NextIP, SP, ASP)
        /\ UNCHANGED << framese, stack, astack, argstack, argsp, argasp >>
    BY <1>7 DEF Newline, Fetch
  <2>2. Effect(0, << >>) /\ 0 \in Nat
    BY ONLY <1>2, <2>1, Effects
  <2>3. ScalarElements'
    BY <1>1, <2>1, SameElements
  <2>4. PICK l : l = View(framese).loose
    OBVIOUS
  <2>5. l = LooseAfter(image, views, Frame.fn, IP) /\ l \in Int
        /\ ASP - l >= ASP - View(framese).loose
    BY ONLY <1>5, <1>6, <2>1, <2>4
  <2> QED
    BY ONLY <1>4, <1>5, <2>1, <2>2, <2>3, <2>5
<1>8. CASE Popv
  <2>1. /\ Op = OP_POPV /\ Resume(NextIP, SP - 1, ASP)
        /\ UNCHANGED << framese, stack, astack, argstack, argsp, argasp >>
    BY <1>8 DEF Popv, Fetch, Goto
  <2>2. Effect(1, << >>) /\ 1 \in Nat
    BY ONLY <1>2, <2>1, Effects DEF OP_NEWLINE, OP_POPV
  <2>3. ScalarElements'
    BY <1>1, <2>1, SameElements
  <2>4. PICK l : l = View(framese).loose
    OBVIOUS
  <2>5. l = LooseAfter(image, views, Frame.fn, IP) /\ l \in Int
        /\ ASP - l >= ASP - View(framese).loose
    BY ONLY <1>5, <1>6, <2>1, <2>4
  <2> QED
    BY ONLY <1>4, <1>5, <2>1, <2>2, <2>3, <2>5
<1>9. ASSUME Effect(1, << >>), Op # OP_RETURN
      PROVE  /\ peekv(1) \in Value /\ KindHeld(peekv(1), kind)
             /\ ElementsOK(image, views, Frame.fn, IP)
             /\ OpAt(image.fns[Frame.fn], IP) = Op
  <2>1. 1 <= n
    BY <1>1, <1>3, <1>9, EnoughThere DEF Effect
  <2>2. n \in 1 .. n /\ SP - 1 = Frame.base + n - 1
    BY ONLY <1>5, <2>1
  <2>3. Slot(SP - 1) \in Value /\ KindHeld(Slot(SP - 1), kind)
    BY ONLY <1>1, <1>9, <2>2, TopHeld, AInv
  <2>4. ElementsOK(image, views, Frame.fn, IP)
        /\ OpAt(image.fns[Frame.fn], IP) = Op
    BY <1>1, InstructionViews, SameInstruction
  <2> QED
    BY ONLY <2>3, <2>4 DEF peekv
<1>10. CASE PopToAstack
  <2>1. Op = OP_POP_TO_ASTACK
    BY <1>10 DEF PopToAstack, Fetch
  <2>2. /\ ASP \in CellIndex /\ Resume(NextIP, SP - 1, ASP + 1)
        /\ astack' = [astack EXCEPT ![ASP] = peekv(1)]
        /\ UNCHANGED << framese, stack, argstack, argsp, argasp >>
    BY <1>5, <1>10, SizesAssumption DEF PopToAstack, runtime_error, Wild, CellIndex
  <2>3. Effect(1, << >>) /\ 1 \in Nat /\ Op # OP_RETURN
    BY ONLY <1>2, <1>3, <2>1, Effects DEF OP_NEWLINE, OP_POP_TO_ASTACK, Peeks
  <2>4. IsScalar(kind)
    BY ONLY <1>5, <1>9, <2>1, <2>3 DEF ElementsOK
  <2>5. peekv(1).t # "vec"
    BY ONLY <1>9, <2>3, <2>4 DEF KindHeld
  <2>6. ScalarElements'
    <3>1. astack \in [CellIndex -> Value] /\ \A c \in CellIndex : astack[c].t # "vec"
      BY <1>1 DEF AInv, DInv, IInv, TypeOK, Arrays, ScalarElements
    <3> QED
      BY <2>2, <2>5, <3>1 DEF ScalarElements, CellIndex
  <2>7. PICK l : l = LooseAfter(image, views, Frame.fn, IP)
    OBVIOUS
  <2>8. l = View(framese).loose + 1
    BY ONLY <1>1, <2>1, <2>7, OtherAfter
  <2>9. l \in Int /\ ASP + 1 \in Int /\ (ASP + 1) - l >= ASP - View(framese).loose
    <3>1. PICK a : a = ASP
      OBVIOUS
    <3>2. PICK b : b = View(framese).loose
      OBVIOUS
    <3>3. a \in Int /\ b \in Int /\ l = b + 1
      BY ONLY <1>5, <2>8, <3>1, <3>2
    <3>4. l \in Int /\ a + 1 \in Int /\ (a + 1) - l >= a - b
      BY ONLY <3>3
    <3> QED
      BY ONLY <3>1, <3>2, <3>4
  <2> QED
    BY ONLY <1>4, <2>2, <2>3, <2>6, <2>7, <2>9
<1>11. CASE AstackShiftUp
  <2>1. Op = OP_ASTACK_SHIFT_UP
    BY <1>11 DEF AstackShiftUp, Fetch
  <2>2. PICK size : size = peekv(1).i
    OBVIOUS
  <2>3. /\ Resume(NextIP, SP - 1, ASP + size)
        /\ UNCHANGED << framese, stack, astack, argstack, argsp, argasp >>
    BY <2>2, <1>11 DEF AstackShiftUp, runtime_error, Goto
  <2>4. Effect(1, << >>) /\ 1 \in Nat /\ Op # OP_RETURN
    BY ONLY <1>2, <1>3, <2>1, Effects DEF OP_NEWLINE, OP_ASTACK_SHIFT_UP, Peeks
  <2>5. kind >= 0
    BY ONLY <1>5, <1>9, <2>1, <2>4 DEF ElementsOK
  <2>6. size = kind /\ size \in Int
    BY ONLY <1>9, <2>2, <2>4, <2>5, ValueFields DEF KindHeld
  <2>7. ScalarElements'
    BY <1>1, <2>3, SameElements
  <2>8. PICK l : l = LooseAfter(image, views, Frame.fn, IP)
    OBVIOUS
  <2>9. l = View(framese).loose + size
    BY ONLY <1>1, <1>5, <2>1, <2>6, <2>8, OtherAfter
  <2>10. /\ l \in Int /\ ASP + size \in Int
         /\ (ASP + size) - l >= ASP - View(framese).loose
    <3>1. PICK a : a = ASP
      OBVIOUS
    <3>2. PICK b : b = View(framese).loose
      OBVIOUS
    <3>3. a \in Int /\ b \in Int /\ size \in Int /\ l = b + size
      BY ONLY <1>5, <2>6, <2>9, <3>1, <3>2
    <3>4. l \in Int /\ a + size \in Int /\ (a + size) - l >= a - b
      BY ONLY <3>3
    <3> QED
      BY ONLY <3>1, <3>2, <3>4
  <2> QED
    BY ONLY <1>4, <2>3, <2>4, <2>7, <2>8, <2>10
<1> QED
  BY <1>7, <1>8, <1>10, <1>11

(* A vector above all that remains is a temporary.                          *)
LEMMA TempPushable ==
  ASSUME NEW m, NEW n, NEW V, NEW K, NEW A, NEW low \in Int,
         RoomLeft(m, n, V, K, A, low), NEW size \in Nat,
         NEW s \in Int, low + size <= s,
         NEW v, v = VecV(low, size)
  PROVE  Pushable(m, n, V, K, A, s, v, Temp)
<1>1. v \in Value /\ v.t = "vec" /\ v.i = low /\ v.n = size
  BY MakingValues DEF VecV
<1>2. KindHeld(v, Temp) /\ Temp # Moved
  BY ONLY <1>1 DEF KindHeld, IsScalar, ScalarKind, Temp, Moved
<1>3. /\ 0 <= low
      /\ \A g \in 0 .. m - 1 : A[g] <= low
      /\ \A k \in 1 .. n : Lower(V[m][k], K[m][k]) => V[m][k].i + V[m][k].n <= low
  BY DEF RoomLeft
<1>4. VecIn(v, 0, s)
  <2>1. 0 <= low /\ low + size <= s /\ 0 <= size
    BY ONLY <1>3, low + size <= s, size \in Nat
  <2> QED
    BY ONLY <1>1, <2>1 DEF VecIn
<1>5. /\ \A g \in 0 .. m - 1 : A[g] <= v.i
      /\ \A k \in 1 .. n : Lower(V[m][k], K[m][k]) => V[m][k].i + V[m][k].n <= v.i
  BY ONLY <1>1, <1>3, Zenon
<1> QED
  BY ONLY <1>1, <1>2, <1>4, <1>5, Zenon DEF Pushable

(* A value is pushed, and the end of the array stack may move.              *)
LEMMA PushAll ==
  ASSUME AInv, VInv', status = "run", status' = "run", Op # OP_RETURN,
         UNCHANGED << image, framese >>, UNCHANGED << argstack, argsp, argasp >>,
         ScalarElements',
         NEW p \in Nat, NEW x, Effect(p, << x >>), p <= Len(ShapeOf(framese)),
         NEW n, n = Len(ShapeOf(framese)) - p,
         NEW cell, cell = SP - p, cell < StackMax,
         NEW asp \in Int, Resume(NextIP, cell + 1, asp),
         NEW v, stack' = [stack EXCEPT ![cell] = v],
         NEW q \in Int, q = PushedKind(image, views, Frame.fn, IP), q # Copied,
         NEW s \in Int, NEW l \in Int, l = LooseAfter(image, views, Frame.fn, IP),
         s <= asp - l,
         RoomLeft(framese, n, Values, Kinds, Asps, s),
         Pushable(framese, n, Values, Kinds, Asps, s, v, q),
         ArgsAfter(image, views, Frame.fn, IP) = View(framese).args
  PROVE  Arrays' /\ Arguments'
<1>1. StepStays(NextIP, n, KindsAfter(image, views, Frame.fn, IP), s, v, q)
  BY PushWorks
<1>2. PICK kinds : kinds = KindsAfter(image, views, Frame.fn, IP)
  OBVIOUS
<1>3. StepStays(NextIP, n, kinds, s, v, q)
  BY ONLY <1>1, <1>2
<1> QED
  BY ONLY <1>3, StaysAll, AInv, VInv', status = "run", status' = "run",
          Op # OP_RETURN, ScalarElements', UNCHANGED << argstack, argsp, argasp >>,
          ArgsAfter(image, views, Frame.fn, IP) = View(framese).args, q # Copied

LEMMA LocAlinkArrays ==
  ASSUME AInv, VInv', status' = "run", UNCHANGED image, LocAlink
  PROVE  Arrays' /\ Arguments'
<1>1. status = "run" /\ Op = OP_LOC_ALINK_LONG /\ VInv /\ DInv
  BY DEF LocAlink, Fetch, AInv, VInv
<1>2. Op \in PushOps /\ Op \in LocOpcodes /\ Op # OP_RETURN
      /\ Op \notin {OP_ARGSTACK_LOAD, OP_ARGSTACK_UNLOAD, OP_CALL}
  BY ONLY <1>1 DEF PushOps, LocOpcodes, OP_LOC_ALINK_LONG, OP_RETURN,
       OP_ARGSTACK_LOAD, OP_ARGSTACK_UNLOAD, OP_CALL
<1>3. PICK val : val = Constants[ArgLong(1) + 1]
  OBVIOUS
<1>4. PICK size : size = val.n
  OBVIOUS
<1>5. PICK a : a = ASP
  OBVIOUS
<1>6. PICK lo : lo = View(framese).loose
  OBVIOUS
<1>7. PICK len : len = Len(ShapeOf(framese))
  OBVIOUS
<1>8. PICK v : v = VecV(ASP - size, size)
  OBVIOUS
<1>9. /\ a \in Int /\ lo \in Nat /\ len \in Nat /\ SP \in Int
      /\ View(framese) = views[Frame.fn].at[IP]
  BY ONLY <1>1, <1>5, <1>6, <1>7, Current, AInv
<1>10. size \in 0 .. lo
  <2>1. ElementsOK(image, views, Frame.fn, IP)
    BY ONLY <1>1, InstructionViews
  <2>2. /\ OpAt(image.fns[Frame.fn], IP) = Op
        /\ LongAt(image.fns[Frame.fn], IP, 1) = ArgLong(1)
    BY SameInstruction
  <2> QED
    BY ONLY <1>1, <1>3, <1>4, <1>6, <1>9, <2>1, <2>2 DEF ElementsOK, Constants
<1>11. ArgLong(1) + 1 \in DOMAIN Constants /\ pushv(NextIP, SP, ASP, v)
  <2>1. ArgLong(1) + 1 \in DOMAIN Constants
    BY ONLY <1>1, <1>2, ConstantFound
  <2> QED
    BY <1>3, <1>4, <1>8, <2>1 DEF LocAlink
<1>12. /\ UNCHANGED << framese, astack, argstack, argsp, argasp >>
       /\ SP < StackMax /\ Resume(NextIP, SP + 1, ASP)
       /\ stack' = [stack EXCEPT ![SP] = v]
  BY <1>1, <1>9, <1>11, SizesAssumption DEF pushv, Wild
<1>13. Effect(0, << 0 >>)
  BY ONLY <1>2, Effects
<1>14. PICK q : q = PushedKind(image, views, Frame.fn, IP)
  OBVIOUS
<1>15. q = Temp /\ Temp \in Int /\ Temp # Copied
  BY ONLY <1>1, <1>14, PushedKinds DEF Temp, Copied
<1>16. PICK l : l = LooseAfter(image, views, Frame.fn, IP)
  OBVIOUS
<1>17. l = 0
  BY ONLY <1>1, <1>14, <1>15, <1>16, OtherAfter
<1>18. /\ a - size \in Int /\ a - size >= a - lo /\ a >= a - lo
       /\ a - size + size <= a /\ a <= a - l /\ size \in Nat /\ l \in Int
       /\ len - 0 = len /\ 0 <= len
  BY ONLY <1>9, <1>10, <1>17
<1>19. RoomLeft(framese, len, Values, Kinds, Asps, a - size)
       /\ RoomLeft(framese, len, Values, Kinds, Asps, a)
  <2>1. PICK b : b = a - size
    OBVIOUS
  <2>2. b \in Int /\ b >= ASP - View(framese).loose /\ a >= ASP - View(framese).loose
        /\ len <= Len(ShapeOf(framese))
    BY ONLY <1>5, <1>6, <1>7, <1>9, <1>18, <2>1
  <2> QED
    BY ONLY <1>1, <1>2, <1>9, <2>1, <2>2, RoomAbove, AInv
<1>20. Pushable(framese, len, Values, Kinds, Asps, a, v, Temp)
  BY ONLY <1>5, <1>8, <1>9, <1>18, <1>19, TempPushable
<1>21. ScalarElements'
  BY <1>1, <1>12, SameElements
<1>22. ArgsAfter(image, views, Frame.fn, IP) = View(framese).args
  BY ONLY <1>1, <1>2, SameAfter
<1>23. PICK cell : cell = SP
  OBVIOUS
<1>24. /\ cell = SP - 0 /\ cell < StackMax /\ Resume(NextIP, cell + 1, a)
       /\ stack' = [stack EXCEPT ![cell] = v] /\ len = Len(ShapeOf(framese)) - 0
       /\ 0 \in Nat /\ 0 <= Len(ShapeOf(framese))
  BY ONLY <1>5, <1>7, <1>9, <1>12, <1>23
<1>25. UNCHANGED << image, framese >> /\ UNCHANGED << argstack, argsp, argasp >>
  BY <1>12
<1> QED
  BY ONLY <1>1, <1>2, <1>9, <1>13, <1>14, <1>15, <1>16, <1>18, <1>19, <1>20,
          <1>21, <1>22, <1>24, <1>25, PushAll, AInv, VInv', status' = "run"

(* A temporary of the current frame lies below the loose cells and above    *)
(* what came before it.                                                     *)
LEMMA VectorAt ==
  ASSUME AInv, status = "run", Op # OP_RETURN,
         NEW k \in 1 .. Len(ShapeOf(framese)),
         NEW v, v = stack[Frame.base + k - 1],
         Lower(v, View(framese).kinds[k])
  PROVE  VecIn(v, 0, ASP - View(framese).loose)
<1>1. /\ v = Values[framese][k] /\ View(framese).kinds[k] = Kinds[framese][k]
  BY TopHeld
<1>2. /\ FramesTyped /\ VInv /\ VectorsIn(framese, Values, Kinds, Rooms)
      /\ \A f \in 0 .. framese : Rooms[f] = framestack[f].asp - View(f).loose
  BY CalmFacts
<1>3. framese \in 0 .. framese
  BY ONLY <1>2, InstructionViews, status = "run"
<1>4. Rooms[framese] = ASP - View(framese).loose
      /\ k \in 1 .. Len(Kinds[framese])
  BY ONLY <1>2, <1>3, k \in 1 .. Len(ShapeOf(framese))
     DEF FramesTyped, ASP, Frame
<1>5. Lower(Values[framese][k], Kinds[framese][k])
  BY ONLY <1>1, Lower(v, View(framese).kinds[k])
<1>6. VecIn(Values[framese][k], 0, Rooms[framese])
  BY ONLY <1>2, <1>3, <1>4, <1>5 DEF VectorsIn
<1> QED
  BY ONLY <1>1, <1>4, <1>6

LEMMA RoomBelow ==
  ASSUME AInv, status = "run", Op # OP_RETURN,
         NEW k \in 1 .. Len(ShapeOf(framese)), View(framese).kinds[k] = Temp,
         NEW v, v = stack[Frame.base + k - 1],
         NEW n \in Nat, n < k, NEW s \in Int, v.i <= s
  PROVE  RoomLeft(framese, n, Values, Kinds, Asps, s)
<1>1. PICK m : m = framese
  OBVIOUS
<1>2. PICK V : V = Values
  OBVIOUS
<1>3. PICK K : K = Kinds
  OBVIOUS
<1>4. PICK A : A = Asps
  OBVIOUS
<1>5. PICK R : R = Rooms
  OBVIOUS
<1>6. v = V[m][k] /\ K[m][k] = Temp /\ KindHeld(v, Temp) /\ v \in Value
  BY <1>1, <1>2, <1>3, TopHeld
<1>7. /\ FramesTyped /\ VInv /\ TempsIn(m, m, V, K, A)
  BY <1>1, <1>2, <1>3, <1>4, CalmFacts
<1>8. m \in 0 .. m /\ m \in Nat
  BY ONLY <1>1, <1>7, InstructionViews, status = "run"
<1>9. FramesType(m, V, K, A, R) /\ Len(K[m]) = Len(ShapeOf(framese))
  BY ONLY <1>1, <1>2, <1>3, <1>4, <1>5, <1>7, <1>8 DEF FramesTyped
<1>10. Len(K[m]) \in Nat /\ k \in 1 .. Len(K[m]) /\ k \in Known(m, m, K)
  <2>1. K[m] \in Seq(Int)
    BY ONLY <1>8, <1>9 DEF FramesType
  <2> QED
    BY ONLY <1>9, <2>1, k \in 1 .. Len(ShapeOf(framese)) DEF Known
<1>11. /\ \A g \in 0 .. m - 1 : A[g] <= v.i
       /\ \A j \in 1 .. k - 1 : Lower(V[m][j], K[m][j]) =>
            V[m][j].i + V[m][j].n <= v.i
  BY ONLY <1>6, <1>7, <1>8, <1>10 DEF TempsIn
<1>12. v.i \in Int /\ 0 <= v.i
  <2>1. Lower(v, View(framese).kinds[k])
    BY ONLY <1>6, View(framese).kinds[k] = Temp DEF KindHeld, Lower, Temp, Copied
  <2>2. VecIn(v, 0, ASP - View(framese).loose)
    BY <2>1, VectorAt
  <2> QED
    BY ONLY <1>6, <2>2, ValueFields DEF VecIn
<1>13. ASSUME NEW g \in 0 .. m - 1
       PROVE  A[g] <= s
  <2>1. A \in [0 .. m -> Int] /\ g \in 0 .. m
    BY ONLY <1>8, <1>9, g \in 0 .. m - 1 DEF FramesType
  <2>2. A[g] \in Int /\ A[g] <= v.i
    BY ONLY <1>11, <2>1, g \in 0 .. m - 1
  <2> QED
    BY ONLY <1>12, <2>2, s \in Int, v.i <= s
<1>14. ASSUME NEW j \in 1 .. n, Lower(V[m][j], K[m][j])
       PROVE  V[m][j].i + V[m][j].n <= s
  <2>1. j \in 1 .. k - 1 /\ j \in 1 .. Len(K[m])
    BY ONLY <1>10, n \in Nat, n < k, j \in 1 .. n
  <2>2. V[m] \in Seq(Value) /\ Len(V[m]) = Len(K[m])
    BY ONLY <1>8, <1>9 DEF FramesType
  <2>3. V[m][j] \in Value
    BY ONLY <2>1, <2>2, ElementOf
  <2>4. V[m][j].i \in Int /\ V[m][j].n \in Int
    BY ONLY <2>3, ValueFields
  <2>5. V[m][j].i + V[m][j].n <= v.i
    BY ONLY <1>11, <1>14, <2>1
  <2> QED
    BY ONLY <1>12, <2>4, <2>5, s \in Int, v.i <= s
<1>15. 0 <= s
  BY ONLY <1>12, s \in Int, v.i <= s
<1> QED
  BY ONLY <1>1, <1>2, <1>3, <1>4, <1>13, <1>14, <1>15 DEF RoomLeft

(* Values are taken off, and with them the end of the array stack moves.    *)
LEMMA TakeAll ==
  ASSUME AInv, VInv', status = "run", status' = "run", UNCHANGED image,
         UNCHANGED << framese, stack, argstack, argsp, argasp >>,
         ScalarElements', Op \notin Peeks,
         Op \notin {OP_SET_LOCAL_LONG, OP_SHIFT_ASTACKENT_TO_BASE, OP_CALL,
                    OP_ARGSTACK_LOAD, OP_ARGSTACK_UNLOAD, OP_RETURN},
         NEW p \in Nat, Effect(p, << >>),
         NEW n, n = Len(ShapeOf(framese)) - p,
         NEW sp, NEW asp \in Int, Resume(NextIP, sp, asp),
         NEW s \in Int, NEW l \in Int, l = LooseAfter(image, views, Frame.fn, IP),
         s <= asp - l,
         RoomLeft(framese, n, Values, Kinds, Asps, s)
  PROVE  Arrays' /\ Arguments'
<1>1. DInv /\ VInv
  BY DEF AInv, VInv
<1>2. /\ Pops(Fn(framese), IP) = p /\ Pushes(image, Frame.fn, IP) = << >>
      /\ NextIP \in Targets(Fn(framese), IP)
  BY DEF Effect
<1>3. p <= Len(ShapeOf(framese))
  BY <1>1, <1>2, EnoughThere
<1>4. PICK kinds : kinds = KindsAfter(image, views, Frame.fn, IP)
  OBVIOUS
<1>5. UNCHANGED << image, framese, stack >>
      /\ UNCHANGED << argstack, argsp, argasp >>
  OBVIOUS
<1>6. Op # OP_RETURN /\ Op \notin {OP_SET_LOCAL_LONG, OP_SHIFT_ASTACKENT_TO_BASE}
      /\ Op \notin {OP_ARGSTACK_LOAD, OP_ARGSTACK_UNLOAD, OP_CALL}
  OBVIOUS
<1>7. StepStays(NextIP, n, kinds, s, Junk, ScalarKind)
  BY ONLY <1>2, <1>3, <1>4, <1>5, <1>6, DropWorks, AInv, status = "run",
          p \in Nat, n = Len(ShapeOf(framese)) - p, asp \in Int,
          Resume(NextIP, sp, asp), s \in Int, l \in Int,
          l = LooseAfter(image, views, Frame.fn, IP), s <= asp - l,
          RoomLeft(framese, n, Values, Kinds, Asps, s)
<1>8. ArgsAfter(image, views, Frame.fn, IP) = View(framese).args
  BY ONLY <1>1, <1>6, SameAfter, status = "run"
<1>9. ScalarKind # Copied
  BY DEF ScalarKind, Copied
<1> QED
  BY ONLY <1>5, <1>6, <1>7, <1>8, <1>9, StaysAll, AInv, VInv', status = "run",
          status' = "run", ScalarElements'

LEMMA PopaArrays ==
  ASSUME AInv, VInv', status' = "run", UNCHANGED image, Popa
  PROVE  Arrays' /\ Arguments'
<1>1. status = "run" /\ Op = OP_POPA /\ VInv /\ DInv
  BY DEF Popa, Fetch, AInv, VInv
<1>2. /\ Op \in DropOps /\ Op \notin Peeks
      /\ Op \notin {OP_SET_LOCAL_LONG, OP_SHIFT_ASTACKENT_TO_BASE, OP_CALL,
                    OP_ARGSTACK_LOAD, OP_ARGSTACK_UNLOAD, OP_RETURN}
      /\ Op \notin {OP_POP_TO_ASTACK, OP_ASTACK_SHIFT_UP, OP_LOC_ALINK_LONG,
                    OP_GET_INDEX, OP_CALL}
  BY ONLY <1>1 DEF DropOps, Peeks, OP_POPA, OP_SET_LOCAL_LONG,
       OP_SHIFT_ASTACKENT_TO_BASE, OP_CALL, OP_ARGSTACK_LOAD,
       OP_ARGSTACK_UNLOAD, OP_RETURN, OP_SKIPF_LONG, OP_POP_TO_ASTACK,
       OP_ASTACK_SHIFT_UP, OP_LOC_ALINK_LONG, OP_GET_INDEX
<1>3. PICK a : a = ASP
  OBVIOUS
<1>4. PICK lo : lo = View(framese).loose
  OBVIOUS
<1>5. PICK len : len = Len(ShapeOf(framese))
  OBVIOUS
<1>6. /\ a \in Int /\ lo \in Nat /\ len \in Nat /\ Frame.base \in Nat
      /\ SP = Frame.base + len /\ View(framese) = views[Frame.fn].at[IP]
      /\ Len(View(framese).kinds) = len
  BY ONLY <1>1, <1>3, <1>4, <1>5, Current, AInv
<1>7. Effect(1, << >>) /\ Pops(Fn(framese), IP) = 1
  BY ONLY <1>2, Effects DEF Effect
<1>8. 1 <= len /\ len \in 1 .. len
  BY ONLY <1>1, <1>2, <1>5, <1>6, <1>7, EnoughThere
<1>9. View(framese).kinds[len] = Temp
  <2>1. ElementsOK(image, views, Frame.fn, IP)
        /\ OpAt(image.fns[Frame.fn], IP) = Op
    BY <1>1, InstructionViews, SameInstruction
  <2> QED
    BY ONLY <1>1, <1>6, <2>1 DEF ElementsOK
<1>10. PICK v : v = stack[Frame.base + len - 1]
  OBVIOUS
<1>11. /\ v \in Value /\ v = peekv(1) /\ KindHeld(v, Temp)
  <2>1. SP - 1 = Frame.base + len - 1
    BY ONLY <1>6
  <2>2. v \in Value /\ v = Slot(Frame.base + len - 1) /\ KindHeld(v, Temp)
    BY ONLY <1>1, <1>2, <1>5, <1>8, <1>9, <1>10, TopHeld, AInv
  <2> QED
    BY ONLY <2>1, <2>2 DEF peekv
<1>12. VecIn(v, 0, a - lo)
  <2>1. Lower(v, View(framese).kinds[len])
    BY ONLY <1>9, <1>11 DEF KindHeld, Lower, Temp, Copied
  <2> QED
    BY ONLY <1>1, <1>2, <1>3, <1>4, <1>5, <1>8, <1>10, <2>1, VectorAt, AInv
<1>13. PICK i : i = v.i
  OBVIOUS
<1>14. PICK size : size = v.n
  OBVIOUS
<1>15. /\ i \in Int /\ size \in Nat /\ i + size <= a - lo
       /\ Popped(v.n) = size
  <2>1. i \in Int /\ size \in Int
    BY ONLY <1>11, <1>13, <1>14, ValueFields
  <2>2. 0 <= size /\ i + size <= a - lo
    BY ONLY <1>12, <1>13, <1>14 DEF VecIn
  <2> QED
    BY ONLY <1>14, <2>1, <2>2 DEF Popped
<1>16. Resume(NextIP, SP - 1, a - size)
       /\ UNCHANGED << framese, stack, astack, argstack, argsp, argasp >>
  BY <1>3, <1>11, <1>15 DEF Popa, Goto
<1>17. PICK s : s = a - size - lo
  OBVIOUS
<1>18. PICK n : n = len - 1
  OBVIOUS
<1>19. /\ s \in Int /\ i <= s /\ s <= (a - size) - lo /\ a - size \in Int
       /\ n \in Nat /\ n < len /\ 1 \in Nat /\ lo \in Int
  BY ONLY <1>6, <1>8, <1>15, <1>17, <1>18
<1>20. RoomLeft(framese, n, Values, Kinds, Asps, s)
  BY ONLY <1>1, <1>2, <1>5, <1>8, <1>9, <1>10, <1>13, <1>19, RoomBelow, AInv
<1>21. lo = LooseAfter(image, views, Frame.fn, IP)
  BY ONLY <1>1, <1>2, <1>4, SameAfter
<1>22. ScalarElements'
  BY <1>1, <1>16, SameElements
<1>23. n = Len(ShapeOf(framese)) - 1
  BY ONLY <1>5, <1>18
<1>24. UNCHANGED << framese, stack, argstack, argsp, argasp >>
  BY ONLY <1>16
<1> QED
  BY ONLY <1>1, <1>2, <1>7, <1>16, <1>19, <1>20, <1>21, <1>22, <1>23, <1>24,
          TakeAll, AInv, VInv', status' = "run", UNCHANGED image

(* Sums of numbers.                                                         *)
LEMMA TotalsExist ==
  ASSUME NEW n \in Nat, NEW inc \in [1 .. n -> Nat]
  PROVE  \E g \in [0 .. n -> Nat] :
           g = [k \in 0 .. n |-> IF k = 0 THEN 0 ELSE g[k - 1] + inc[k]]
<1> DEFINE step == [k \in 1 .. n |-> [x \in Nat |-> x + inc[k]]]
<1>1. step \in [1 .. n -> [Nat -> Nat]]
  <2>1. \A k \in 1 .. n : [x \in Nat |-> x + inc[k]] \in [Nat -> Nat]
    <3>1. \A p \in Nat : [x \in Nat |-> x + p] \in [Nat -> Nat]
      OBVIOUS
    <3> QED
      BY ONLY <3>1, inc \in [1 .. n -> Nat]
  <2> QED
    BY <2>1
<1>2. PICK g \in [0 .. n -> Nat] :
        g[0] = 0 /\ \A k \in 1 .. n : g[k] = step[k][g[k - 1]]
  <2> HIDE DEF step
  <2>1. 0 \in Nat
    OBVIOUS
  <2> QED
    BY ONLY <1>1, <2>1, n \in Nat, Recursion
<1>3. ASSUME NEW k \in 1 .. n
      PROVE  g[k] = g[k - 1] + inc[k] /\ k # 0
  <2>1. k - 1 \in 0 .. n /\ k # 0
    OBVIOUS
  <2>2. g[k - 1] \in Nat
    BY <2>1
  <2> QED
    BY <1>2, <2>1, <2>2
<1>4. \A k \in 0 .. n : g[k] = IF k = 0 THEN 0 ELSE g[k - 1] + inc[k]
  <2> SUFFICES ASSUME NEW k \in 0 .. n
               PROVE  g[k] = IF k = 0 THEN 0 ELSE g[k - 1] + inc[k]
    OBVIOUS
  <2>1. k = 0 \/ k \in 1 .. n
    OBVIOUS
  <2> QED
    BY ONLY <1>2, <1>3, <2>1
<1>5. g = [k \in 0 .. n |-> g[k]]
  OBVIOUS
<1> HIDE DEF step
<1>6. g = [k \in 0 .. n |-> IF k = 0 THEN 0 ELSE g[k - 1] + inc[k]]
  BY ONLY <1>4, <1>5
<1> QED
  BY <1>6

(* The recursive function in Write.                                         *)
WrittenCells(n, sp, k) ==
  IF Slot(sp + 3 * (k - 1) + 1).i = VAL_VECTOR
  THEN Popped(Slot(sp + 3 * (k - 1)).n) ELSE 0

WrittenFrom(n, sp, g) ==
  g = [k \in 0 .. n |-> IF k = 0 THEN 0 ELSE g[k - 1] + WrittenCells(n, sp, k)]

LEMMA WrittenSums ==
  ASSUME NEW n \in Nat, NEW sp, \A k \in 1 .. n : WrittenCells(n, sp, k) \in Nat
  PROVE  \E g \in [0 .. n -> Nat] :
           /\ WrittenFrom(n, sp, g) /\ g[0] = 0
           /\ \A k \in 1 .. n : g[k] = g[k - 1] + WrittenCells(n, sp, k)
<1>1. PICK inc \in [1 .. n -> Nat] : \A k \in 1 .. n : inc[k] = WrittenCells(n, sp, k)
  <2> DEFINE h == [k \in 1 .. n |-> WrittenCells(n, sp, k)]
  <2>1. h \in [1 .. n -> Nat] /\ \A k \in 1 .. n : h[k] = WrittenCells(n, sp, k)
    OBVIOUS
  <2> QED
    BY ONLY <2>1
<1>2. PICK g \in [0 .. n -> Nat] :
        g = [k \in 0 .. n |-> IF k = 0 THEN 0 ELSE g[k - 1] + inc[k]]
  BY TotalsExist
<1>3. \A k \in 0 .. n : k # 0 => k \in 1 .. n
  OBVIOUS
<1>4. \A k \in 0 .. n : g[k] = IF k = 0 THEN 0 ELSE g[k - 1] + inc[k]
  BY ONLY <1>2
<1>5. \A k \in 0 .. n :
        g[k] = IF k = 0 THEN 0 ELSE g[k - 1] + WrittenCells(n, sp, k)
  BY ONLY <1>1, <1>3, <1>4
<1>6. g = [k \in 0 .. n |-> g[k]]
  OBVIOUS
<1>7. WrittenFrom(n, sp, g)
  BY ONLY <1>5, <1>6 DEF WrittenFrom
<1>8. 0 \in 0 .. n /\ \A k \in 1 .. n : k \in 0 .. n /\ k # 0
  OBVIOUS
<1>9. g[0] = 0 /\ \A k \in 1 .. n : g[k] = g[k - 1] + WrittenCells(n, sp, k)
  BY ONLY <1>5, <1>8
<1> QED
  BY ONLY <1>2, <1>7, <1>9

LEMMA WriteResumes ==
  ASSUME Write, status = "run", status' = "run", NEW n, n = Arg(1),
         NEW sp, sp = SP - 3 * n, \E g : WrittenFrom(n, sp, g)
  PROVE  /\ UNCHANGED << framese, stack, astack, argstack, argsp, argasp >>
         /\ \E g : WrittenFrom(n, sp, g)
                   /\ Resume(NextIP, sp, ASP - Capped(g[n]))
<1>1. PICK g : g = CHOOSE h : WrittenFrom(n, sp, h)
  OBVIOUS
<1>2. WrittenFrom(n, sp, g)
  BY <1>1
<1>3. UNCHANGED << framese, stack, astack, argstack, argsp, argasp >>
  BY DEF Write, Wild, Abort
<1>4. Resume(NextIP, sp, ASP - Capped((CHOOSE h : WrittenFrom(n, sp, h))[n]))
  BY DEF Write, Wild, Abort, WrittenFrom, WrittenCells
<1>5. Resume(NextIP, sp, ASP - Capped(g[n]))
  BY ONLY <1>1, <1>4
<1> QED
  BY ONLY <1>2, <1>3, <1>5

(* What is written and popped off again: vector by vector, from the last    *)
(* one down, the frame has less room.                                       *)
LEMMA WriteArrays ==
  ASSUME AInv, VInv', status' = "run", UNCHANGED image, Write
  PROVE  Arrays' /\ Arguments'
<1>1. status = "run" /\ Op = OP_WRITE /\ VInv /\ DInv /\ Fetch(OP_WRITE)
  BY DEF Write, Fetch, AInv, VInv
<1>2. /\ Op \notin Peeks
      /\ Op \notin {OP_SET_LOCAL_LONG, OP_SHIFT_ASTACKENT_TO_BASE, OP_CALL,
                    OP_ARGSTACK_LOAD, OP_ARGSTACK_UNLOAD, OP_RETURN}
      /\ Op \notin {OP_POP_TO_ASTACK, OP_ASTACK_SHIFT_UP, OP_LOC_ALINK_LONG,
                    OP_GET_INDEX, OP_CALL}
  BY ONLY <1>1 DEF Peeks, OP_WRITE, OP_SET_LOCAL_LONG,
       OP_SHIFT_ASTACKENT_TO_BASE, OP_CALL, OP_ARGSTACK_LOAD,
       OP_ARGSTACK_UNLOAD, OP_RETURN, OP_SKIPF_LONG, OP_POP_TO_ASTACK,
       OP_ASTACK_SHIFT_UP, OP_LOC_ALINK_LONG, OP_GET_INDEX
<1>3. PICK a : a = ASP
  OBVIOUS
<1>4. PICK lo : lo = View(framese).loose
  OBVIOUS
<1>5. PICK len : len = Len(ShapeOf(framese))
  OBVIOUS
<1>6. PICK b : b = Frame.base
  OBVIOUS
<1>7. PICK n : n = Arg(1)
  OBVIOUS
<1>8. PICK sp : sp = SP - 3 * n
  OBVIOUS
<1>9. PICK kinds : kinds = View(framese).kinds
  OBVIOUS
<1>10. /\ a \in Int /\ a <= StackMax /\ lo \in Nat /\ len \in Nat /\ b \in Nat
       /\ SP = b + len /\ View(framese) = views[Frame.fn].at[IP]
       /\ Len(kinds) = len
  BY ONLY <1>1, <1>3, <1>4, <1>5, <1>6, <1>9, Current, AInv
<1>11. n \in Nat /\ 3 * n \in Nat
  <2>1. n \in Nat
    BY ONLY <1>1, <1>7, HandlerFacts, Operands DEF DInv, OneOperandByte
  <2> QED
    BY ONLY <2>1
<1>12. Effect(3 * n, << >>) /\ Pops(Fn(framese), IP) = 3 * n
  BY ONLY <1>1, <1>7, Effects DEF Effect
<1>13. 3 * n <= len
  BY ONLY <1>1, <1>2, <1>5, <1>11, <1>12, EnoughThere
<1>14. PICK below : below = len - 3 * n
  OBVIOUS
<1>15. below \in Nat /\ len = below + 3 * n /\ sp = b + below
  BY ONLY <1>8, <1>10, <1>11, <1>13, <1>14
<1>16. \A k \in 1 .. n :
         /\ kinds[below + 3 * k - 1] \in VAL_INTEGER .. VAL_FUNCTION
         /\ kinds[below + 3 * k - 1] = VAL_VECTOR <=>
              kinds[below + 3 * k - 2] = Temp
  <2>1. ElementsOK(image, views, Frame.fn, IP)
    BY ONLY <1>1, InstructionViews
  <2>2. /\ OpAt(image.fns[Frame.fn], IP) = Op
        /\ ArgAt(image.fns[Frame.fn], IP, 1) = n
        /\ image.fns[Frame.fn] = Fn(framese)
    BY ONLY <1>1, <1>7, SameInstruction, InstructionViews
  <2> QED
    BY ONLY <1>1, <1>9, <1>10, <1>12, <1>14, <2>1, <2>2 DEF ElementsOK
<1>17. ASSUME NEW k \in 1 .. n
       PROVE  /\ below + 3 * k - 2 \in 1 .. len /\ below + 3 * k - 1 \in 1 .. len
              /\ b + (below + 3 * k - 2) - 1 = sp + 3 * (k - 1)
              /\ b + (below + 3 * k - 1) - 1 = sp + 3 * (k - 1) + 1
              /\ below + 3 * (k - 1) \in Nat
              /\ below + 3 * (k - 1) < below + 3 * k - 2
              /\ below + 3 * (k - 1) <= below + 3 * k
              /\ below + 3 * k \in Nat
              /\ below + 3 * k - 2 \in 1 .. below + 3 * k
  BY ONLY <1>10, <1>11, <1>15, k \in 1 .. n
<1>18. ASSUME NEW k \in 1 .. n
       PROVE  /\ Slot(sp + 3 * (k - 1)) = stack[b + (below + 3 * k - 2) - 1]
              /\ Slot(sp + 3 * (k - 1)) \in Value
              /\ Slot(sp + 3 * (k - 1) + 1).i = kinds[below + 3 * k - 1]
              /\ kinds[below + 3 * k - 2] = Temp =>
                   /\ Lower(Slot(sp + 3 * (k - 1)), Temp)
                   /\ Values[framese][below + 3 * k - 2] = Slot(sp + 3 * (k - 1))
                   /\ Kinds[framese][below + 3 * k - 2] = Temp
                   /\ VecIn(Slot(sp + 3 * (k - 1)), 0, a - lo)
  <2>1. PICK i : i = below + 3 * k - 2
    OBVIOUS
  <2>2. PICK j : j = below + 3 * k - 1
    OBVIOUS
  <2>3. i \in 1 .. len /\ j \in 1 .. len
        /\ b + i - 1 = sp + 3 * (k - 1) /\ b + j - 1 = sp + 3 * (k - 1) + 1
    BY ONLY <1>17, <2>1, <2>2, k \in 1 .. n
  <2>4. /\ stack[b + i - 1] \in Value /\ Slot(b + i - 1) = stack[b + i - 1]
        /\ Values[framese][i] = stack[b + i - 1] /\ Kinds[framese][i] = kinds[i]
        /\ KindHeld(stack[b + i - 1], kinds[i])
    BY ONLY <1>1, <1>2, <1>5, <1>6, <1>9, <2>3, TopHeld, AInv
  <2>5. /\ Slot(b + j - 1) = stack[b + j - 1]
        /\ KindHeld(stack[b + j - 1], kinds[j])
    BY ONLY <1>1, <1>2, <1>5, <1>6, <1>9, <2>3, TopHeld, AInv
  <2>6. kinds[j] >= 0
    BY ONLY <1>16, <2>2, k \in 1 .. n DEF VAL_INTEGER, VAL_FUNCTION
  <2>7. ASSUME kinds[i] = Temp
        PROVE  Lower(stack[b + i - 1], Temp) /\ VecIn(stack[b + i - 1], 0, a - lo)
    <3>1. Lower(stack[b + i - 1], kinds[i])
      BY ONLY <2>4, <2>7 DEF KindHeld, Lower, Temp, Copied
    <3>2. VecIn(stack[b + i - 1], 0, a - lo)
      BY ONLY <1>1, <1>2, <1>3, <1>4, <1>5, <1>6, <1>9, <2>3, <3>1, VectorAt, AInv
    <3> QED
      BY ONLY <2>7, <3>1, <3>2
  <2>8. Slot(sp + 3 * (k - 1) + 1).i = kinds[j]
    BY ONLY <2>3, <2>5, <2>6 DEF KindHeld
  <2> QED
    BY ONLY <2>1, <2>2, <2>3, <2>4, <2>7, <2>8
<1> DEFINE vec(k)  == Slot(sp + 3 * (k - 1))
           temp(k) == kinds[below + 3 * k - 2] = Temp
           cells(k) == WrittenCells(n, sp, k)
<1>19. ASSUME NEW k \in 1 .. n
       PROVE  /\ cells(k) = IF temp(k) THEN vec(k).n ELSE 0
              /\ temp(k) => vec(k).n \in Nat /\ vec(k).i \in Int
                            /\ vec(k).i + vec(k).n <= a - lo
              /\ cells(k) \in Nat
  <2>1. PICK v : v = vec(k)
    OBVIOUS
  <2>2. v \in Value /\ (temp(k) => VecIn(v, 0, a - lo))
    BY ONLY <1>18, <2>1, k \in 1 .. n
  <2>3. v.i \in Int /\ v.n \in Int
    BY ONLY <2>2, ValueFields
  <2>4. temp(k) => v.n \in Nat /\ v.i + v.n <= a - lo
    BY ONLY <2>2, <2>3 DEF VecIn
  <2>5. Slot(sp + 3 * (k - 1) + 1).i = VAL_VECTOR <=> temp(k)
    BY ONLY <1>16, <1>18, k \in 1 .. n
  <2>6. cells(k) = IF temp(k) THEN Popped(v.n) ELSE 0
    BY ONLY <2>1, <2>5 DEF WrittenCells
  <2>7. v.n \in Nat => Popped(v.n) = v.n
    BY DEF Popped
  <2> QED
    BY ONLY <2>1, <2>3, <2>4, <2>6, <2>7
<1>20. \E g : WrittenFrom(n, sp, g)
  BY ONLY <1>11, <1>19, WrittenSums
<1>21. PICK g : WrittenFrom(n, sp, g) /\ Resume(NextIP, sp, ASP - Capped(g[n]))
  BY ONLY <1>1, <1>7, <1>8, <1>20, WriteResumes, Write, status' = "run"
<1>22. /\ g[0] = 0 /\ \A k \in 0 .. n : g[k] \in Nat
       /\ \A k \in 1 .. n : g[k] = g[k - 1] + cells(k)
  <2>1. g = [k \in 0 .. n |-> IF k = 0 THEN 0 ELSE g[k - 1] + cells(k)]
    BY ONLY <1>21 DEF WrittenFrom
  <2> HIDE DEF cells
  <2>2. g[0] = 0
    BY ONLY <1>11, <2>1
  <2>3. \A k \in 1 .. n : g[k] = g[k - 1] + cells(k)
    <3> SUFFICES ASSUME NEW k \in 1 .. n
                 PROVE  g[k] = g[k - 1] + cells(k)
      OBVIOUS
    <3>1. k \in 0 .. n /\ k # 0
      BY ONLY <1>11, k \in 1 .. n
    <3> QED
      BY ONLY <2>1, <3>1
  <2> DEFINE T == {k \in 0 .. n : g[k] \in Nat}
  <2>4. 0 \in T
    BY ONLY <1>11, <2>2
  <2>5. \A k \in 0 .. (n - 1) : k \in T => k + 1 \in T
    <3> SUFFICES ASSUME NEW k \in 0 .. (n - 1), k \in T
                 PROVE  k + 1 \in T
      OBVIOUS
    <3>1. k + 1 \in 1 .. n /\ (k + 1) - 1 = k /\ k + 1 \in 0 .. n
      BY ONLY <1>11, k \in 0 .. (n - 1)
    <3>2. g[k + 1] = g[k] + cells(k + 1) /\ cells(k + 1) \in Nat /\ g[k] \in Nat
      BY <1>19, <2>3, <3>1
    <3>3. g[k + 1] \in Nat
      BY ONLY <3>2
    <3> QED
      BY ONLY <3>1, <3>3
  <2> HIDE DEF T
  <2>6. \A k \in 0 .. n : k \in T
    BY ONLY <1>11, <2>4, <2>5, InductionUpTo
  <2>7. \A k \in 0 .. n : g[k] \in Nat
    BY ONLY <2>6 DEF T
  <2> QED
    BY ONLY <2>2, <2>3, <2>7
<1>23. PICK total : total = g[n]
  OBVIOUS
<1>24. total \in Nat
  BY ONLY <1>11, <1>22, <1>23
<1> HIDE DEF vec, temp, cells
<1> DEFINE left(k) == a - lo - (total - g[k])
           T == {j \in 0 .. n : RoomLeft(framese, below + 3 * (n - j), Values,
                                         Kinds, Asps, left(n - j))}
<1>25. 0 \in T
  <2>1. left(n - 0) = a - lo /\ below + 3 * (n - 0) = len /\ a - lo \in Int
        /\ a - lo >= a - lo /\ len <= len
    BY ONLY <1>10, <1>11, <1>15, <1>23, <1>24
  <2>2. RoomLeft(framese, len, Values, Kinds, Asps, a - lo)
    BY ONLY <1>1, <1>2, <1>3, <1>4, <1>5, <1>10, <2>1, RoomAbove, AInv
  <2>3. RoomLeft(framese, below + 3 * (n - 0), Values, Kinds, Asps, left(n - 0))
    BY ONLY <2>1, <2>2
  <2>4. 0 \in 0 .. n
    BY ONLY <1>11
  <2> QED
    BY ONLY <2>3, <2>4
<1>26. ASSUME NEW j \in 0 .. (n - 1), j \in T
       PROVE  j + 1 \in T
  <2>1. PICK k : k = n - j
    OBVIOUS
  <2>2. k \in 1 .. n /\ n - (j + 1) = k - 1 /\ j + 1 \in 0 .. n
        /\ k \in 0 .. n /\ k - 1 \in 0 .. n
    BY ONLY <1>11, <2>1, j \in 0 .. (n - 1)
  <2>3. RoomLeft(framese, below + 3 * k, Values, Kinds, Asps, left(k))
    BY <1>26, <2>1
  <2>4. g[k] = g[k - 1] + cells(k) /\ g[k] \in Nat /\ g[k - 1] \in Nat
    BY ONLY <1>22, <2>2
  <2>5. PICK x : x = g[k - 1]
    OBVIOUS
  <2>6. PICK y : y = g[k]
    OBVIOUS
  <2>7. PICK s : s = left(k - 1)
    OBVIOUS
  <2>8. x \in Nat /\ y \in Nat /\ y = x + cells(k) /\ s = a - lo - (total - x)
        /\ left(k) = a - lo - (total - y) /\ s \in Int /\ left(k) \in Int
    BY ONLY <1>10, <1>24, <2>4, <2>5, <2>6, <2>7
  <2> HIDE DEF left
  <2>9. PICK p : p = below + 3 * (k - 1)
    OBVIOUS
  <2>10. p \in Nat /\ p < below + 3 * k - 2 /\ p <= below + 3 * k
         /\ below + 3 * k - 2 \in 1 .. len
         /\ below + 3 * k - 2 \in 1 .. below + 3 * k
         /\ below + 3 * k \in Nat
    BY ONLY <1>17, <2>2, <2>9
  <2>11. RoomLeft(framese, p, Values, Kinds, Asps, s)
    <3>1. CASE temp(k)
      <4>1. PICK i : i = below + 3 * k - 2
        OBVIOUS
      <4>2. /\ i \in 1 .. len /\ kinds[i] = Temp /\ p < i
            /\ vec(k) = stack[b + i - 1] /\ Lower(vec(k), Temp)
            /\ Values[framese][i] = vec(k) /\ Kinds[framese][i] = Temp
            /\ i \in 1 .. below + 3 * k
        BY ONLY <1>18, <2>2, <2>10, <3>1, <4>1 DEF temp, vec
      <4>3. vec(k).i + vec(k).n <= left(k)
        BY ONLY <2>3, <4>2 DEF RoomLeft
      <4>4. vec(k).i \in Int /\ vec(k).n \in Nat /\ cells(k) = vec(k).n
        BY ONLY <1>19, <2>2, <3>1 DEF temp, cells, vec
      <4>5. vec(k).i <= s
        <5>1. PICK vi : vi = vec(k).i
          OBVIOUS
        <5>2. PICK vn : vn = vec(k).n
          OBVIOUS
        <5>3. /\ vi \in Int /\ vn \in Nat /\ y = x + vn
              /\ vi + vn <= a - lo - (total - y)
          BY ONLY <2>8, <4>3, <4>4, <5>1, <5>2
        <5>4. vi <= s
          BY ONLY <1>10, <1>24, <2>8, <5>3
        <5> QED
          BY ONLY <5>1, <5>4
      <4> QED
        BY ONLY <1>1, <1>2, <1>5, <1>6, <1>9, <2>8, <2>10, <4>2, <4>5, RoomBelow,
                AInv
    <3>2. CASE ~temp(k)
      <4>1. cells(k) = 0
        BY ONLY <1>19, <2>2, <3>2 DEF temp, cells
      <4>2. s = left(k)
        BY ONLY <2>8, <4>1
      <4>3. \A c \in 1 .. p : c \in 1 .. below + 3 * k
        BY ONLY <2>10
      <4> QED
        BY ONLY <2>3, <4>2, <4>3 DEF RoomLeft
    <3> QED
      BY ONLY <3>1, <3>2
  <2>12. RoomLeft(framese, below + 3 * (n - (j + 1)), Values, Kinds, Asps,
                  left(n - (j + 1)))
    BY ONLY <2>2, <2>7, <2>9, <2>11
  <2> QED
    BY ONLY <2>2, <2>12 DEF T
<1> HIDE DEF T
<1>27. n \in T
  <2>1. \A j \in 0 .. n : j \in T
    BY ONLY <1>11, <1>25, <1>26, InductionUpTo
  <2> QED
    BY ONLY <1>11, <2>1
<1>28. PICK s : s = a - lo - total
  OBVIOUS
<1>29. RoomLeft(framese, below, Values, Kinds, Asps, s) /\ s \in Int
  <2>1. below + 3 * (n - n) = below /\ n - n = 0
    BY ONLY <1>11, <1>15
  <2>2. left(n - n) = s
    BY ONLY <1>10, <1>22, <1>24, <1>28, <2>1
  <2>3. RoomLeft(framese, below + 3 * (n - n), Values, Kinds, Asps, left(n - n))
    BY ONLY <1>27 DEF T
  <2>4. RoomLeft(framese, below, Values, Kinds, Asps, s)
    BY ONLY <2>1, <2>2, <2>3
  <2> QED
    BY ONLY <1>10, <1>24, <1>28, <2>4
<1>30. Capped(g[n]) = total
  <2>1. 0 <= s
    BY ONLY <1>29 DEF RoomLeft
  <2>2. total \in 0 .. StackMax
    BY ONLY <1>10, <1>24, <1>28, <1>29, <2>1, SizesAssumption
  <2> QED
    BY ONLY <1>23, <2>2 DEF Capped
<1>31. Resume(NextIP, sp, a - total)
  BY ONLY <1>3, <1>21, <1>30
<1>32. UNCHANGED << framese, stack, argstack, argsp, argasp >> /\ UNCHANGED astack
  <2>1. UNCHANGED << framese, stack, astack, argstack, argsp, argasp >>
    BY ONLY <1>1, <1>7, <1>8, <1>20, WriteResumes, Write, status' = "run"
  <2> QED
    BY ONLY <2>1
<1>33. ScalarElements'
  BY <1>1, <1>32, SameElements
<1>34. lo = LooseAfter(image, views, Frame.fn, IP)
  BY ONLY <1>1, <1>2, <1>4, SameAfter
<1>35. s <= (a - total) - lo /\ a - total \in Int /\ lo \in Int
  BY ONLY <1>10, <1>24, <1>28
<1>36. below = Len(ShapeOf(framese)) - 3 * n
  BY ONLY <1>5, <1>14
<1> QED
  BY ONLY <1>1, <1>2, <1>11, <1>12, <1>29, <1>31, <1>32, <1>33, <1>34, <1>35,
          <1>36, TakeAll, AInv, VInv', status' = "run", UNCHANGED image

(* A store to an element moves no end.                                      *)
LEMMA SetIndexArrays ==
  ASSUME AInv, VInv', status' = "run", UNCHANGED image, SetIndexLocal
  PROVE  Arrays' /\ Arguments'
<1>1. status = "run" /\ Op = OP_SET_INDEX_LOCAL_LONG /\ VInv /\ DInv
      /\ Fetch(OP_SET_INDEX_LOCAL_LONG)
  BY DEF SetIndexLocal, Fetch, AInv, VInv
<1>2. /\ Op \notin Peeks
      /\ Op \notin {OP_SET_LOCAL_LONG, OP_CALL, OP_ARGSTACK_LOAD,
                    OP_ARGSTACK_UNLOAD}
      /\ Op # OP_RETURN
      /\ Op \notin {OP_POP_TO_ASTACK, OP_ASTACK_SHIFT_UP, OP_LOC_ALINK_LONG,
                    OP_GET_INDEX, OP_CALL}
  BY ONLY <1>1 DEF Peeks, OP_SET_INDEX_LOCAL_LONG, OP_SET_LOCAL_LONG,
       OP_SHIFT_ASTACKENT_TO_BASE, OP_CALL, OP_ARGSTACK_LOAD,
       OP_ARGSTACK_UNLOAD, OP_RETURN, OP_SKIPF_LONG, OP_POP_TO_ASTACK,
       OP_ASTACK_SHIFT_UP, OP_LOC_ALINK_LONG, OP_GET_INDEX
<1>3. PICK a : a = ASP
  OBVIOUS
<1>4. PICK lo : lo = View(framese).loose
  OBVIOUS
<1>5. PICK len : len = Len(ShapeOf(framese))
  OBVIOUS
<1>6. PICK n : n = Arg(5)
  OBVIOUS
<1>7. PICK rank : rank = Arg(6)
  OBVIOUS
<1>8. PICK sp : sp = SP
  OBVIOUS
<1>9. /\ a \in Int /\ lo \in Nat /\ len \in Nat /\ Frame.base \in Nat
      /\ sp = Frame.base + len /\ sp \in Int
      /\ View(framese) = views[Frame.fn].at[IP]
      /\ Len(View(framese).kinds) = len
  BY ONLY <1>1, <1>3, <1>4, <1>5, <1>8, Current, AInv
<1>10. n \in Nat /\ rank \in Nat
  BY ONLY <1>1, <1>6, <1>7, HandlerFacts, Operands DEF DInv
<1>11. PICK p : p = n + rank + 1
  OBVIOUS
<1>12. Effect(p, << >>) /\ Pops(Fn(framese), IP) = p /\ p \in Nat
       /\ sp - rank - n - 1 = sp - p
  <2>1. Effect(Arg(5) + Arg(6) + 1, << >>)
    BY ONLY <1>1, Effects
  <2>2. Effect(p, << >>)
    BY ONLY <1>6, <1>7, <1>11, <2>1
  <2>3. p \in Nat /\ sp - rank - n - 1 = sp - p
    BY ONLY <1>9, <1>10, <1>11
  <2> QED
    BY ONLY <2>2, <2>3 DEF Effect
<1>13. p <= len
  BY ONLY <1>1, <1>2, <1>5, <1>12, EnoughThere
<1>14. PICK val : val = peekv(rank + n + 1)
  OBVIOUS
<1>15. PICK start : start = Slot(framestack[FrameAt(ArgLong(1))].base + ArgLong(3)).i
                     + index_flattened(Dimensions(rank), Padded(Indices(n, rank), rank))
  OBVIOUS
<1>16. /\ Resume(NextIP, sp - rank - n - 1, a)
       /\ UNCHANGED << framese, stack, argstack, argsp, argasp >>
       /\ astack' = IF n = rank THEN [astack EXCEPT ![start] = val]
                    ELSE CopyCells(astack, start, val.i, val.n)
  BY <1>1, <1>3, <1>6, <1>7, <1>8, <1>14, <1>15
     DEF SetIndexLocal, Wild, runtime_error
<1>17. ASSUME n = rank
       PROVE  val.t # "vec"
  <2>1. ElementsOK(image, views, Frame.fn, IP)
    BY ONLY <1>1, InstructionViews
  <2>2. /\ OpAt(image.fns[Frame.fn], IP) = Op
        /\ ArgAt(image.fns[Frame.fn], IP, 5) = n
        /\ ArgAt(image.fns[Frame.fn], IP, 6) = rank
        /\ image.fns[Frame.fn] = Fn(framese)
    BY ONLY <1>1, <1>6, <1>7, SameInstruction, InstructionViews
  <2>3. PICK k : k = len - p + 1
    OBVIOUS
  <2>4. k \in 1 .. len /\ Frame.base + k - 1 = sp - (rank + n + 1)
    <3>1. PICK b : b = Frame.base
      OBVIOUS
    <3>2. b \in Nat /\ len \in Nat /\ sp = b + len
      BY ONLY <1>9, <3>1
    <3>3. k \in 1 .. len /\ b + k - 1 = sp - (rank + n + 1)
      BY ONLY <1>10, <1>11, <1>13, <2>3, <3>2
    <3> QED
      BY ONLY <3>1, <3>3
  <2>5. IsScalar(View(framese).kinds[k])
    BY ONLY <1>1, <1>9, <1>12, <1>17, <2>1, <2>2, <2>3 DEF ElementsOK
  <2>6. KindHeld(Slot(Frame.base + k - 1), View(framese).kinds[k])
    BY ONLY <1>1, <1>2, <1>5, <2>4, TopHeld, AInv
  <2>7. KindHeld(val, View(framese).kinds[k])
    BY ONLY <1>8, <1>14, <2>4, <2>6 DEF peekv
  <2> QED
    BY ONLY <2>5, <2>7 DEF KindHeld
<1>18. ScalarElements'
  <2>1. CASE n = rank
    <3>1. val.t # "vec" /\ astack' = [astack EXCEPT ![start] = val]
      BY ONLY <1>16, <1>17, <2>1
    <3>2. astack \in [CellIndex -> Value] /\ \A c \in CellIndex : astack[c].t # "vec"
      BY <1>1 DEF AInv, DInv, IInv, TypeOK, Arrays, ScalarElements
    <3>3. \A c \in CellIndex : astack'[c].t # "vec"
      BY ONLY <3>1, <3>2
    <3> QED
      BY ONLY <3>3 DEF ScalarElements, CellIndex
  <2>2. CASE n # rank
    BY <1>1, <1>16, <2>2, CopiedElements
  <2> QED
    BY ONLY <2>1, <2>2
<1>19. lo = LooseAfter(image, views, Frame.fn, IP)
  BY ONLY <1>1, <1>2, <1>4, SameAfter
<1>20. a - lo >= ASP - View(framese).loose /\ lo \in Int
  <2>1. a - lo >= a - lo /\ lo \in Int
    BY ONLY <1>9
  <2> QED
    BY ONLY <1>3, <1>4, <2>1
<1>21. UNCHANGED << framese, stack, argstack, argsp, argasp >>
  BY ONLY <1>16
<1> QED
  BY ONLY <1>1, <1>2, <1>9, <1>12, <1>16, <1>18, <1>19, <1>20, <1>21,
          TakeStays, AInv, VInv', status' = "run", UNCHANGED image

-----------------------------------------------------------------------------
(* Locals.                                                                  *)

(* Below the top of the stack every cell belongs to a frame.                *)
InFrames(c) == \E f \in 0 .. framese : \E j \in 1 .. Len(ShapeOf(f)) :
                 c = framestack[f].base + j - 1

LEMMA CellFound ==
  ASSUME DInv, status = "run"
  PROVE  \A c \in Nat : c < SP => InFrames(c)
<1> DEFINE T == {g \in 0 .. framese :
                   \A c \in Nat : c < framestack[g].base + Len(ShapeOf(g)) => InFrames(c)}
<1>1. framese \in Nat
  BY CurrentFacts
<1>2. \A f \in 0 .. framese : framestack[f].base \in Nat /\ Len(ShapeOf(f)) \in Nat
  BY FrameHolds
<1>3. ASSUME NEW g \in 0 .. framese, NEW c \in Nat, framestack[g].base <= c,
             c < framestack[g].base + Len(ShapeOf(g))
      PROVE  InFrames(c)
  <2>1. PICK b : b = framestack[g].base
    OBVIOUS
  <2>2. PICK len : len = Len(ShapeOf(g))
    OBVIOUS
  <2>3. PICK j : j = c - b + 1
    OBVIOUS
  <2>4. j \in 1 .. len /\ c = b + j - 1
    BY ONLY <1>2, <1>3, <2>1, <2>2, <2>3, g \in 0 .. framese, c \in Nat
  <2> QED
    BY ONLY <2>1, <2>2, <2>4, g \in 0 .. framese DEF InFrames
<1>4. 0 \in T
  <2>1. 0 \in 0 .. framese
    BY ONLY <1>1
  <2>2. framestack[0].base = 0
    BY DEF DInv, FrameInv, ProgramCell
  <2>3. \A c \in Nat : framestack[0].base <= c
    BY ONLY <2>2
  <2> QED
    BY ONLY <1>3, <2>1, <2>3
<1>5. ASSUME NEW g \in 0 .. framese - 1, g \in T
      PROVE  g + 1 \in T
  <2>1. g + 1 \in 0 .. framese /\ g \in 0 .. framese /\ g < framese
    BY ONLY <1>1, g \in 0 .. framese - 1
  <2>2. framestack[g + 1].base = framestack[g].base + Len(ShapeOf(g))
    BY <2>1 DEF DInv, FrameInv, Discipline, HeightsAgree, Height
  <2>3. ASSUME NEW c \in Nat, c < framestack[g + 1].base + Len(ShapeOf(g + 1))
        PROVE  InFrames(c)
    <3>1. CASE framestack[g + 1].base <= c
      BY ONLY <1>3, <2>1, <2>3, <3>1
    <3>2. CASE ~(framestack[g + 1].base <= c)
      <4>1. framestack[g + 1].base \in Nat
        BY ONLY <1>2, <2>1
      <4>2. c < framestack[g + 1].base
        BY ONLY <3>2, <4>1, c \in Nat
      <4> QED
        BY ONLY <1>5, <2>2, <4>2, c \in Nat
    <3> QED
      BY ONLY <3>1, <3>2
  <2> QED
    BY ONLY <2>1, <2>3
<1>6. \A g \in 0 .. framese : g \in T
  <2> HIDE DEF T
  <2> QED
    BY ONLY <1>1, <1>4, <1>5, InductionUpTo
<1>7. framese \in T /\ SP = framestack[framese].base + Len(ShapeOf(framese))
  <2>1. framese \in 0 .. framese
    BY ONLY <1>1
  <2> QED
    BY <1>6, <2>1, CurrentFacts DEF Frame
<1> QED
  BY ONLY <1>7

(* A vector that a frame holds, and that is no copy of an argument, ends    *)
(* below the loose cells of the current frame.                              *)
LEMMA VectorOf ==
  ASSUME AInv, status = "run", Op # OP_RETURN, NEW f \in 0 .. framese,
         NEW k \in 1 .. Len(ShapeOf(f)),
         NEW v, v = stack[framestack[f].base + k - 1],
         Lower(v, View(f).kinds[k])
  PROVE  VecIn(v, 0, ASP - View(framese).loose)
<1>1. /\ FramesTyped /\ VInv /\ VectorsIn(framese, Values, Kinds, Rooms)
      /\ RoomsIn(framese, Asps, Rooms)
      /\ \A g \in 0 .. framese : Rooms[g] = framestack[g].asp - View(g).loose
  BY CalmFacts
<1>2. framese \in 0 .. framese /\ framese \in Nat
  BY ONLY <1>1, InstructionViews, status = "run"
<1>3. /\ k \in 1 .. Len(Kinds[f])
      /\ v = Values[f][k] /\ View(f).kinds[k] = Kinds[f][k]
  BY ONLY <1>1, f \in 0 .. framese, k \in 1 .. Len(ShapeOf(f)),
          v = stack[framestack[f].base + k - 1] DEF FramesTyped
<1>4. VecIn(v, 0, Rooms[f])
  BY ONLY <1>1, <1>3, f \in 0 .. framese, Lower(v, View(f).kinds[k])
     DEF VectorsIn
<1>5. Rooms[framese] = ASP - View(framese).loose
  BY ONLY <1>1, <1>2 DEF ASP, Frame
<1>6. v \in Value
  <2>1. /\ Values \in [0 .. framese -> Seq(Value)]
        /\ \A g \in 0 .. framese : Len(Values[g]) = Len(Kinds[g])
    BY ONLY <1>1 DEF FramesTyped, FramesType
  <2>2. Values[f] \in Seq(Value) /\ k \in 1 .. Len(Values[f])
    BY ONLY <1>3, <2>1, f \in 0 .. framese
  <2> QED
    BY ONLY <1>3, <2>2, ElementOf
<1>7. \A g \in 0 .. framese : Asps[g] \in Int /\ Rooms[g] \in Int
  <2>1. Asps \in [0 .. framese -> Int] /\ Rooms \in [0 .. framese -> Int]
    BY ONLY <1>1 DEF FramesTyped, FramesType
  <2> QED
    BY ONLY <2>1
<1>8. CASE f = framese
  BY ONLY <1>4, <1>5, <1>8
<1>9. CASE f # framese
  <2>1. f \in 0 .. framese - 1
    BY ONLY <1>2, <1>9, f \in 0 .. framese
  <2>2. Rooms[f] <= Asps[f] /\ Asps[f] <= Rooms[framese]
    BY ONLY <1>1, <1>2, <2>1, f \in 0 .. framese DEF RoomsIn
  <2>3. Rooms[f] <= Rooms[framese]
    BY ONLY <1>2, <1>7, <2>2, f \in 0 .. framese
  <2> QED
    BY ONLY <1>2, <1>4, <1>5, <1>6, <1>7, <2>3, f \in 0 .. framese, ValueFields
       DEF VecIn
<1> QED
  BY ONLY <1>8, <1>9

(* The kinds of what the frames below hold.                                 *)
LEMMA OuterHeld ==
  ASSUME AInv, status = "run", Op # OP_RETURN, NEW f \in 0 .. framese - 1,
         NEW k \in 1 .. Len(ShapeOf(f)),
         NEW v, v = stack[framestack[f].base + k - 1]
  PROVE  /\ k # Len(ShapeOf(f)) => KindHeld(v, View(f).kinds[k])
         /\ k = Len(ShapeOf(f)) => v.t # "vec"
<1>1. FramesTyped /\ VInv /\ KindsIn(framese, Values, Kinds)
  BY CalmFacts
<1>2. framese \in Nat
  BY ONLY <1>1, InstructionViews, status = "run"
<1>3. f \in 0 .. framese /\ f # framese
  BY ONLY <1>2, f \in 0 .. framese - 1
<1>4. /\ k \in 1 .. Len(Kinds[f]) /\ Len(Kinds[f]) = Len(ShapeOf(f))
      /\ v = Values[f][k] /\ View(f).kinds[k] = Kinds[f][k]
  BY ONLY <1>1, <1>3, k \in 1 .. Len(ShapeOf(f)),
          v = stack[framestack[f].base + k - 1] DEF FramesTyped
<1>5. ASSUME k # Len(ShapeOf(f))
      PROVE  KindHeld(v, View(f).kinds[k])
  <2>1. Len(Kinds[f]) \in Nat
    <3>1. Kinds[f] \in Seq(Int)
      BY ONLY <1>1, <1>3 DEF FramesTyped, FramesType
    <3> QED
      BY ONLY <3>1
  <2>2. k \in Known(f, framese, Kinds)
    BY ONLY <1>3, <1>4, <1>5, <2>1 DEF Known
  <2> QED
    BY ONLY <1>1, <1>3, <1>4, <2>2 DEF KindsIn
<1>6. ASSUME k = Len(ShapeOf(f))
      PROVE  v.t # "vec"
  BY ONLY <1>1, <1>4, <1>6, f \in 0 .. framese - 1 DEF KindsIn
<1> QED
  BY ONLY <1>5, <1>6

(* A local that is loaded is no copy of an argument.                        *)
LEMMA LocalPushable ==
  ASSUME NEW m, NEW n, NEW V, NEW K, NEW A, NEW s, NEW v \in Value,
         NEW q \in {AnyKind, ScalarKind},
         q = ScalarKind => v.t # "vec", v.t = "vec" => VecIn(v, 0, s)
  PROVE  Pushable(m, n, V, K, A, s, v, q) /\ q # Copied /\ q \in Int
<1>1. q # Copied /\ q \in Int /\ q # Moved /\ q # Temp
  BY DEF AnyKind, ScalarKind, Copied, Moved, Temp
<1>2. KindHeld(v, q)
  BY <1>1 DEF KindHeld, IsScalar, AnyKind, ScalarKind, Temp, Copied, Moved
<1>3. Lower(v, q) => VecIn(v, 0, s)
  BY DEF Lower
<1> QED
  BY ONLY <1>1, <1>2, <1>3, v \in Value, Zenon DEF Pushable

(* What a load of a local finds: a vector, if it may be one, that lies      *)
(* below the loose cells.                                                   *)
Found(v, q) ==
  /\ q \in {AnyKind, ScalarKind}
  /\ q = ScalarKind => v.t # "vec"
  /\ v.t = "vec" => VecIn(v, 0, ASP - View(framese).loose)

LEMMA FoundInside ==
  ASSUME AInv, status = "run", Op # OP_RETURN,
         NEW k \in Nat, k < Len(ShapeOf(framese)),
         View(framese).kinds[k + 1] # Copied
  PROVE  Found(Slot(Frame.base + k),
               IF IsScalar(View(framese).kinds[k + 1]) THEN ScalarKind ELSE AnyKind)
<1>1. PICK j : j = k + 1
  OBVIOUS
<1>2. PICK v : v = stack[Frame.base + j - 1]
  OBVIOUS
<1>3. /\ j \in 1 .. Len(ShapeOf(framese)) /\ Frame.base + j - 1 = Frame.base + k
  <2>1. Len(ShapeOf(framese)) \in Nat /\ Frame.base \in Nat
    BY Current
  <2> QED
    BY ONLY <1>1, <2>1, k \in Nat, k < Len(ShapeOf(framese))
<1>4. /\ v = Slot(Frame.base + k) /\ KindHeld(v, View(framese).kinds[j])
  BY ONLY <1>2, <1>3, TopHeld, AInv, status = "run", Op # OP_RETURN
<1>5. v.t = "vec" => VecIn(v, 0, ASP - View(framese).loose)
  <2>1. SUFFICES ASSUME v.t = "vec"
                 PROVE  VecIn(v, 0, ASP - View(framese).loose)
    OBVIOUS
  <2>2. Lower(v, View(framese).kinds[j])
    BY <1>1, <2>1 DEF Lower
  <2> QED
    BY ONLY <1>2, <1>3, <2>2, VectorAt, AInv, status = "run", Op # OP_RETURN
<1>6. CASE IsScalar(View(framese).kinds[j])
  BY ONLY <1>1, <1>4, <1>5, <1>6 DEF KindHeld, Found
<1>7. CASE ~IsScalar(View(framese).kinds[j])
  BY ONLY <1>1, <1>4, <1>5, <1>7 DEF Found, AnyKind, ScalarKind
<1> QED
  BY ONLY <1>6, <1>7

(* The program's own cell, ...                                              *)
LEMMA FoundProgram ==
  ASSUME DInv, status = "run", framese > 0
  PROVE  Found(Slot(framestack[0].base + 0), ScalarKind)
<1>1. framestack[0].base = 0 /\ stack[0] = FnV(2, image.fns[2].level)
  BY DEF DInv, FrameInv, ProgramCell
<1>2. stack \in [CellIndex -> Value] /\ 0 \in CellIndex
  BY SizesAssumption DEF DInv, IInv, TypeOK, CellIndex
<1>3. Slot(framestack[0].base + 0) = FnV(2, image.fns[2].level)
  BY ONLY <1>1, <1>2 DEF Slot, Cell
<1> QED
  BY ONLY <1>3 DEF Found, FnV

(* ... its variables, ...                                                   *)
LEMMA FoundGlobal ==
  ASSUME AInv, status = "run", Op # OP_RETURN, framese > 1,
         NEW k \in Nat, k < Len(views[2].held)
  PROVE  Found(Slot(framestack[1].base + k), views[2].held[k + 1])
<1>1. VInv /\ DInv /\ GlobalsAgree
  BY DEF AInv, VInv, Arrays
<1>2. /\ 2 \in DOMAIN image.fns /\ ViewHeaderOK(image, views, 2)
  BY <1>1 DEF VInv, DInv, WellFormed, ArraysWellFormed
<1>3. /\ views[2].held \in Seq({AnyKind, ScalarKind})
      /\ Len(views[2].held) = Len(image.fns[2].slots)
  BY <1>2 DEF ViewHeaderOK
<1>4. k < Len(image.fns[2].slots)
  BY <1>3
<1>5. PICK j : j = k + 1
  OBVIOUS
<1>6. /\ 1 \in 0 .. framese /\ j \in 1 .. Len(ShapeOf(1))
      /\ framestack[1].base + k = framestack[1].base + j - 1
  BY ONLY <1>1, <1>4, <1>5, OuterCells, status = "run", framese > 1, k \in Nat
<1>7. PICK v : v = stack[framestack[1].base + j - 1]
  OBVIOUS
<1>8. v = Slot(framestack[1].base + k)
  <2>1. framestack[1].base + j - 1 \in CellIndex
    BY <1>1, <1>6, FrameHolds
  <2>2. stack \in [CellIndex -> Value]
    BY <1>1 DEF DInv, IInv, TypeOK
  <2> QED
    BY ONLY <1>6, <1>7, <2>1, <2>2 DEF Slot, Cell
<1>9. j \in 1 .. Len(views[2].held) /\ views[2].held[j] \in {AnyKind, ScalarKind}
  <2>1. j \in 1 .. Len(views[2].held)
    BY ONLY <1>3, <1>5, k \in Nat, k < Len(views[2].held)
  <2> QED
    BY ONLY <1>3, <2>1, ElementOf
<1>10. IF views[2].held[j] = ScalarKind THEN View(1).kinds[j] = ScalarKind
       ELSE View(1).kinds[j] # Copied
  BY ONLY <1>1, <1>9, framese > 1 DEF GlobalsAgree
<1>11. View(1).kinds[j] # Copied
  BY ONLY <1>10 DEF ScalarKind, Copied
<1>12. v.t = "vec" => VecIn(v, 0, ASP - View(framese).loose)
  <2>1. SUFFICES ASSUME v.t = "vec"
                 PROVE  VecIn(v, 0, ASP - View(framese).loose)
    OBVIOUS
  <2>2. Lower(v, View(1).kinds[j])
    BY ONLY <1>11, <2>1 DEF Lower
  <2> QED
    BY ONLY <1>6, <1>7, <2>2, VectorOf, AInv, status = "run", Op # OP_RETURN
<1>13. views[2].held[j] = ScalarKind => v.t # "vec"
  <2>1. SUFFICES ASSUME views[2].held[j] = ScalarKind
                 PROVE  v.t # "vec"
    OBVIOUS
  <2>2. View(1).kinds[j] = ScalarKind
    BY ONLY <1>10, <2>1
  <2>3. 1 \in 0 .. framese - 1
    <3>1. framese \in Nat
      BY ONLY <1>1, InstructionViews, status = "run"
    <3> QED
      BY ONLY <3>1, framese > 1
  <2>4. CASE j # Len(ShapeOf(1))
    <3>1. KindHeld(v, View(1).kinds[j])
      BY ONLY <1>6, <1>7, <2>3, <2>4, OuterHeld, AInv, status = "run",
              Op # OP_RETURN
    <3> QED
      BY ONLY <2>2, <3>1 DEF KindHeld, IsScalar
  <2>5. CASE j = Len(ShapeOf(1))
    BY ONLY <1>6, <1>7, <2>3, <2>5, OuterHeld, AInv, status = "run",
            Op # OP_RETURN
  <2> QED
    BY ONLY <2>4, <2>5
<1> QED
  BY ONLY <1>5, <1>8, <1>9, <1>12, <1>13 DEF Found

(* ... and what the frames below the current one hold.                      *)
LEMMA FoundOutside ==
  ASSUME AInv, status = "run", Op # OP_RETURN, framese > 0, ~Blind(framese),
         NEW F \in 0 .. framese - 1, NEW k \in Nat,
         k < Len(ShapeOf(framese - 1))
  PROVE  Found(Slot(framestack[F].base + k), AnyKind)
<1>1. VInv /\ DInv /\ BlindAbove /\ framese \in Nat
  BY InstructionViews DEF AInv, VInv, Arrays
<1>2. PICK c : c = framestack[F].base + k
  OBVIOUS
<1>3. /\ F \in 0 .. framese /\ framese - 1 \in 0 .. framese /\ framese \in 0 .. framese
      /\ F < framese /\ framese - 1 < framese
      /\ F = framese - 1 \/ F < framese - 1
  BY ONLY <1>1, framese > 0, F \in 0 .. framese - 1
<1>4. /\ framestack[F].base \in Nat /\ framestack[framese].base \in Nat
      /\ framestack[framese - 1].base \in Nat
      /\ Len(ShapeOf(framese - 1)) \in Nat /\ Len(ShapeOf(F)) \in Nat
      /\ Len(ShapeOf(framese)) \in Nat
  BY ONLY <1>1, <1>3, FrameHolds, status = "run"
<1>5. framestack[framese - 1].base + Len(ShapeOf(framese - 1))
        <= framestack[framese].base
  BY ONLY <1>1, <1>3, FramesApart, status = "run"
<1>6. framestack[F].base <= framestack[framese - 1].base
  <2>1. CASE F = framese - 1
    BY ONLY <1>4, <2>1
  <2>2. CASE F < framese - 1
    <3>1. framestack[F].base + Len(ShapeOf(F)) <= framestack[framese - 1].base
      BY ONLY <1>1, <1>3, <2>2, FramesApart, status = "run"
    <3> QED
      BY ONLY <1>4, <3>1
  <2> QED
    BY ONLY <1>3, <2>1, <2>2
<1>7. c \in Nat /\ c < framestack[framese].base
  <2>1. PICK x : x = framestack[F].base
    OBVIOUS
  <2>2. PICK y : y = framestack[framese - 1].base
    OBVIOUS
  <2>3. PICK z : z = framestack[framese].base
    OBVIOUS
  <2>4. PICK w : w = Len(ShapeOf(framese - 1))
    OBVIOUS
  <2>5. /\ x \in Nat /\ y \in Nat /\ z \in Nat /\ w \in Nat /\ x <= y
        /\ y + w <= z /\ k < w /\ c = x + k
    BY ONLY <1>2, <1>4, <1>5, <1>6, <2>1, <2>2, <2>3, <2>4,
            k < Len(ShapeOf(framese - 1))
  <2> QED
    BY ONLY <2>3, <2>5, k \in Nat
<1>8. c < SP
  <2>1. SP = framestack[framese].base + Len(ShapeOf(framese))
    BY ONLY <1>1, CurrentFacts, status = "run" DEF Frame
  <2> QED
    BY ONLY <1>4, <1>7, <2>1
<1>9. PICK f \in 0 .. framese : \E j \in 1 .. Len(ShapeOf(f)) :
                                  c = framestack[f].base + j - 1
  BY ONLY <1>1, <1>7, <1>8, CellFound, status = "run" DEF InFrames
<1>10. PICK j \in 1 .. Len(ShapeOf(f)) : c = framestack[f].base + j - 1
  BY <1>9
<1>11. f \in 0 .. framese - 1
  <2>1. CASE f = framese
    BY ONLY <1>4, <1>7, <1>10, <2>1, j \in 1 .. Len(ShapeOf(f))
  <2>2. CASE f # framese
    BY ONLY <1>1, <2>2, f \in 0 .. framese
  <2> QED
    BY ONLY <2>1, <2>2
<1>12. NoneIn(Copied, View(f).kinds)
  <2>1. f < framese
    BY ONLY <1>1, <1>11
  <2> QED
    BY ONLY <1>1, <1>3, <2>1, f \in 0 .. framese, ~Blind(framese) DEF BlindAbove
<1>13. View(f).kinds[j] # Copied
  <2>1. Len(View(f).kinds) = Len(ShapeOf(f))
    BY ONLY <1>1, ViewFacts, f \in 0 .. framese, status = "run"
  <2> QED
    BY ONLY <1>12, <2>1, j \in 1 .. Len(ShapeOf(f)) DEF NoneIn
<1>14. PICK v : v = stack[c]
  OBVIOUS
<1>15. v = Slot(c)
  <2>1. c \in CellIndex
    BY <1>1, <1>10, FrameHolds
  <2>2. stack \in [CellIndex -> Value]
    BY <1>1 DEF DInv, IInv, TypeOK
  <2> QED
    BY ONLY <1>14, <2>1, <2>2 DEF Slot, Cell
<1>16. ASSUME v.t = "vec"
       PROVE  VecIn(v, 0, ASP - View(framese).loose)
  <2>1. Lower(v, View(f).kinds[j])
    BY ONLY <1>13, <1>16 DEF Lower
  <2>2. v = stack[framestack[f].base + j - 1]
    BY ONLY <1>10, <1>14
  <2> QED
    BY ONLY <2>1, <2>2, VectorOf, AInv, status = "run", Op # OP_RETURN,
            f \in 0 .. framese, j \in 1 .. Len(ShapeOf(f))
<1> QED
  BY ONLY <1>2, <1>15, <1>16 DEF Found, AnyKind, ScalarKind

LEMMA GetLocalArrays ==
  ASSUME AInv, VInv', status' = "run", UNCHANGED image, GetLocal
  PROVE  Arrays' /\ Arguments'
<1>1. status = "run" /\ Op = OP_GET_LOCAL_LONG /\ VInv /\ DInv
      /\ Fetch(OP_GET_LOCAL_LONG)
  BY DEF GetLocal, Fetch, AInv, VInv
<1>2. /\ Op # OP_RETURN /\ Op \notin Peeks
      /\ Op \notin {OP_POP_TO_ASTACK, OP_ASTACK_SHIFT_UP, OP_LOC_ALINK_LONG,
                    OP_GET_INDEX, OP_CALL, OP_ARGSTACK_LOAD, OP_ARGSTACK_UNLOAD}
  BY ONLY <1>1 DEF Peeks, OP_GET_LOCAL_LONG, OP_RETURN, OP_SKIPF_LONG,
       OP_SHIFT_ASTACKENT_TO_BASE, OP_POP_TO_ASTACK, OP_ASTACK_SHIFT_UP,
       OP_LOC_ALINK_LONG, OP_GET_INDEX, OP_CALL, OP_ARGSTACK_LOAD,
       OP_ARGSTACK_UNLOAD
<1>3. PICK off : off = ArgLong(1)
  OBVIOUS
<1>4. PICK k : k = ArgLong(3)
  OBVIOUS
<1>5. PICK lev : lev = Fn(framese).level
  OBVIOUS
<1>6. PICK f : f = FrameAt(off)
  OBVIOUS
<1>7. PICK v : v = Slot(framestack[f].base + k)
  OBVIOUS
<1>8. PICK q : q = PushedKind(image, views, Frame.fn, IP)
  OBVIOUS
<1>9. off \in Nat /\ k \in Nat
  BY <1>1, <1>3, <1>4, LongType, Operands DEF DInv, IInv
<1>10. /\ framese \in Nat /\ Frame.env = lev /\ lev \in Nat
       /\ lev > 0 => framese > 0
       /\ lev > 1 => framese > 1
       /\ Frame.env <= framese
  <2>1. framese \in Nat /\ framese \in 0 .. framese
    BY <1>1, CurrentFacts
  <2>2. Frame.env <= framese
    BY <1>1, <2>1 DEF DInv, FrameInv, Discipline, FramesKnown, Frame
  <2> QED
    BY ONLY <1>1, <1>5, <2>1, <2>2, Levels
<1>11. off <= lev /\ (off = 0 => k < Len(ShapeOf(framese)))
  BY <1>1, <1>3, <1>4, <1>5, CurrentFacts, SameInstruction
     DEF InstructionOK, AddressOK
<1>12. /\ View(framese) = views[Frame.fn].at[IP]
       /\ Fn(framese) = image.fns[Frame.fn]
       /\ VariablesOK(image, views, Frame.fn, IP)
       /\ CallersAgree
  BY <1>1, InstructionViews DEF AInv, Arrays
<1>13. IF off = 0 THEN View(framese).kinds[k + 1] # Copied
       ELSE \/ lev - off = 0 /\ k = 0
            \/ lev - off = 1 /\ k < Len(views[2].held)
            \/ /\ lev - off > 1 /\ off = 1
               /\ ~views[Frame.fn].blind /\ k < views[Frame.fn].reach
  <2>1. /\ OpAt(image.fns[Frame.fn], IP) = Op
        /\ LongAt(image.fns[Frame.fn], IP, 1) = off
        /\ LongAt(image.fns[Frame.fn], IP, 3) = k
    BY <1>3, <1>4, SameInstruction
  <2> QED
    BY ONLY <1>1, <1>5, <1>12, <2>1 DEF VariablesOK
<1>14. q = IF off # 0 THEN OuterKind(views, lev - off, k)
           ELSE IF IsScalar(View(framese).kinds[k + 1]) THEN ScalarKind
           ELSE AnyKind
  BY ONLY <1>1, <1>3, <1>4, <1>5, <1>8, <1>12, PushedKinds
<1>15. f \in FrameIndex /\ pushv(NextIP, SP, ASP, v)
  <2>1. f \in FrameIndex
    <3>1. f \in 0 .. framese
      BY ONLY <1>1, <1>5, <1>6, <1>9, <1>11, LocalFrame
    <3>2. framese \in FrameIndex
      BY <1>1 DEF DInv, IInv, TypeOK
    <3> QED
      BY ONLY <3>1, <3>2, SizesAssumption DEF FrameIndex
  <2> QED
    BY <1>3, <1>4, <1>6, <1>7, <2>1 DEF GetLocal
<1>16. Found(v, q)
  <2>1. CASE off = 0
    <3>1. framestack[f].base = Frame.base
      BY ONLY <1>6, <2>1 DEF FrameAt, Frame
    <3> QED
      BY ONLY <1>1, <1>2, <1>7, <1>9, <1>11, <1>13, <1>14, <2>1, <3>1,
              FoundInside, AInv
  <2>2. CASE off # 0 /\ lev - off = 0 /\ k = 0
    <3>1. f = 0 /\ framese > 0
      BY ONLY <1>6, <1>9, <1>10, <2>2 DEF FrameAt
    <3>2. q = ScalarKind
      BY ONLY <1>14, <2>2 DEF OuterKind
    <3> QED
      BY ONLY <1>1, <1>7, <2>2, <3>1, <3>2, FoundProgram
  <2>3. CASE off # 0 /\ lev - off = 1 /\ k < Len(views[2].held)
    <3>1. f = 1 /\ framese > 1
      BY ONLY <1>6, <1>9, <1>10, <2>3 DEF FrameAt
    <3>2. q = views[2].held[k + 1]
      BY ONLY <1>14, <2>3 DEF OuterKind
    <3> QED
      BY ONLY <1>1, <1>2, <1>7, <1>9, <2>3, <3>1, <3>2, FoundGlobal, AInv
  <2>4. CASE /\ off # 0 /\ lev - off > 1 /\ off = 1
             /\ ~views[Frame.fn].blind /\ k < views[Frame.fn].reach
    <3>1. f \in 0 .. framese - 1 /\ framese > 0
      BY ONLY <1>6, <1>9, <1>10, <2>4 DEF FrameAt
    <3>2. q = AnyKind
      BY ONLY <1>9, <1>10, <1>14, <2>4 DEF OuterKind
    <3>3. ~Blind(framese)
      BY ONLY <2>4 DEF Blind, Frame
    <3>4. k < Len(ShapeOf(framese - 1))
      <4>1. framese - 1 \in 0 .. framese - 1 /\ framese - 1 + 1 = framese
        BY ONLY <1>10, <3>1
      <4>2. views[framestack[framese].fn].reach <= Len(ShapeOf(framese - 1))
        BY ONLY <1>12, <4>1 DEF CallersAgree
      <4>3. views[Frame.fn].reach \in Nat
        BY ONLY <1>1, InstructionViews DEF ViewHeaderOK
      <4>4. Len(ShapeOf(framese - 1)) \in Nat
        <5>1. framese - 1 \in 0 .. framese
          BY ONLY <1>10, <4>1
        <5> QED
          BY ONLY <1>1, <5>1, FrameHolds
      <4> QED
        BY ONLY <1>9, <2>4, <4>2, <4>3, <4>4 DEF Frame
    <3> QED
      BY ONLY <1>1, <1>2, <1>7, <1>9, <3>1, <3>2, <3>3, <3>4, FoundOutside,
              AInv
  <2> QED
    BY ONLY <1>13, <2>1, <2>2, <2>3, <2>4
<1>17. v \in Value
  BY ONLY <1>1, <1>7, Current, AInv
<1>18. PICK n : n = Len(ShapeOf(framese)) - 0
  OBVIOUS
<1>19. PICK s : s = ASP - View(framese).loose
  OBVIOUS
<1>20. /\ Pushable(framese, n, Values, Kinds, Asps, s, v, q)
       /\ q # Copied /\ q \in Int
  BY ONLY <1>16, <1>17, <1>19, LocalPushable DEF Found
<1>21. PICK x : Effect(0, << x >>)
  BY ONLY <1>1, LocalEffect
<1>22. pushv(NextIP, SP - 0, ASP, v) /\ 0 \in Nat
  <2>1. SP - 0 = SP
    BY <1>1, Current
  <2> QED
    BY ONLY <1>15, <2>1
<1> QED
  BY ONLY <1>1, <1>2, <1>8, <1>18, <1>19, <1>20, <1>21, <1>22, PushStays, AInv,
          VInv', status' = "run", UNCHANGED image

(* A store knows that the variable is a scalar.                             *)
LEMMA KindsStored ==
  ASSUME VInv, status = "run", Op = OP_SET_LOCAL_LONG,
         NEW off, off = ArgLong(1), NEW k \in Nat, k = ArgLong(3),
         NEW n \in Nat, n = Len(ShapeOf(framese)) - 1, off = 0 => k < n,
         NEW kinds, kinds = KindsAfter(image, views, Frame.fn, IP)
  PROVE  /\ Len(kinds) = n /\ Len(kinds) = Len(After(image, Frame.fn, IP))
         /\ \A j \in 1 .. n : kinds[j] = IF off = 0 /\ j = k + 1 THEN ScalarKind
                                         ELSE View(framese).kinds[j]
<1>1. /\ View(framese) = views[Frame.fn].at[IP]
      /\ Fn(framese) = image.fns[Frame.fn] /\ framese \in 0 .. framese
      /\ DInv
  BY InstructionViews DEF VInv
<1>2. PICK s : s = View(framese).kinds
  OBVIOUS
<1>3. s \in Seq(Int) /\ Len(s) = Len(ShapeOf(framese))
  BY ONLY ViewFacts, <1>1, <1>2, VInv, status = "run"
<1>4. Pops(Fn(framese), IP) = 1 /\ Pushes(image, Frame.fn, IP) = << >>
      /\ Op \in DropOps
  <2>1. Op \in DropOps
    BY DEF DropOps
  <2> QED
    BY <2>1, Effects DEF Effect
<1>5. PICK below : below = SubSeq(s, 1, n)
  OBVIOUS
<1>6. /\ Len(s) \in Nat /\ n = Len(s) - 1 /\ n <= Len(s)
  BY ONLY <1>3, n \in Nat, n = Len(ShapeOf(framese)) - 1
<1>7. Len(below) = n /\ below \in Seq(Int) /\ \A j \in 1 .. n : below[j] = s[j]
  BY ONLY <1>3, <1>5, <1>6, n \in Nat, TakenOff
<1>8. kinds = IF off = 0 THEN [below EXCEPT ![k + 1] = ScalarKind] ELSE below
  <2>1. /\ OpAt(image.fns[Frame.fn], IP) = Op
        /\ LongAt(image.fns[Frame.fn], IP, 1) = off
        /\ LongAt(image.fns[Frame.fn], IP, 3) = k
    BY SameInstruction
  <2>2. OP_SET_LOCAL_LONG # OP_SHIFT_ASTACKENT_TO_BASE
    BY DEF OP_SET_LOCAL_LONG, OP_SHIFT_ASTACKENT_TO_BASE
  <2>3. SubSeq(s, 1, Len(s) - 1) = below
    BY ONLY <1>5, <1>6
  <2> QED
    BY ONLY <1>1, <1>2, <1>4, <2>1, <2>2, <2>3, Op = OP_SET_LOCAL_LONG,
            kinds = KindsAfter(image, views, Frame.fn, IP) DEF KindsAfter
<1>9. /\ Len(kinds) = n
      /\ \A j \in 1 .. n : kinds[j] = IF off = 0 /\ j = k + 1 THEN ScalarKind
                                      ELSE s[j]
  BY ONLY <1>7, <1>8, k \in Nat, off = 0 => k < n, n \in Nat
<1>10. Len(After(image, Frame.fn, IP)) = n
  <2>1. 1 \in Nat /\ 1 <= Len(ShapeOf(framese))
    BY ONLY <1>3, <1>6, n \in Nat
  <2>2. Pops(Fn(framese), IP) = 1 /\ n = Len(ShapeOf(framese)) - 1
    BY ONLY <1>3, <1>4, <1>6
  <2> QED
    BY ONLY <1>1, <1>4, <2>1, <2>2, AfterDrop, status = "run"
<1> QED
  BY ONLY <1>2, <1>9, <1>10

(* Where a store goes, and what it leaves alone.                            *)
LEMMA StoredCell ==
  ASSUME DInv, SetLocal, NEW off, off = ArgLong(1), NEW k, k = ArgLong(3)
  PROVE  /\ off \in Nat /\ k \in Nat
         /\ off = 0 => k + 1 < Len(ShapeOf(framese))
         /\ off # 0 => framese > 1 /\ k < Len(image.fns[2].slots)
         /\ UNCHANGED << framese, astack, argstack, argsp, argasp >>
         /\ Resume(NextIP, SP - 1, ASP)
         /\ \A g \in 0 .. framese : \A i \in 1 .. Len(ShapeOf(g)) :
              IF g = (IF off = 0 THEN framese ELSE 1) /\ i = k + 1
              THEN stack'[framestack[g].base + i - 1] = peekv(1)
              ELSE stack'[framestack[g].base + i - 1] =
                     stack[framestack[g].base + i - 1]
<1>1. status = "run" /\ Op = OP_SET_LOCAL_LONG /\ Fetch(OP_SET_LOCAL_LONG)
  BY DEF SetLocal, Fetch
<1>2. off \in Nat /\ k \in Nat
  BY <1>1, LongType, Operands DEF DInv, IInv
<1>3. /\ framese \in Nat /\ framese \in 0 .. framese
      /\ Frame.env = Fn(framese).level /\ Fn(framese).level \in Nat
      /\ Fn(framese).level > 1 => framese > 1
      /\ Len(ShapeOf(framese)) \in Nat
  BY <1>1, CurrentFacts, Levels
<1>4. /\ off <= Fn(framese).level
      /\ off = 0 => k + 1 < Len(ShapeOf(framese))
      /\ off # 0 => /\ Fn(framese).level - off = 1
                    /\ k < Len(image.fns[2].slots)
  BY <1>1, CurrentFacts, SameInstruction DEF InstructionOK, AddressOK
<1>5. PICK f : f = FrameAt(off)
  OBVIOUS
<1>6. PICK slot : slot = framestack[f].base + k
  OBVIOUS
<1>7. /\ f \in 0 .. framese /\ k + 1 \in 1 .. Len(ShapeOf(f))
      /\ f = IF off = 0 THEN framese ELSE 1
      /\ off # 0 => framese > 1
  <2>1. CASE off = 0
    BY ONLY <1>2, <1>3, <1>4, <1>5, <2>1 DEF FrameAt
  <2>2. CASE off # 0
    <3>1. f = 1 /\ framese > 1
      BY ONLY <1>2, <1>3, <1>4, <1>5, <2>2 DEF FrameAt
    <3> QED
      BY <1>1, <1>2, <1>4, <2>2, <3>1, OuterCells
  <2> QED
    BY ONLY <2>1, <2>2
<1>8. /\ framestack[f].base \in Nat /\ Len(ShapeOf(f)) \in Nat
      /\ framestack[f].base + (k + 1) - 1 \in CellIndex
  BY <1>1, <1>7, FrameHolds
<1>9. f \in FrameIndex /\ slot \in CellIndex /\ InStack(slot, 1)
  <2>1. framese \in FrameIndex
    BY DEF DInv, IInv, TypeOK
  <2>2. f \in FrameIndex
    BY ONLY <1>7, <2>1, SizesAssumption DEF FrameIndex
  <2>3. slot \in CellIndex
    <3>1. framestack[f].base + (k + 1) - 1 = framestack[f].base + k
      BY ONLY <1>2, <1>8
    <3> QED
      BY ONLY <1>6, <1>8, <3>1
  <2>4. InStack(slot, 1)
    BY ONLY <2>3, SizesAssumption DEF CellIndex, InStack
  <2> QED
    BY ONLY <2>2, <2>3, <2>4
<1>10. /\ stack' = [stack EXCEPT ![slot] = peekv(1)]
       /\ UNCHANGED << framese, astack, argstack, argsp, argasp >>
       /\ Resume(NextIP, SP - 1, ASP)
       /\ stack \in [CellIndex -> Value]
  BY <1>5, <1>6, <1>9 DEF SetLocal, DInv, IInv, TypeOK
<1>11. ASSUME NEW g \in 0 .. framese, NEW i \in 1 .. Len(ShapeOf(g))
       PROVE  IF g = f /\ i = k + 1
              THEN stack'[framestack[g].base + i - 1] = peekv(1)
              ELSE stack'[framestack[g].base + i - 1] =
                     stack[framestack[g].base + i - 1]
  <2>1. /\ g \in Nat /\ framestack[g].base \in Nat
        /\ Len(ShapeOf(g)) \in Nat /\ i \in Nat \ {0}
        /\ framestack[g].base + i - 1 \in CellIndex
    BY <1>1, <1>3, FrameHolds
  <2>2. CASE g = f /\ i = k + 1
    <3>1. framestack[g].base + i - 1 = slot
      BY ONLY <1>2, <1>6, <1>8, <2>2
    <3> QED
      BY ONLY <1>9, <1>10, <2>2, <3>1
  <2>3. CASE ~(g = f /\ i = k + 1)
    <3>1. framestack[g].base + i - 1 # slot
      <4>1. CASE g = f
        <5>1. i # k + 1
          BY ONLY <2>3, <4>1
        <5> QED
          BY ONLY <1>2, <1>6, <1>8, <2>1, <4>1, <5>1, OtherCell
      <4>2. CASE g < f
        <5>1. framestack[g].base + Len(ShapeOf(g)) <= framestack[f].base
          BY ONLY <1>1, <1>7, g \in 0 .. framese, <4>2, FramesApart, DInv
        <5>2. PICK b : b = framestack[g].base
          OBVIOUS
        <5>3. PICK c : c = framestack[f].base
          OBVIOUS
        <5>4. PICK l : l = Len(ShapeOf(g))
          OBVIOUS
        <5>5. b \in Nat /\ c \in Nat /\ l \in Nat /\ b + l <= c /\ i \in 1 .. l
          BY ONLY <1>8, <2>1, <5>1, <5>2, <5>3, <5>4, i \in 1 .. Len(ShapeOf(g))
        <5>6. b + i - 1 # c + k
          BY ONLY <1>2, <5>5
        <5> QED
          BY ONLY <1>6, <5>2, <5>3, <5>6
      <4>3. CASE f < g
        <5>1. framestack[f].base + Len(ShapeOf(f)) <= framestack[g].base
          BY ONLY <1>1, <1>7, g \in 0 .. framese, <4>3, FramesApart, DInv
        <5>2. PICK b : b = framestack[g].base
          OBVIOUS
        <5>3. PICK c : c = framestack[f].base
          OBVIOUS
        <5>4. PICK l : l = Len(ShapeOf(f))
          OBVIOUS
        <5>5. b \in Nat /\ c \in Nat /\ l \in Nat /\ c + l <= b /\ k + 1 \in 1 .. l
              /\ i \in Nat \ {0}
          BY ONLY <1>7, <1>8, <2>1, <5>1, <5>2, <5>3, <5>4
        <5>6. b + i - 1 # c + k
          BY ONLY <1>2, <5>5
        <5> QED
          BY ONLY <1>6, <5>2, <5>3, <5>6
      <4> QED
        BY ONLY <1>3, <1>7, <2>1, <4>1, <4>2, <4>3, g \in 0 .. framese
    <3> QED
      BY ONLY <1>10, <2>1, <2>3, <3>1
  <2> QED
    BY ONLY <2>2, <2>3
<1>12. \A g \in 0 .. framese : \A i \in 1 .. Len(ShapeOf(g)) :
         IF g = (IF off = 0 THEN framese ELSE 1) /\ i = k + 1
         THEN stack'[framestack[g].base + i - 1] = peekv(1)
         ELSE stack'[framestack[g].base + i - 1] =
                stack[framestack[g].base + i - 1]
  BY ONLY <1>7, <1>11
<1> QED
  BY ONLY <1>2, <1>4, <1>7, <1>10, <1>12

LEMMA SetLocalArrays ==
  ASSUME AInv, VInv', status' = "run", UNCHANGED image, SetLocal
  PROVE  Arrays' /\ Arguments'
<1>1. status = "run" /\ Op = OP_SET_LOCAL_LONG /\ VInv /\ DInv
  BY DEF SetLocal, Fetch, AInv, VInv
<1>2. /\ Op # OP_RETURN /\ Op \in DropOps /\ Op \notin Peeks
      /\ Op \notin {OP_POP_TO_ASTACK, OP_ASTACK_SHIFT_UP, OP_LOC_ALINK_LONG,
                    OP_GET_INDEX, OP_CALL}
      /\ Op \notin {OP_ARGSTACK_LOAD, OP_ARGSTACK_UNLOAD, OP_CALL}
  BY ONLY <1>1 DEF DropOps, Peeks, OP_SET_LOCAL_LONG, OP_RETURN,
       OP_SKIPF_LONG, OP_SHIFT_ASTACKENT_TO_BASE, OP_POP_TO_ASTACK,
       OP_ASTACK_SHIFT_UP, OP_LOC_ALINK_LONG, OP_GET_INDEX, OP_CALL,
       OP_ARGSTACK_LOAD, OP_ARGSTACK_UNLOAD
<1>3. PICK off : off = ArgLong(1)
  OBVIOUS
<1>4. PICK k : k = ArgLong(3)
  OBVIOUS
<1>5. PICK len : len = Len(ShapeOf(framese))
  OBVIOUS
<1>6. PICK n : n = len - 1
  OBVIOUS
<1>7. PICK kinds : kinds = KindsAfter(image, views, Frame.fn, IP)
  OBVIOUS
<1>8. PICK val : val = peekv(1)
  OBVIOUS
<1>9. PICK lo : lo = View(framese).loose
  OBVIOUS
<1>10. PICK s : s = ASP - lo
  OBVIOUS
<1>11. /\ off \in Nat /\ k \in Nat
       /\ off = 0 => k + 1 < len
       /\ off # 0 => framese > 1 /\ k < Len(image.fns[2].slots)
       /\ UNCHANGED << framese, astack, argstack, argsp, argasp >>
       /\ Resume(NextIP, SP - 1, ASP)
       /\ \A g \in 0 .. framese : \A i \in 1 .. Len(ShapeOf(g)) :
            IF g = (IF off = 0 THEN framese ELSE 1) /\ i = k + 1
            THEN stack'[framestack[g].base + i - 1] = val
            ELSE stack'[framestack[g].base + i - 1] =
                   stack[framestack[g].base + i - 1]
  BY ONLY <1>1, <1>3, <1>4, <1>5, <1>8, StoredCell, SetLocal
<1>12. Effect(1, << >>) /\ NextIP \in Targets(Fn(framese), IP)
       /\ Pops(Fn(framese), IP) = 1
  BY ONLY <1>2, Effects DEF Effect
<1>13. 1 <= len
  BY ONLY <1>1, <1>2, <1>5, <1>12, EnoughThere
<1>14. /\ ASP \in Int /\ lo \in Nat /\ len \in Nat /\ Frame.base \in Nat
       /\ SP = Frame.base + len /\ Len(View(framese).kinds) = len
       /\ View(framese) = views[Frame.fn].at[IP]
       /\ framese \in Nat /\ framese \in 0 .. framese
       /\ VariablesOK(image, views, Frame.fn, IP)
  BY ONLY <1>1, <1>5, <1>9, Current, AInv, InstructionViews
<1>15. n \in Nat /\ n <= len /\ (off = 0 => k < n) /\ s \in Int /\ s <= ASP - lo
       /\ s >= ASP - lo
  BY ONLY <1>6, <1>10, <1>11, <1>13, <1>14
<1>16. /\ Len(kinds) = n /\ Len(kinds) = Len(After(image, Frame.fn, IP))
       /\ \A j \in 1 .. n : kinds[j] = IF off = 0 /\ j = k + 1 THEN ScalarKind
                                       ELSE View(framese).kinds[j]
  <2>1. n = Len(ShapeOf(framese)) - 1 /\ k \in Nat /\ n \in Nat
        /\ (off = 0 => k < n)
    BY ONLY <1>5, <1>6, <1>11, <1>15
  <2>2. VInv /\ status = "run" /\ Op = OP_SET_LOCAL_LONG
    BY ONLY <1>1
  <2> QED
    BY ONLY <1>3, <1>4, <1>7, <2>1, <2>2, KindsStored, SMTT(40)
<1>17. /\ IsScalar(View(framese).kinds[len])
       /\ off # 0 => views[2].held[k + 1] = ScalarKind
  <2>1. /\ OpAt(image.fns[Frame.fn], IP) = Op
        /\ LongAt(image.fns[Frame.fn], IP, 1) = off
        /\ LongAt(image.fns[Frame.fn], IP, 3) = k
    BY <1>3, <1>4, SameInstruction
  <2> QED
    BY ONLY <1>1, <1>14, <2>1 DEF VariablesOK
<1>18. val.t # "vec"
  <2>1. len \in 1 .. len /\ Frame.base + len - 1 = SP - 1
    BY ONLY <1>13, <1>14
  <2>2. KindHeld(Slot(SP - 1), View(framese).kinds[len])
    BY ONLY <1>1, <1>2, <1>5, <2>1, TopHeld, AInv
  <2> QED
    BY ONLY <1>8, <1>17, <2>2 DEF peekv, KindHeld
<1>19. OnFrame(NextIP) /\ framestack'[framese].asp = ASP
  BY ONLY <1>1, <1>11, ResumeOnFrame, UNCHANGED image
<1>20. lo = LooseAfter(image, views, Frame.fn, IP)
       /\ ArgsAfter(image, views, Frame.fn, IP) = View(framese).args
  BY ONLY <1>1, <1>2, <1>9, SameAfter
<1>21. ASSUME NEW j \in 1 .. n
       PROVE  \/ /\ stack'[Frame.base + j - 1] = stack[Frame.base + j - 1]
                 /\ kinds[j] = View(framese).kinds[j]
              \/ stack'[Frame.base + j - 1].t # "vec" /\ kinds[j] = ScalarKind
  <2>1. j \in 1 .. Len(ShapeOf(framese))
    BY ONLY <1>5, <1>14, <1>15, j \in 1 .. n
  <2>2. kinds[j] = IF off = 0 /\ j = k + 1 THEN ScalarKind
                   ELSE View(framese).kinds[j]
    BY ONLY <1>16, j \in 1 .. n
  <2>3. IF framese = (IF off = 0 THEN framese ELSE 1) /\ j = k + 1
        THEN stack'[Frame.base + j - 1] = val
        ELSE stack'[Frame.base + j - 1] = stack[Frame.base + j - 1]
    BY ONLY <1>11, <1>14, <2>1 DEF Frame
  <2>4. framese = (IF off = 0 THEN framese ELSE 1) <=> off = 0
    BY ONLY <1>11, <1>14
  <2> QED
    BY ONLY <1>18, <2>2, <2>3, <2>4
<1>22. ASSUME NEW g \in 0 .. framese - 1, NEW i \in 1 .. Len(ShapeOf(g))
       PROVE  Kept(stack[framestack[g].base + i - 1],
                   stack'[framestack[g].base + i - 1], View(g).kinds[i])
  <2>1. g \in 0 .. framese /\ g # framese
    BY ONLY <1>14, g \in 0 .. framese - 1
  <2>2. IF g = (IF off = 0 THEN framese ELSE 1) /\ i = k + 1
        THEN stack'[framestack[g].base + i - 1] = val
        ELSE stack'[framestack[g].base + i - 1] =
               stack[framestack[g].base + i - 1]
    BY ONLY <1>11, <2>1, i \in 1 .. Len(ShapeOf(g))
  <2>3. CASE off # 0 /\ g = 1 /\ i = k + 1
    <3>1. stack'[framestack[g].base + i - 1] = val
      BY ONLY <2>2, <2>3
    <3>2. View(1).kinds[k + 1] = ScalarKind
      <4>1. GlobalsAgree
        BY <1>1 DEF AInv, Arrays
      <4>2. ViewHeaderOK(image, views, 2)
        BY <1>1 DEF VInv, DInv, WellFormed, ArraysWellFormed
      <4>3. Len(views[2].held) = Len(image.fns[2].slots)
            /\ views[2].held \in Seq({AnyKind, ScalarKind})
        BY ONLY <4>2 DEF ViewHeaderOK
      <4>4. k + 1 \in 1 .. Len(views[2].held)
        BY ONLY <1>11, <2>3, <4>3
      <4> QED
        BY ONLY <1>11, <1>17, <2>3, <4>1, <4>4 DEF GlobalsAgree
    <3> QED
      BY ONLY <1>18, <2>3, <3>1, <3>2 DEF Kept
  <2>4. CASE ~(off # 0 /\ g = 1 /\ i = k + 1)
    BY ONLY <2>1, <2>2, <2>4 DEF Kept
  <2> QED
    BY ONLY <2>3, <2>4
<1>23. RoomLeft(framese, n, Values, Kinds, Asps, s)
  BY ONLY <1>1, <1>2, <1>5, <1>9, <1>15, RoomAbove, AInv
<1>24. Pushable(framese, n, Values, Kinds, Asps, s, Junk, ScalarKind)
       /\ ScalarKind \in Int /\ ScalarKind # Copied
  <2>1. Junk \in Value /\ KindHeld(Junk, ScalarKind) /\ IsScalar(ScalarKind)
    BY MakingValues DEF Junk, KindHeld, IsScalar, ScalarKind, Temp, Copied, Moved
  <2>2. ScalarKind \in Int /\ ScalarKind # Copied
    BY DEF ScalarKind, Copied
  <2> QED
    BY ONLY <2>1, <2>2, ScalarPushable
<1>25. StepStays(NextIP, n, kinds, s, Junk, ScalarKind)
  <2>1. Len(kinds) \in {n, n + 1} /\ Len(kinds) # n + 1
    BY ONLY <1>15, <1>16
  <2>2. s <= framestack'[framese].asp - lo /\ lo \in Int
    BY ONLY <1>14, <1>15, <1>19
  <2> QED
    BY ONLY <1>5, <1>7, <1>12, <1>15, <1>16, <1>19, <1>20, <1>21, <1>22, <1>23,
            <1>24, <2>1, <2>2 DEF StepStays
<1>26. ScalarElements'
  <2>1. UNCHANGED astack
    BY <1>11
  <2> QED
    BY <1>1, <2>1, SameElements
<1>27. UNCHANGED << argstack, argsp, argasp >>
  BY <1>11
<1> QED
  BY ONLY <1>1, <1>2, <1>20, <1>24, <1>25, <1>26, <1>27, StaysAll, AInv, VInv',
          status' = "run"

-----------------------------------------------------------------------------
(* An element that is read is a scalar; a subvector is copied to the end of *)
(* the array stack.                                                         *)
LEMMA ElementScalar ==
  ASSUME AInv, status = "run", NEW a, NEW v \in Loaded(Cell(astack, a))
  PROVE  v \in Value /\ v.t # "vec"
<1>1. /\ astack \in [CellIndex -> Value]
      /\ \A c \in CellIndex : astack[c].t # "vec"
  BY DEF AInv, VInv, DInv, IInv, TypeOK, Arrays, ScalarElements
<1>2. Cell(astack, a) \in Value /\ Cell(astack, a).t # "vec"
  BY ONLY <1>1, CellType DEF Cell, Junk
<1>3. CASE v = Cell(astack, a)
  BY ONLY <1>2, <1>3
<1>4. CASE \E x \in AnyInt : v = IntV(x)
  BY ONLY <1>4, MakingValues, AnyIntAssumption DEF IntV
<1> QED
  BY <1>3, <1>4 DEF Loaded

LEMMA GetIndexArrays ==
  ASSUME AInv, VInv', status' = "run", UNCHANGED image, GetIndex
  PROVE  Arrays' /\ Arguments'
<1>1. status = "run" /\ Op = OP_GET_INDEX /\ VInv /\ DInv
      /\ Fetch(OP_GET_INDEX)
  BY DEF GetIndex, Fetch, AInv, VInv
<1>2. /\ Op # OP_RETURN /\ Op \notin Peeks
      /\ Op \notin {OP_ARGSTACK_LOAD, OP_ARGSTACK_UNLOAD, OP_CALL}
  BY ONLY <1>1 DEF Peeks, OP_GET_INDEX, OP_RETURN, OP_SKIPF_LONG,
       OP_SHIFT_ASTACKENT_TO_BASE, OP_CALL, OP_ARGSTACK_LOAD,
       OP_ARGSTACK_UNLOAD
<1>3. PICK n : n = Arg(1)
  OBVIOUS
<1>4. PICK rank : rank = Arg(2)
  OBVIOUS
<1>5. PICK a : a = ASP
  OBVIOUS
<1>6. PICK lo : lo = View(framese).loose
  OBVIOUS
<1>7. PICK len : len = Len(ShapeOf(framese))
  OBVIOUS
<1>8. PICK sp : sp = SP - rank - n - 1
  OBVIOUS
<1>9. PICK p : p = n + rank + 1
  OBVIOUS
<1>10. PICK start : start = peekv(rank + n + 1).i
                     + index_flattened(Dimensions(rank), Padded(Indices(n, rank), rank))
  OBVIOUS
<1>11. PICK count : count = Capped(ElementCount(Dimensions(rank), n))
  OBVIOUS
<1>12. n \in Nat /\ rank \in Nat /\ count \in Nat
  BY <1>1, <1>3, <1>4, <1>11, HandlerFacts, Operands, CappedType
     DEF DInv, TwoOperandBytes
<1>13. /\ a \in Int /\ lo \in Nat /\ len \in Nat /\ SP \in Int /\ SP <= StackMax
       /\ View(framese) = views[Frame.fn].at[IP]
  BY ONLY <1>1, <1>5, <1>6, <1>7, Current, AInv
<1>14. Effect(p, << 0 >>) /\ Pops(Fn(framese), IP) = p
  <2>1. Effect(Arg(1) + Arg(2) + 1, << 0 >>)
    BY ONLY <1>1, Effects
  <2> QED
    BY ONLY <1>3, <1>4, <1>9, <2>1 DEF Effect
<1>15. p \in Nat /\ sp = SP - p /\ sp \in Int
  BY ONLY <1>8, <1>9, <1>12, <1>13
<1>16. p <= len
  BY ONLY <1>1, <1>2, <1>7, <1>14, <1>15, EnoughThere
<1>17. PICK left : left = len - p
  OBVIOUS
<1>18. left \in Nat /\ left <= len /\ sp < StackMax /\ left = Len(ShapeOf(framese)) - p
       /\ p <= Len(ShapeOf(framese))
  <2>1. PICK top : top = SP
    OBVIOUS
  <2>2. top \in Int /\ top <= StackMax /\ sp = top - p /\ p >= 1
    BY ONLY <1>9, <1>12, <1>13, <1>15, <2>1
  <2>3. left \in Nat /\ left <= len /\ left = len - p
    BY ONLY <1>7, <1>13, <1>15, <1>16, <1>17
  <2>4. sp < StackMax
    BY ONLY <1>15, <2>2, SizesAssumption
  <2> QED
    BY ONLY <1>7, <1>16, <2>3, <2>4
<1>19. \/ /\ n = rank
          /\ \E v \in Loaded(Cell(astack, start)) : pushv(NextIP, sp, a, v)
       \/ /\ n # rank
          /\ LET room == IF a + count <= StackMax THEN count ELSE StackMax - a
             IN  /\ Resume(NextIP, sp + 1, a + room)
                 /\ astack' = CopyCells(astack, a, start, room)
                 /\ stack' = [stack EXCEPT ![sp] = VecV(a + room - count, count)]
                 /\ status' = IF room < count THEN "error" ELSE status
                 /\ UNCHANGED << framese, argstack, argsp, argasp, output >>
  BY <1>3, <1>4, <1>5, <1>8, <1>10, <1>11 DEF GetIndex, Wild, runtime_error
<1>20. PICK q : q = PushedKind(image, views, Frame.fn, IP)
  OBVIOUS
<1>21. q = IF n = rank THEN ScalarKind ELSE Temp
  BY ONLY <1>1, <1>3, <1>4, <1>20, PushedKinds
<1>22. PICK l : l = LooseAfter(image, views, Frame.fn, IP)
  OBVIOUS
<1>23. l = IF q = Temp THEN 0 ELSE lo
  BY ONLY <1>1, <1>6, <1>20, <1>22, OtherAfter
<1>24. ArgsAfter(image, views, Frame.fn, IP) = View(framese).args
  BY ONLY <1>1, <1>2, SameAfter
<1>25. CASE n = rank
  <2>1. PICK v \in Loaded(Cell(astack, start)) : pushv(NextIP, sp, a, v)
    BY <1>19, <1>25
  <2>2. v \in Value /\ v.t # "vec"
    BY ONLY <1>1, ElementScalar, AInv, v \in Loaded(Cell(astack, start))
  <2>3. q = ScalarKind /\ l = lo /\ ScalarKind \in Int /\ ScalarKind # Copied
    BY ONLY <1>21, <1>23, <1>25 DEF ScalarKind, Temp, Copied
  <2>4. ~(sp < 0) /\ ~(sp >= StackMax)
    BY <1>1, <2>1 DEF pushv, Wild
  <2>5. /\ UNCHANGED << framese, astack, argstack, argsp, argasp >>
        /\ Resume(NextIP, sp + 1, a)
        /\ stack' = [stack EXCEPT ![sp] = v]
    BY <2>1, <2>4 DEF pushv
  <2>6. PICK s : s = a - lo
    OBVIOUS
  <2>7. s \in Int /\ s >= a - lo /\ s <= a - l /\ l \in Int
    BY ONLY <1>13, <2>3, <2>6
  <2>8. RoomLeft(framese, left, Values, Kinds, Asps, s)
    BY ONLY <1>1, <1>2, <1>5, <1>6, <1>7, <1>18, <2>7, RoomAbove, AInv
  <2>9. Pushable(framese, left, Values, Kinds, Asps, s, v, q)
    BY ONLY <2>2, <2>3, ScalarPushable, ScalarKept
  <2>10. ScalarElements'
    BY <1>1, <2>5, SameElements
  <2>11. UNCHANGED << image, framese >> /\ UNCHANGED << argstack, argsp, argasp >>
    BY <2>5
  <2> QED
    BY ONLY <1>1, <1>2, <1>13, <1>14, <1>15, <1>18, <1>20, <1>22, <1>24, <2>3,
            <2>5, <2>7, <2>8, <2>9, <2>10, <2>11, PushAll, AInv, VInv',
            status' = "run"
<1>26. CASE n # rank
  <2>1. a + count <= StackMax
    <3>1. SUFFICES ASSUME ~(a + count <= StackMax)
                   PROVE  FALSE
      OBVIOUS
    <3>2. StackMax - a < count
      BY ONLY <1>12, <1>13, <3>1, SizesAssumption
    <3>3. status' = "error"
      BY ONLY <1>19, <1>26, <3>1, <3>2
    <3> QED
      BY ONLY <3>3, status' = "run"
  <2>2. /\ Resume(NextIP, sp + 1, a + count)
        /\ astack' = CopyCells(astack, a, start, count)
        /\ stack' = [stack EXCEPT ![sp] = VecV(a + count - count, count)]
        /\ UNCHANGED << framese, argstack, argsp, argasp, output >>
    BY ONLY <1>19, <1>26, <2>1
  <2>3. PICK v : v = VecV(a, count)
    OBVIOUS
  <2>4. PICK s : s = a + count
    OBVIOUS
  <2>5. q = Temp /\ l = 0 /\ Temp \in Int /\ Temp # Copied
    BY ONLY <1>21, <1>23, <1>26 DEF Temp, Copied
  <2>6. /\ a >= a - lo /\ s \in Int /\ s >= a - lo /\ s <= s - l /\ l \in Int
        /\ a + count <= s /\ a + count - count = a
    BY ONLY <1>12, <1>13, <2>4, <2>5
  <2>7. stack' = [stack EXCEPT ![sp] = v] /\ Resume(NextIP, sp + 1, s)
    BY ONLY <2>2, <2>3, <2>4, <2>6
  <2>8. RoomLeft(framese, left, Values, Kinds, Asps, s)
        /\ RoomLeft(framese, left, Values, Kinds, Asps, a)
    BY ONLY <1>1, <1>2, <1>5, <1>6, <1>7, <1>13, <1>18, <2>6, RoomAbove, AInv
  <2>9. Pushable(framese, left, Values, Kinds, Asps, s, v, Temp)
    BY ONLY <1>12, <1>13, <2>3, <2>6, <2>8, TempPushable
  <2>10. ScalarElements'
    BY <1>1, <2>2, CopiedElements
  <2>11. UNCHANGED << image, framese >> /\ UNCHANGED << argstack, argsp, argasp >>
    BY <2>2
  <2> QED
    BY ONLY <1>1, <1>2, <1>13, <1>14, <1>15, <1>18, <1>20, <1>22, <1>24, <2>5,
            <2>6, <2>7, <2>8, <2>9, <2>10, <2>11, PushAll, AInv, VInv',
            status' = "run"
<1> QED
  BY ONLY <1>25, <1>26

(* A function that is not blind knows the argument stack.                   *)
LEMMA ArgsKnown ==
  ASSUME AInv, status = "run", ~views[Frame.fn].blind
  PROVE  /\ ~Blind(framese) /\ argsp = Len(View(framese).args)
         /\ \A k \in 1 .. argsp :
              View(framese).args[k] = 1 <=> argstack[k - 1].t = "vec"
         /\ argsp \in 0 .. MaxArity /\ argasp \in Int /\ CopiesStacked
         /\ argstack \in [0 .. (MaxArity - 1) -> Value]
<1>1. /\ argsp \in 0 .. MaxArity /\ argasp \in Int
      /\ argstack \in [0 .. (MaxArity - 1) -> Value]
  BY DEF AInv, VInv, DInv, IInv, TypeOK
<1>2. ArgsAgree /\ CopiesStacked /\ VInv
  BY DEF AInv, Arguments
<1>3. ~Blind(framese) /\ framese \in 0 .. framese
  BY <1>2, InstructionViews DEF Blind, Frame
<1> QED
  BY <1>1, <1>2, <1>3 DEF ArgsAgree

(* What is peeked is the last copy that was made.                           *)
LEMMA ArgstackPeekArrays ==
  ASSUME AInv, VInv', status' = "run", UNCHANGED image, ArgstackPeek
  PROVE  Arrays' /\ Arguments'
<1>1. status = "run" /\ Op = OP_ARGSTACK_PEEK /\ VInv /\ DInv
  BY DEF ArgstackPeek, Fetch, AInv, VInv
<1>2. /\ Op \in PushOps /\ Op \notin Peeks
      /\ Op \notin {OP_POP_TO_ASTACK, OP_ASTACK_SHIFT_UP, OP_LOC_ALINK_LONG,
                    OP_GET_INDEX, OP_CALL, OP_ARGSTACK_LOAD, OP_ARGSTACK_UNLOAD}
  BY ONLY <1>1 DEF PushOps, Peeks, OP_ARGSTACK_PEEK, OP_POP_TO_ASTACK,
       OP_ASTACK_SHIFT_UP, OP_LOC_ALINK_LONG, OP_GET_INDEX, OP_CALL,
       OP_ARGSTACK_LOAD, OP_ARGSTACK_UNLOAD, OP_SKIPF_LONG,
       OP_SHIFT_ASTACKENT_TO_BASE, OP_RETURN
<1>3. PICK args : args = View(framese).args
  OBVIOUS
<1>4. /\ ~views[Frame.fn].blind /\ args # << >> /\ args \in Seq({0, 1})
      /\ args = views[Frame.fn].at[IP].args
  <2>1. /\ ArgumentsOK(image, views, Frame.fn, IP)
        /\ View(framese) = views[Frame.fn].at[IP]
        /\ OpAt(image.fns[Frame.fn], IP) = Op
    BY <1>1, InstructionViews, SameInstruction
  <2>2. args \in Seq({0, 1})
    BY ONLY <1>1, <1>3, Current, AInv
  <2> QED
    BY ONLY <1>1, <1>3, <2>1, <2>2 DEF ArgumentsOK
<1>5. /\ argsp = Len(args) /\ argasp \in Int /\ CopiesStacked
      /\ \A k \in 1 .. argsp : args[k] = 1 <=> argstack[k - 1].t = "vec"
      /\ argsp \in 0 .. MaxArity /\ argstack \in [0 .. (MaxArity - 1) -> Value]
  BY ONLY <1>1, <1>3, <1>4, ArgsKnown, AInv
<1>6. PICK last : last = argsp
  OBVIOUS
<1>7. /\ last \in Nat /\ last >= 1 /\ last = Len(args)
      /\ last - 1 \in 0 .. (MaxArity - 1) /\ last - 1 \in 0 .. last - 1
  BY ONLY <1>4, <1>5, <1>6, MaxArityAssumption DEF Byte
<1>8. PICK v : v = argstack[last - 1]
  OBVIOUS
<1>9. v \in Value /\ (args[last] = 1 <=> v.t = "vec")
  BY ONLY <1>5, <1>6, <1>7, <1>8
<1>10. v.t = "vec" => VecIn(v, argasp, StackMax)
  BY ONLY <1>5, <1>6, <1>7, <1>8 DEF CopiesStacked
<1>11. PICK q : q = PushedKind(image, views, Frame.fn, IP)
  OBVIOUS
<1>12. q = IF args[last] = 1 THEN Copied ELSE ScalarKind
  BY ONLY <1>1, <1>4, <1>7, <1>11, PushedKinds
<1>13. q \in Int /\ q # Moved /\ q # Temp /\ KindHeld(v, q) /\ ~Lower(v, q)
  <2>1. CASE args[last] = 1
    BY ONLY <1>9, <1>12, <2>1 DEF KindHeld, Lower, IsScalar, Copied, Moved,
         Temp, ScalarKind
  <2>2. CASE args[last] # 1
    BY ONLY <1>9, <1>12, <2>2 DEF KindHeld, Lower, IsScalar, Copied, Moved,
         Temp, ScalarKind
  <2> QED
    BY ONLY <2>1, <2>2
<1>14. Pushable(framese, Len(ShapeOf(framese)) - 0, Values, Kinds, Asps,
                ASP - View(framese).loose, v, q)
  BY ONLY <1>9, <1>13 DEF Pushable
<1>15. q = Copied => VecIn(v, argasp, StackMax)
  BY ONLY <1>9, <1>10, <1>12 DEF Copied, ScalarKind
<1>16. pushv(NextIP, SP - 0, ASP, v)
  <2>1. SP - 0 = SP
    BY <1>1, Current
  <2>2. argsp # 0
    BY ONLY <1>6, <1>7
  <2> QED
    BY <1>6, <1>8, <2>1, <2>2 DEF ArgstackPeek
<1>17. Effect(0, << 0 >>)
  BY ONLY <1>2, Effects
<1> QED
  BY ONLY <1>1, <1>2, <1>11, <1>13, <1>14, <1>15, <1>16, <1>17, PushStays, AInv,
          VInv', status' = "run", UNCHANGED image, 0 \in Nat

(* Where a function is not blind nobody below it is, and it alone answers   *)
(* for the argument stack.                                                  *)
LEMMA OnlyTopKnows ==
  ASSUME BlindAbove, framese \in Nat, ~Blind(framese),
         NEW f \in 0 .. framese, f = framese \/ Blind(f + 1)
  PROVE  f = framese
<1>1. SUFFICES ASSUME f # framese
               PROVE  FALSE
  OBVIOUS
<1>2. Blind(f + 1) /\ f + 1 \in 0 .. framese /\ framese \in 0 .. framese
  BY ONLY <1>1, framese \in Nat, f \in 0 .. framese, f = framese \/ Blind(f + 1)
<1>3. f + 1 # framese
  BY ONLY <1>2, ~Blind(framese)
<1>4. f + 1 < framese
  BY ONLY <1>2, <1>3, framese \in Nat, f \in 0 .. framese
<1> QED
  BY ONLY <1>2, <1>4, BlindAbove, ~Blind(framese) DEF BlindAbove

(* The copies of arguments may end lower.                                   *)
LEMMA CopiesBelow ==
  ASSUME NEW m, NEW V, NEW K, NEW A, NEW R, FramesType(m, V, K, A, R),
         NEW low \in Int, NEW high \in Int, low <= high, CopiesIn(m, V, K, high)
  PROVE  CopiesIn(m, V, K, low)
<1> SUFFICES ASSUME NEW f \in 0 .. m, NEW k \in Known(f, m, K), K[f][k] = Copied
             PROVE  VecIn(V[f][k], low, StackMax)
  BY DEF CopiesIn
<1>1. VecIn(V[f][k], high, StackMax)
  BY DEF CopiesIn
<1>2. V[f] \in Seq(Value) /\ Len(V[f]) = Len(K[f]) /\ K[f] \in Seq(Int)
  BY DEF FramesType
<1>3. k \in 1 .. Len(V[f])
  BY ONLY <1>2, k \in Known(f, m, K) DEF Known
<1>4. V[f][k].i \in Int /\ V[f][k].n \in Int
  BY ONLY <1>2, <1>3, ElementOf, ValueFields
<1> QED
  BY ONLY <1>1, <1>4, low \in Int, high \in Int, low <= high DEF VecIn

(* A handler of the argument stack that leaves the frame as it is.          *)
LEMMA ArgumentsMove ==
  ASSUME AInv, VInv', status = "run", status' = "run",
         UNCHANGED << image, framese, stack >>,
         Op \in {OP_ARGSTACK_LOAD, OP_ARGSTACK_UNLOAD},
         Resume(NextIP, SP, ASP), ScalarElements',
         CopiesIn(framese, Values, Kinds, argasp')
  PROVE  /\ Arrays' /\ CopiesIn(framese, Values, Kinds, argasp)'
         /\ View(framese)'.args = ArgsAfter(image, views, Frame.fn, IP)
         /\ \A f \in 0 .. framese : Blind(f)' = Blind(f)
<1>1. VInv /\ DInv
  BY DEF AInv, VInv
<1>2. /\ Op \in Stays /\ Op # OP_RETURN
      /\ Op \notin {OP_SET_LOCAL_LONG, OP_SHIFT_ASTACKENT_TO_BASE}
      /\ Op \notin {OP_POP_TO_ASTACK, OP_ASTACK_SHIFT_UP, OP_LOC_ALINK_LONG,
                    OP_GET_INDEX, OP_CALL}
  BY ONLY Op \in {OP_ARGSTACK_LOAD, OP_ARGSTACK_UNLOAD} DEF Stays,
       OP_ARGSTACK_LOAD, OP_ARGSTACK_UNLOAD, OP_RETURN, OP_SET_LOCAL_LONG,
       OP_SHIFT_ASTACKENT_TO_BASE, OP_POP_TO_ASTACK, OP_ASTACK_SHIFT_UP,
       OP_LOC_ALINK_LONG, OP_GET_INDEX, OP_CALL
<1>3. /\ Pops(Fn(framese), IP) = 0 /\ Pushes(image, Frame.fn, IP) = << >>
      /\ NextIP \in Targets(Fn(framese), IP)
  BY ONLY <1>2, Effects DEF Effect
<1>4. PICK l : l = View(framese).loose
  OBVIOUS
<1>5. PICK a : a = ASP
  OBVIOUS
<1>6. PICK s : s = a - l
  OBVIOUS
<1>7. PICK n : n = Len(ShapeOf(framese))
  OBVIOUS
<1>8. a \in Int /\ l \in Int /\ n \in Nat
  BY ONLY <1>4, <1>5, <1>7, Current, AInv, status = "run"
<1>9. /\ s \in Int /\ s <= a - l /\ s >= a - l /\ n = n - 0 /\ n <= n /\ 0 <= n
      /\ 0 \in Nat
  BY ONLY <1>6, <1>8
<1>10. l = LooseAfter(image, views, Frame.fn, IP)
  BY ONLY <1>1, <1>2, <1>4, SameAfter, status = "run"
<1>11. RoomLeft(framese, n, Values, Kinds, Asps, s)
  BY ONLY <1>2, <1>4, <1>5, <1>7, <1>8, <1>9, RoomAbove, AInv, status = "run"
<1>12. Resume(NextIP, SP, a)
  BY ONLY <1>5, Resume(NextIP, SP, ASP)
<1>13. PICK kinds : kinds = KindsAfter(image, views, Frame.fn, IP)
  OBVIOUS
<1>14. StepStays(NextIP, n, kinds, s, Junk, ScalarKind)
  <2>1. n = Len(ShapeOf(framese)) - 0 /\ 0 <= Len(ShapeOf(framese))
    BY ONLY <1>7, <1>9
  <2> QED
    BY ONLY <1>2, <1>3, <1>8, <1>9, <1>10, <1>11, <1>12, <1>13, <2>1, DropWorks,
            AInv, status = "run", UNCHANGED << image, framese, stack >>
<1>15. Arrays'
  BY ONLY <1>2, <1>14, StaysArrays, AInv, VInv', status = "run", status' = "run",
          ScalarElements'
<1>16. CopiesIn(framese, Values, Kinds, argasp)'
  <2>1. ScalarKind # Copied
    BY DEF ScalarKind, Copied
  <2> QED
    BY ONLY <1>2, <1>14, <2>1, StaysCopied, AInv, VInv', status = "run",
            status' = "run", CopiesIn(framese, Values, Kinds, argasp')
<1>17. /\ NextIP \in Targets(Fn(framese), IP) /\ OnFrame(NextIP)
       /\ kinds = KindsAfter(image, views, Frame.fn, IP)
       /\ Len(kinds) = Len(After(image, Frame.fn, IP))
  BY ONLY <1>14 DEF StepStays
<1>18. View(framese)'.args = ArgsAfter(image, views, Frame.fn, IP)
  BY ONLY <1>1, <1>17, AfterFits, status = "run"
<1>19. \A f \in 0 .. framese : Blind(f)' = Blind(f)
  BY ONLY <1>1, <1>17, OnFrameViews, status = "run"
<1> QED
  BY ONLY <1>15, <1>16, <1>18, <1>19

LEMMA TopAnswers ==
  ASSUME BlindAbove, framese \in Nat, ~Blind(framese), framese' = framese,
         \A f \in 0 .. framese : Blind(f)' = Blind(f),
         argsp' = Len(View(framese)'.args),
         \A k \in 1 .. argsp' :
           View(framese)'.args[k] = 1 <=> argstack'[k - 1].t = "vec"
  PROVE  ArgsAgree'
<1> SUFFICES ASSUME NEW f \in 0 .. framese, ~Blind(f)',
                    f = framese \/ Blind(f + 1)'
             PROVE  /\ argsp' = Len(View(f)'.args)
                    /\ \A k \in 1 .. argsp' :
                         View(f)'.args[k] = 1 <=> argstack'[k - 1].t = "vec"
  BY DEF ArgsAgree
<1>1. f = framese \/ Blind(f + 1)
  <2>1. f = framese \/ f + 1 \in 0 .. framese
    BY ONLY framese \in Nat, f \in 0 .. framese
  <2> QED
    BY <2>1
<1>2. f = framese
  BY ONLY <1>1, OnlyTopKnows, BlindAbove, framese \in Nat, ~Blind(framese),
          f \in 0 .. framese
<1> QED
  BY <1>2

(* One more argument is copied below those that are there.                  *)
LEMMA ArgstackLoadArrays ==
  ASSUME AInv, VInv', status' = "run", UNCHANGED image, ArgstackLoad
  PROVE  Arrays' /\ Arguments'
<1>1. /\ status = "run" /\ Op = OP_ARGSTACK_LOAD /\ VInv /\ DInv
      /\ Fetch(OP_ARGSTACK_LOAD)
  BY DEF ArgstackLoad, Fetch, AInv, VInv
<1>2. PICK val : val = Slot(Frame.base + Arg(1))
  OBVIOUS
<1>3. PICK vec : vec = Arg(2)
  OBVIOUS
<1>4. PICK size : size = IF vec # 0 THEN val.n ELSE 0
  OBVIOUS
<1>5. PICK high : high = argasp
  OBVIOUS
<1>6. PICK low : low = high - size
  OBVIOUS
<1>7. PICK top : top = argsp
  OBVIOUS
<1>8. PICK new : new = IF vec # 0 THEN VecV(low, size) ELSE val
  OBVIOUS
<1>9. /\ top < MaxArity /\ 0 <= size /\ InStack(low, size)
      /\ argasp' = low /\ astack' = CopyCells(astack, low, val.i, size)
      /\ argstack' = [argstack EXCEPT ![top] = new]
      /\ argsp' = top + 1 /\ Resume(NextIP, SP, ASP)
      /\ UNCHANGED << framese, stack, status, output >>
  <2>1. val.n \in Int
    BY ONLY <1>1, <1>2, HandlerFacts, DInv DEF DInv
  <2>2. size \in Int /\ MaxArity \in Int /\ argsp \in Int
    BY <1>1, <1>4, <2>1, MaxArityAssumption DEF Byte, DInv, IInv, TypeOK
  <2> QED
    BY <1>2, <1>3, <1>4, <1>5, <1>6, <1>7, <1>8, <2>2 DEF ArgstackLoad, Wild
<1>10. PICK args : args = View(framese).args
  OBVIOUS
<1>11. PICK kinds : kinds = View(framese).kinds
  OBVIOUS
<1>12. /\ ~views[Frame.fn].blind /\ args \in Seq({0, 1})
       /\ Arg(1) + 1 <= Len(kinds) /\ vec \in {0, 1}
       /\ vec = 0 => IsScalar(kinds[Arg(1) + 1])
       /\ Len(kinds) = Len(ShapeOf(framese)) /\ Frame.base \in Nat
       /\ Arg(1) \in Nat
  <2>1. /\ ArgumentsOK(image, views, Frame.fn, IP)
        /\ View(framese) = views[Frame.fn].at[IP]
        /\ OpAt(image.fns[Frame.fn], IP) = Op
        /\ ArgAt(image.fns[Frame.fn], IP, 1) = Arg(1)
        /\ ArgAt(image.fns[Frame.fn], IP, 2) = Arg(2)
    BY <1>1, InstructionViews, SameInstruction
  <2>2. args \in Seq({0, 1}) /\ Len(kinds) = Len(ShapeOf(framese))
        /\ Frame.base \in Nat
    BY ONLY <1>1, <1>10, <1>11, Current, AInv
  <2>3. Arg(1) \in Nat
    BY ONLY <1>1, HandlerFacts, Operands DEF DInv, TwoOperandBytes
  <2> QED
    BY ONLY <1>1, <1>3, <1>11, <2>1, <2>2, <2>3 DEF ArgumentsOK
<1>13. /\ argsp = Len(args) /\ argasp \in Int /\ CopiesStacked
       /\ \A k \in 1 .. argsp : args[k] = 1 <=> argstack[k - 1].t = "vec"
       /\ argsp \in 0 .. MaxArity /\ argstack \in [0 .. (MaxArity - 1) -> Value]
       /\ ~Blind(framese)
  BY ONLY <1>1, <1>10, <1>12, ArgsKnown, AInv
<1>14. /\ val \in Value /\ val.n \in Int
       /\ vec = 0 => val.t # "vec"
  <2>1. val \in Value /\ val.n \in Int
    BY ONLY <1>1, <1>2, HandlerFacts DEF DInv
  <2>2. ASSUME vec = 0
        PROVE  val.t # "vec"
    <3>1. PICK k : k = Arg(1) + 1
      OBVIOUS
    <3>2. k \in 1 .. Len(ShapeOf(framese)) /\ Frame.base + k - 1 = Frame.base + Arg(1)
      BY ONLY <1>12, <3>1
    <3>3. Op # OP_RETURN
      BY ONLY <1>1 DEF OP_ARGSTACK_LOAD, OP_RETURN
    <3>4. KindHeld(Slot(Frame.base + k - 1), View(framese).kinds[k])
      BY ONLY <1>1, <3>2, <3>3, TopHeld, AInv
    <3>5. KindHeld(val, kinds[k]) /\ IsScalar(kinds[k])
      BY ONLY <1>2, <1>11, <1>12, <2>2, <3>1, <3>2, <3>4
    <3> QED
      BY ONLY <3>5 DEF KindHeld
  <2> QED
    BY ONLY <2>1, <2>2
<1>15. /\ size \in Int /\ high \in Int /\ low \in Int /\ low <= high
       /\ low + size = high /\ 0 <= size /\ high <= StackMax
  <2>1. size \in Int
    BY ONLY <1>4, <1>14
  <2>2. high <= StackMax /\ high \in Int
    BY ONLY <1>5, <1>13 DEF CopiesStacked
  <2> QED
    BY ONLY <1>6, <1>9, <2>1, <2>2
<1>16. new.t = "vec" <=> vec = 1
  BY ONLY <1>8, <1>12, <1>14, MakingValues DEF VecV
<1>17. new.t = "vec" => new.i = low /\ new.n = size
  BY ONLY <1>8, <1>12, <1>16 DEF VecV
<1>18. top \in Nat /\ top = Len(args) /\ top \in 0 .. (MaxArity - 1)
  BY ONLY <1>7, <1>9, <1>13, MaxArityAssumption DEF Byte
<1>19. /\ argstack'[top] = new
       /\ \A j \in 0 .. top - 1 : argstack'[j] = argstack[j]
  <2>1. /\ argstack'[top] = new
        /\ \A j : j # top => argstack'[j] = argstack[j]
    BY ONLY <1>9, <1>13, <1>18
  <2>2. \A j \in 0 .. top - 1 : j # top
    BY ONLY <1>18
  <2> QED
    BY ONLY <2>1, <2>2
<1>20. ScalarElements'
  BY <1>1, <1>9, CopiedElements
<1>21. CopiesIn(framese, Values, Kinds, argasp')
  <2>1. FramesType(framese, Values, Kinds, Asps, Rooms)
    BY <1>1, FrameTypes DEF FramesTyped
  <2>2. CopiesIn(framese, Values, Kinds, high)
    BY <1>1, <1>5 DEF AInv, Arguments
  <2>3. CopiesIn(framese, Values, Kinds, low)
    BY ONLY <1>15, <2>1, <2>2, CopiesBelow
  <2> QED
    BY <1>9, <2>3
<1>22. /\ Arrays' /\ CopiesIn(framese, Values, Kinds, argasp)'
       /\ View(framese)'.args = ArgsAfter(image, views, Frame.fn, IP)
       /\ \A f \in 0 .. framese : Blind(f)' = Blind(f)
  <2>1. UNCHANGED << image, framese, stack >>
        /\ Op \in {OP_ARGSTACK_LOAD, OP_ARGSTACK_UNLOAD}
    BY ONLY <1>1, <1>9, UNCHANGED image
  <2> QED
    BY ONLY <1>1, <1>9, <1>20, <1>21, <2>1, ArgumentsMove, AInv, VInv',
            status' = "run"
<1>23. PICK after : after = View(framese)'.args
  OBVIOUS
<1>24. after = Append(args, vec)
  BY ONLY <1>1, <1>3, <1>10, <1>22, <1>23, OtherAfter
<1>25. /\ Len(after) = top + 1 /\ after[top + 1] = vec
       /\ \A k \in 1 .. top : after[k] = args[k]
  BY ONLY <1>12, <1>18, <1>24
<1>26. ASSUME NEW k \in 1 .. top + 1
       PROVE  after[k] = 1 <=> argstack'[k - 1].t = "vec"
  <2>1. CASE k = top + 1
    <3>1. k - 1 = top
      BY ONLY <1>18, <2>1
    <3> QED
      BY ONLY <1>16, <1>19, <1>25, <2>1, <3>1
  <2>2. CASE k # top + 1
    <3>1. k \in 1 .. top /\ k - 1 \in 0 .. top - 1
      BY ONLY <1>18, <2>2, k \in 1 .. top + 1
    <3> QED
      BY ONLY <1>7, <1>13, <1>19, <1>25, <3>1
  <2> QED
    BY ONLY <2>1, <2>2
<1>27. ArgsAgree'
  <2>1. framese \in Nat /\ BlindAbove /\ framese' = framese
    BY <1>1, <1>9, InstructionViews DEF AInv, Arrays
  <2>2. argsp' = Len(View(framese)'.args)
        /\ \A k \in 1 .. argsp' :
             View(framese)'.args[k] = 1 <=> argstack'[k - 1].t = "vec"
    BY ONLY <1>9, <1>23, <1>25, <1>26
  <2> QED
    BY ONLY <1>13, <1>22, <2>1, <2>2, TopAnswers
<1>28. ASSUME NEW j \in 0 .. top - 1, argstack[j].t = "vec"
       PROVE  VecIn(argstack[j], low, StackMax) /\ high <= argstack[j].i
  <2>1. VecIn(argstack[j], high, StackMax)
    BY ONLY <1>5, <1>7, <1>13, <1>28 DEF CopiesStacked
  <2>2. j \in 0 .. (MaxArity - 1)
    BY ONLY <1>18, j \in 0 .. top - 1, MaxArityAssumption DEF Byte
  <2>3. argstack[j].i \in Int /\ argstack[j].n \in Int
    BY ONLY <1>13, <2>2, ValueFields
  <2> QED
    BY ONLY <1>15, <2>1, <2>3 DEF VecIn
<1>29. ASSUME new.t = "vec"
       PROVE  VecIn(new, low, StackMax)
  BY ONLY <1>15, <1>17, <1>29 DEF VecIn
<1>30. ASSUME NEW j \in 0 .. top, argstack'[j].t = "vec"
       PROVE  /\ VecIn(argstack'[j], low, StackMax)
              /\ \A k \in j + 1 .. top :
                   argstack'[k].t = "vec" =>
                     argstack'[k].i + argstack'[k].n <= argstack'[j].i
  <2>1. CASE j = top
    <3>1. VecIn(argstack'[j], low, StackMax)
      BY ONLY <1>19, <1>29, <1>30, <2>1
    <3>2. \A k \in j + 1 .. top : FALSE
      BY ONLY <1>18, <2>1
    <3> QED
      BY ONLY <3>1, <3>2
  <2>2. CASE j # top
    <3>1. j \in 0 .. top - 1
      BY ONLY <1>18, <2>2, j \in 0 .. top
    <3>2. argstack'[j] = argstack[j] /\ argstack[j].t = "vec"
      BY ONLY <1>19, <1>30, <3>1
    <3>3. VecIn(argstack[j], low, StackMax) /\ high <= argstack[j].i
      BY ONLY <1>28, <3>1, <3>2
    <3>4. ASSUME NEW k \in j + 1 .. top, argstack'[k].t = "vec"
          PROVE  argstack'[k].i + argstack'[k].n <= argstack'[j].i
      <4>1. CASE k = top
        <5>1. new.t = "vec" /\ argstack'[k].i = low /\ argstack'[k].n = size
          BY ONLY <1>17, <1>19, <3>4, <4>1
        <5> QED
          BY ONLY <1>15, <3>2, <3>3, <5>1
      <4>2. CASE k # top
        <5>1. k \in 0 .. top - 1 /\ k \in j + 1 .. top - 1
          BY ONLY <1>18, <3>1, <4>2, k \in j + 1 .. top
        <5>2. argstack'[k] = argstack[k]
          BY ONLY <1>19, <5>1
        <5>3. argstack[k].i + argstack[k].n <= argstack[j].i
          BY ONLY <1>7, <1>13, <3>1, <3>2, <3>4, <5>1, <5>2 DEF CopiesStacked
        <5> QED
          BY ONLY <3>2, <5>2, <5>3
      <4> QED
        BY ONLY <4>1, <4>2
    <3> QED
      BY ONLY <3>2, <3>3, <3>4
  <2> QED
    BY ONLY <2>1, <2>2
<1>31. CopiesStacked'
  <2>1. argsp' - 1 = top /\ argasp' = low /\ low <= StackMax
    <3>1. StackMax \in Int
      BY SizesAssumption
    <3> QED
      BY ONLY <1>9, <1>15, <1>18, <3>1
  <2> QED
    BY ONLY <1>30, <2>1 DEF CopiesStacked
<1> QED
  BY ONLY <1>22, <1>27, <1>31 DEF Arguments

(* Where nobody holds a copy the copies may be taken away.                  *)
LEMMA NoCopies ==
  ASSUME VInv, status = "run", BlindAbove, ~Blind(framese),
         NoneIn(Copied, View(framese).kinds), NEW low
  PROVE  CopiesIn(framese, Values, Kinds, low)
<1> SUFFICES ASSUME NEW f \in 0 .. framese, NEW k \in Known(f, framese, Kinds),
                    Kinds[f][k] = Copied
             PROVE  FALSE
  BY DEF CopiesIn
<1>1. FramesTyped /\ framese \in Nat /\ framese \in 0 .. framese
  BY FrameTypes, InstructionViews
<1>2. NoneIn(Copied, View(f).kinds)
  <2>1. f = framese \/ f < framese
    BY ONLY <1>1, f \in 0 .. framese
  <2> QED
    BY ONLY <1>1, <2>1, BlindAbove, ~Blind(framese), f \in 0 .. framese,
            NoneIn(Copied, View(framese).kinds) DEF BlindAbove
<1>3. Kinds[f] = View(f).kinds /\ Kinds[f] \in Seq(Int)
  BY <1>1 DEF FramesTyped, FramesType
<1>4. k \in 1 .. Len(Kinds[f])
  BY ONLY <1>3, k \in Known(f, framese, Kinds) DEF Known
<1> QED
  BY ONLY <1>2, <1>3, <1>4, Kinds[f][k] = Copied DEF NoneIn

(* The last copy is taken away.                                             *)
LEMMA ArgstackUnloadArrays ==
  ASSUME AInv, VInv', status' = "run", UNCHANGED image, ArgstackUnload
  PROVE  Arrays' /\ Arguments'
<1>1. /\ status = "run" /\ Op = OP_ARGSTACK_UNLOAD /\ VInv /\ DInv
      /\ Fetch(OP_ARGSTACK_UNLOAD)
  BY DEF ArgstackUnload, Fetch, AInv, VInv
<1>2. PICK vec : vec = Arg(1)
  OBVIOUS
<1>3. PICK last : last = argsp - 1
  OBVIOUS
<1>4. PICK old : old = argstack[last]
  OBVIOUS
<1>5. PICK size : size = IF vec # 0 THEN old.n ELSE 0
  OBVIOUS
<1>6. PICK low : low = argasp
  OBVIOUS
<1>7. /\ argsp # 0 /\ argsp' = last /\ argasp' = low + size
      /\ Resume(NextIP, SP, ASP)
      /\ UNCHANGED << framese, stack, astack, argstack, status, output >>
  BY <1>2, <1>3, <1>4, <1>5, <1>6 DEF ArgstackUnload, Wild
<1>8. PICK args : args = View(framese).args
  OBVIOUS
<1>9. /\ ~views[Frame.fn].blind /\ args \in Seq({0, 1}) /\ args # << >>
      /\ vec = args[Len(args)] /\ NoneIn(Copied, View(framese).kinds)
  <2>1. /\ ArgumentsOK(image, views, Frame.fn, IP)
        /\ View(framese) = views[Frame.fn].at[IP]
        /\ OpAt(image.fns[Frame.fn], IP) = Op
        /\ ArgAt(image.fns[Frame.fn], IP, 1) = Arg(1)
    BY <1>1, InstructionViews, SameInstruction
  <2>2. args \in Seq({0, 1})
    BY ONLY <1>1, <1>8, Current, AInv
  <2> QED
    BY ONLY <1>1, <1>2, <1>8, <2>1, <2>2 DEF ArgumentsOK
<1>10. /\ argsp = Len(args) /\ argasp \in Int /\ CopiesStacked
       /\ \A k \in 1 .. argsp : args[k] = 1 <=> argstack[k - 1].t = "vec"
       /\ argsp \in 0 .. MaxArity /\ argstack \in [0 .. (MaxArity - 1) -> Value]
       /\ ~Blind(framese)
  BY ONLY <1>1, <1>8, <1>9, ArgsKnown, AInv
<1>11. /\ last \in Nat /\ Len(args) = last + 1 /\ argsp = last + 1
       /\ last \in 0 .. (MaxArity - 1) /\ low \in Int /\ low <= StackMax
  <2>1. low \in Int /\ low <= StackMax
    BY ONLY <1>6, <1>10 DEF CopiesStacked
  <2> QED
    BY ONLY <1>3, <1>7, <1>10, <2>1, MaxArityAssumption DEF Byte
<1>12. \A j \in 0 .. last : argstack[j].i \in Int /\ argstack[j].n \in Int
  <2>1. \A j \in 0 .. last : j \in 0 .. (MaxArity - 1)
    BY ONLY <1>11, MaxArityAssumption DEF Byte
  <2> QED
    BY ONLY <1>10, <2>1, ValueFields
<1>13. /\ vec \in {0, 1} /\ (vec = 1 <=> old.t = "vec")
       /\ old.i \in Int /\ old.n \in Int
  <2>1. last + 1 \in 1 .. argsp /\ (last + 1) - 1 = last /\ last \in 0 .. last
    BY ONLY <1>11
  <2>2. vec = args[last + 1] /\ vec \in {0, 1}
    BY ONLY <1>9, <1>11, <2>1, ElementOf
  <2> QED
    BY ONLY <1>4, <1>10, <1>12, <2>1, <2>2
<1>14. /\ \A j \in 0 .. last : argstack[j].t = "vec" => VecIn(argstack[j], low, StackMax)
       /\ \A j \in 0 .. last - 1 : argstack[j].t = "vec" =>
            /\ \A k \in j + 1 .. last - 1 :
                 argstack[k].t = "vec" => argstack[k].i + argstack[k].n <= argstack[j].i
            /\ old.t = "vec" => old.i + old.n <= argstack[j].i
  <2>1. /\ argsp - 1 = last /\ last \in 0 .. last
        /\ \A j \in 0 .. last - 1 : j \in 0 .. last /\ last \in j + 1 .. last
        /\ \A j \in 0 .. last - 1 : \A k \in j + 1 .. last - 1 : k \in j + 1 .. last
    BY ONLY <1>11
  <2> QED
    BY ONLY <1>4, <1>6, <1>10, <2>1 DEF CopiesStacked
<1>15. /\ size \in Int /\ 0 <= size /\ low + size \in Int /\ low + size <= StackMax
       /\ \A j \in 0 .. last - 1 : argstack[j].t = "vec" => low + size <= argstack[j].i
  <2>1. \A j \in 0 .. last - 1 : j \in 0 .. last
    BY ONLY <1>11
  <2>2. last \in 0 .. last /\ StackMax \in Int
    BY ONLY <1>11, SizesAssumption
  <2>3. CASE vec = 0
    <3>1. size = 0
      BY ONLY <1>5, <2>3
    <3>2. \A j \in 0 .. last - 1 : argstack[j].t = "vec" => low <= argstack[j].i
      BY ONLY <1>14, <2>1 DEF VecIn
    <3> QED
      BY ONLY <1>11, <3>1, <3>2
  <2>4. CASE vec = 1
    <3>1. size = old.n /\ old.t = "vec"
      BY ONLY <1>5, <1>13, <2>4
    <3>2. VecIn(old, low, StackMax)
      BY ONLY <1>4, <1>14, <2>2, <3>1
    <3>3. 0 <= size /\ low <= old.i /\ old.i + size <= StackMax
      BY ONLY <3>1, <3>2 DEF VecIn
    <3>4. size \in Int /\ low + size \in Int /\ low + size <= StackMax
      BY ONLY <1>11, <1>13, <2>2, <3>1, <3>3
    <3>5. ASSUME NEW j \in 0 .. last - 1, argstack[j].t = "vec"
          PROVE  low + size <= argstack[j].i
      <4>1. old.i + size <= argstack[j].i
        BY ONLY <1>14, <3>1, <3>5
      <4>2. argstack[j].i \in Int
        BY ONLY <1>12, <2>1, j \in 0 .. last - 1
      <4> QED
        BY ONLY <1>11, <1>13, <3>1, <3>3, <4>1, <4>2
    <3> QED
      BY ONLY <3>3, <3>4, <3>5
  <2> QED
    BY ONLY <1>13, <2>3, <2>4
<1>16. ScalarElements'
  BY <1>1, <1>7, SameElements
<1>17. BlindAbove /\ framese \in Nat /\ framese' = framese
  BY <1>1, <1>7, InstructionViews DEF AInv, Arrays
<1>18. CopiesIn(framese, Values, Kinds, argasp')
  BY ONLY <1>1, <1>9, <1>10, <1>17, NoCopies
<1>19. /\ Arrays' /\ CopiesIn(framese, Values, Kinds, argasp)'
       /\ View(framese)'.args = ArgsAfter(image, views, Frame.fn, IP)
       /\ \A f \in 0 .. framese : Blind(f)' = Blind(f)
  <2>1. UNCHANGED << image, framese, stack >>
        /\ Op \in {OP_ARGSTACK_LOAD, OP_ARGSTACK_UNLOAD}
    BY ONLY <1>1, <1>7, UNCHANGED image
  <2> QED
    BY ONLY <1>1, <1>7, <1>16, <1>18, <2>1, ArgumentsMove, AInv, VInv',
            status' = "run"
<1>20. PICK after : after = View(framese)'.args
  OBVIOUS
<1>21. after = SubSeq(args, 1, last)
  <2>1. Len(args) - 1 = last
    BY ONLY <1>11
  <2>2. after = SubSeq(args, 1, Len(args) - 1)
    BY ONLY <1>1, <1>8, <1>19, <1>20, OtherAfter
  <2> QED
    BY ONLY <2>1, <2>2
<1>22. Len(after) = last /\ \A k \in 1 .. last : after[k] = args[k]
  <2>1. last <= Len(args)
    BY ONLY <1>11
  <2> QED
    BY ONLY <1>9, <1>11, <1>21, <2>1, TakenOff
<1>23. ArgsAgree'
  <2>1. \A k \in 1 .. last : k \in 1 .. argsp
    BY ONLY <1>11
  <2>2. argsp' = Len(View(framese)'.args)
        /\ \A k \in 1 .. argsp' :
             View(framese)'.args[k] = 1 <=> argstack'[k - 1].t = "vec"
    BY ONLY <1>7, <1>10, <1>20, <1>22, <2>1
  <2> QED
    BY ONLY <1>10, <1>17, <1>19, <2>2, TopAnswers
<1>24. ASSUME NEW j \in 0 .. last - 1, argstack[j].t = "vec"
       PROVE  VecIn(argstack[j], low + size, StackMax)
  <2>1. j \in 0 .. last
    BY ONLY <1>11, j \in 0 .. last - 1
  <2>2. VecIn(argstack[j], low, StackMax) /\ low + size <= argstack[j].i
    BY ONLY <1>14, <1>15, <1>24, <2>1
  <2> QED
    BY ONLY <2>2 DEF VecIn
<1>25. CopiesStacked'
  BY ONLY <1>7, <1>14, <1>15, <1>24 DEF CopiesStacked
<1> QED
  BY ONLY <1>19, <1>23, <1>25 DEF Arguments

-----------------------------------------------------------------------------
(* A call.  The frame that calls keeps what is below its arguments, which   *)
(* become the first values of the new frame.                                *)
CallMade(m, n, a, V, K, A, R, W, L, B, S) ==
  /\ FramesType(m, V, K, A, R) /\ FramesType(m + 1, W, L, B, S)
  /\ KindsIn(m, V, K) /\ RoomsIn(m, A, R) /\ VectorsIn(m, V, K, R)
  /\ TempsIn(m, m, V, K, A)
  /\ n = Len(K[m]) /\ a \in Nat /\ a + 1 <= n
  /\ \A f \in 0 .. m - 1 :
       W[f] = V[f] /\ L[f] = K[f] /\ B[f] = A[f] /\ S[f] = R[f]
  /\ Len(L[m]) = n - a /\ W[m][n - a].t # "vec"
  /\ \A k \in 1 .. n - a - 1 : W[m][k] = V[m][k] /\ KindFits(K[m][k], L[m][k])
  /\ B[m] = A[m] /\ R[m] <= S[m] /\ S[m] <= A[m]
  /\ Len(L[m + 1]) = a /\ B[m + 1] = A[m] /\ S[m + 1] = A[m]
  /\ \A k \in 1 .. a : /\ W[m + 1][k] = V[m][n - a + k]
                       /\ L[m + 1][k] \in {AnyKind, ScalarKind}
                       /\ KindFits(K[m][n - a + k], L[m + 1][k])

(* The numbers of a call.                                                   *)
LEMMA CallNumbers ==
  ASSUME NEW m, NEW n, NEW a, NEW V, NEW K, NEW A, NEW R, NEW W, NEW L, NEW B,
         NEW S, CallMade(m, n, a, V, K, A, R, W, L, B, S)
  PROVE  /\ m \in Nat /\ n \in Nat /\ a \in Nat /\ a + 1 <= n
         /\ Len(K[m]) = n /\ Len(L[m]) = n - a /\ Len(L[m + 1]) = a
         /\ \A f \in 0 .. m : /\ A[f] \in Int /\ R[f] \in Int
                              /\ Len(K[f]) \in Nat
         /\ \A f \in 0 .. m + 1 : /\ B[f] \in Int /\ S[f] \in Int
                                  /\ Len(L[f]) \in Nat
         /\ \A f \in 0 .. m : \A k \in 1 .. Len(K[f]) :
              /\ V[f][k] \in Value /\ V[f][k].i \in Int /\ V[f][k].n \in Int
              /\ K[f][k] \in Int
         /\ \A f \in 0 .. m + 1 : \A k \in 1 .. Len(L[f]) :
              /\ W[f][k] \in Value /\ L[f][k] \in Int
<1>1. /\ m \in Nat /\ m + 1 \in Nat /\ m \in 0 .. m
      /\ V \in [0 .. m -> Seq(Value)] /\ K \in [0 .. m -> Seq(Int)]
      /\ A \in [0 .. m -> Int] /\ R \in [0 .. m -> Int]
      /\ \A f \in 0 .. m : Len(V[f]) = Len(K[f])
      /\ W \in [0 .. m + 1 -> Seq(Value)] /\ L \in [0 .. m + 1 -> Seq(Int)]
      /\ B \in [0 .. m + 1 -> Int] /\ S \in [0 .. m + 1 -> Int]
      /\ \A f \in 0 .. m + 1 : Len(W[f]) = Len(L[f])
      /\ n = Len(K[m]) /\ a \in Nat /\ a + 1 <= n
      /\ Len(L[m]) = n - a /\ Len(L[m + 1]) = a
  <2>1. FramesType(m, V, K, A, R) /\ FramesType(m + 1, W, L, B, S)
        /\ n = Len(K[m]) /\ a \in Nat /\ a + 1 <= n
        /\ Len(L[m]) = n - a /\ Len(L[m + 1]) = a
    BY DEF CallMade
  <2>2. /\ m \in Nat /\ V \in [0 .. m -> Seq(Value)] /\ K \in [0 .. m -> Seq(Int)]
        /\ A \in [0 .. m -> Int] /\ R \in [0 .. m -> Int]
        /\ \A f \in 0 .. m : Len(V[f]) = Len(K[f])
    BY ONLY <2>1, Zenon DEF FramesType
  <2>3. /\ W \in [0 .. m + 1 -> Seq(Value)] /\ L \in [0 .. m + 1 -> Seq(Int)]
        /\ B \in [0 .. m + 1 -> Int] /\ S \in [0 .. m + 1 -> Int]
        /\ \A f \in 0 .. m + 1 : Len(W[f]) = Len(L[f])
    BY ONLY <2>1, Zenon DEF FramesType
  <2>4. m + 1 \in Nat /\ m \in 0 .. m
    BY ONLY <2>2
  <2> QED
    BY ONLY <2>1, <2>2, <2>3, <2>4
<1>2. ASSUME NEW f \in 0 .. m
      PROVE  A[f] \in Int /\ R[f] \in Int /\ Len(K[f]) \in Nat
  <2>1. A[f] \in Int /\ R[f] \in Int /\ K[f] \in Seq(Int)
    BY ONLY <1>1, f \in 0 .. m
  <2> QED
    BY ONLY <2>1
<1>3. ASSUME NEW f \in 0 .. m + 1
      PROVE  B[f] \in Int /\ S[f] \in Int /\ Len(L[f]) \in Nat
  <2>1. B[f] \in Int /\ S[f] \in Int /\ L[f] \in Seq(Int)
    BY ONLY <1>1, f \in 0 .. m + 1
  <2> QED
    BY ONLY <2>1
<1>4. ASSUME NEW f \in 0 .. m, NEW k \in 1 .. Len(K[f])
      PROVE  /\ V[f][k] \in Value /\ V[f][k].i \in Int /\ V[f][k].n \in Int
             /\ K[f][k] \in Int
  <2>1. V[f] \in Seq(Value) /\ K[f] \in Seq(Int) /\ k \in 1 .. Len(V[f])
    BY ONLY <1>1, f \in 0 .. m, k \in 1 .. Len(K[f])
  <2> QED
    BY ONLY <2>1, k \in 1 .. Len(K[f]), ElementOf, ValueFields
<1>5. ASSUME NEW f \in 0 .. m + 1, NEW k \in 1 .. Len(L[f])
      PROVE  W[f][k] \in Value /\ L[f][k] \in Int
  <2>1. W[f] \in Seq(Value) /\ L[f] \in Seq(Int) /\ k \in 1 .. Len(W[f])
    BY ONLY <1>1, f \in 0 .. m + 1, k \in 1 .. Len(L[f])
  <2> QED
    BY ONLY <2>1, k \in 1 .. Len(L[f]), ElementOf
<1>6. n \in Nat
  BY ONLY <1>1, <1>2
<1> QED
  BY ONLY <1>1, <1>2, <1>3, <1>4, <1>5, <1>6

(* What the caller keeps, and what the new frame begins with.               *)
LEMMA CallKept ==
  ASSUME NEW m, NEW n, NEW a, NEW V, NEW K, NEW A, NEW R, NEW W, NEW L, NEW B,
         NEW S, CallMade(m, n, a, V, K, A, R, W, L, B, S)
  PROVE  /\ \A f \in 0 .. m + 1 : f \in 0 .. m - 1 \/ f = m \/ f = m + 1
         /\ \A f \in 0 .. m - 1 :
              /\ f \in 0 .. m /\ f # m /\ f # m + 1 /\ m \in 0 .. m
              /\ W[f] = V[f] /\ L[f] = K[f] /\ B[f] = A[f] /\ S[f] = R[f]
              /\ Known(f, m + 1, L) = Known(f, m, K)
         /\ \A k \in Known(m, m + 1, L) :
              /\ k \in Known(m, m, K) /\ k \in 1 .. Len(K[m])
              /\ W[m][k] = V[m][k] /\ KindFits(K[m][k], L[m][k])
              /\ L[m][k] \in Int /\ K[m][k] \in Int
         /\ \A k \in 1 .. Len(L[m]) :
              k \in Known(m, m + 1, L) \/ W[m][k].t # "vec"
         /\ \A k \in 1 .. Len(L[m + 1]) : \E j \in Known(m, m, K) :
              /\ j \in 1 .. Len(K[m]) /\ W[m + 1][k] = V[m][j]
              /\ L[m + 1][k] \in {AnyKind, ScalarKind}
              /\ KindFits(K[m][j], L[m + 1][k])
              /\ L[m + 1][k] \in Int /\ K[m][j] \in Int
<1>1. /\ m \in Nat /\ n \in Nat /\ a \in Nat /\ a + 1 <= n
      /\ Len(K[m]) = n /\ Len(L[m]) = n - a /\ Len(L[m + 1]) = a
  BY CallNumbers
<1>2. /\ \A f \in 0 .. m + 1 : f \in 0 .. m - 1 \/ f = m \/ f = m + 1
      /\ \A f \in 0 .. m - 1 : f \in 0 .. m /\ f # m /\ f # m + 1
      /\ m \in 0 .. m /\ m \in 0 .. m + 1 /\ m + 1 \in 0 .. m + 1 /\ m # m + 1
  BY ONLY <1>1
<1>3. \A f \in 0 .. m - 1 :
        W[f] = V[f] /\ L[f] = K[f] /\ B[f] = A[f] /\ S[f] = R[f]
  BY DEF CallMade
<1>4. \A f \in 0 .. m - 1 : Known(f, m + 1, L) = Known(f, m, K)
  BY ONLY <1>2, <1>3 DEF Known
<1>5. /\ Known(m, m + 1, L) = 1 .. n - a - 1 /\ Known(m, m, K) = 1 .. n
      /\ \A k \in 1 .. n - a - 1 : k \in 1 .. n /\ k \in 1 .. n - a
      /\ \A k \in 1 .. n - a : k \in 1 .. n - a - 1 \/ k = n - a
      /\ \A k \in 1 .. a : n - a + k \in 1 .. n
  <2>1. Known(m, m + 1, L) = 1 .. n - a - 1 /\ Known(m, m, K) = 1 .. n
    BY ONLY <1>1, <1>2 DEF Known
  <2> QED
    BY ONLY <1>1, <2>1
<1>6. /\ W[m][n - a].t # "vec"
      /\ \A k \in 1 .. n - a - 1 : W[m][k] = V[m][k] /\ KindFits(K[m][k], L[m][k])
      /\ \A k \in 1 .. a : /\ W[m + 1][k] = V[m][n - a + k]
                           /\ L[m + 1][k] \in {AnyKind, ScalarKind}
                           /\ KindFits(K[m][n - a + k], L[m + 1][k])
  BY DEF CallMade
<1>7. /\ \A k \in 1 .. n : K[m][k] \in Int
      /\ \A k \in 1 .. n - a : L[m][k] \in Int
      /\ \A k \in 1 .. a : L[m + 1][k] \in Int
  <2>1. /\ \A f \in 0 .. m : \A k \in 1 .. Len(K[f]) : K[f][k] \in Int
        /\ \A f \in 0 .. m + 1 : \A k \in 1 .. Len(L[f]) : L[f][k] \in Int
    BY CallNumbers
  <2> QED
    BY ONLY <1>1, <1>2, <2>1
<1>8. \A k \in 1 .. n - a : k \in Known(m, m + 1, L) \/ W[m][k].t # "vec"
  BY ONLY <1>5, <1>6
<1>9. \A k \in Known(m, m + 1, L) :
        /\ k \in Known(m, m, K) /\ k \in 1 .. n
        /\ W[m][k] = V[m][k] /\ KindFits(K[m][k], L[m][k])
        /\ L[m][k] \in Int /\ K[m][k] \in Int
  BY ONLY <1>5, <1>6, <1>7
<1>10. ASSUME NEW k \in 1 .. a
       PROVE  \E j \in Known(m, m, K) :
                /\ j \in 1 .. n /\ W[m + 1][k] = V[m][j]
                /\ L[m + 1][k] \in {AnyKind, ScalarKind}
                /\ KindFits(K[m][j], L[m + 1][k])
                /\ L[m + 1][k] \in Int /\ K[m][j] \in Int
  BY ONLY <1>5, <1>6, <1>7, k \in 1 .. a
<1> QED
  BY ONLY <1>1, <1>2, <1>3, <1>4, <1>8, <1>9, <1>10

LEMMA CallKinds ==
  ASSUME NEW m, NEW n, NEW a, NEW V, NEW K, NEW A, NEW R, NEW W, NEW L, NEW B,
         NEW S, CallMade(m, n, a, V, K, A, R, W, L, B, S)
  PROVE  KindsIn(m + 1, W, L)
<1>1. /\ m \in Nat /\ m \in 0 .. m /\ m # m + 1 /\ (m + 1) - 1 = m
      /\ \A f \in 0 .. m : f \in 0 .. m - 1 \/ f = m
      /\ KindsIn(m, V, K)
  <2>1. m \in Nat
    BY CallNumbers
  <2>2. KindsIn(m, V, K)
    BY DEF CallMade
  <2> QED
    BY ONLY <2>1, <2>2
<1>2. ASSUME NEW f \in 0 .. m + 1, NEW k \in Known(f, m + 1, L)
      PROVE  KindHeld(W[f][k], L[f][k])
  <2>1. f \in 0 .. m - 1 \/ f = m \/ f = m + 1
    BY CallKept
  <2>2. CASE f \in 0 .. m - 1
    <3>1. /\ f \in 0 .. m /\ W[f] = V[f] /\ L[f] = K[f] /\ k \in Known(f, m, K)
      BY <2>2, CallKept
    <3> QED
      BY ONLY <1>1, <3>1 DEF KindsIn
  <2>3. CASE f = m
    <3>1. /\ k \in Known(m, m, K) /\ W[m][k] = V[m][k]
          /\ KindFits(K[m][k], L[m][k]) /\ L[m][k] \in Int /\ K[m][k] \in Int
      BY <2>3, CallKept
    <3>2. KindHeld(V[m][k], K[m][k])
      BY ONLY <1>1, <3>1 DEF KindsIn
    <3> QED
      BY ONLY <2>3, <3>1, <3>2, FittingKinds
  <2>4. CASE f = m + 1
    <3>1. k \in 1 .. Len(L[m + 1])
      BY ONLY <2>4, k \in Known(f, m + 1, L) DEF Known
    <3>2. PICK j \in Known(m, m, K) :
            /\ W[m + 1][k] = V[m][j] /\ KindFits(K[m][j], L[m + 1][k])
            /\ L[m + 1][k] \in Int /\ K[m][j] \in Int
      BY <3>1, CallKept
    <3>3. KindHeld(V[m][j], K[m][j])
      BY ONLY <1>1, j \in Known(m, m, K) DEF KindsIn
    <3> QED
      BY ONLY <2>4, <3>2, <3>3, FittingKinds
  <2> QED
    BY ONLY <2>1, <2>2, <2>3, <2>4
<1>3. ASSUME NEW f \in 0 .. m
      PROVE  W[f][Len(L[f])].t # "vec"
  <2>1. CASE f \in 0 .. m - 1
    <3>1. W[f] = V[f] /\ L[f] = K[f]
      BY <2>1, CallKept
    <3> QED
      BY ONLY <1>1, <2>1, <3>1 DEF KindsIn
  <2>2. CASE f = m
    <3>1. Len(L[m]) = n - a /\ W[m][n - a].t # "vec"
      BY DEF CallMade
    <3> QED
      BY ONLY <2>2, <3>1
  <2> QED
    BY ONLY <1>1, <2>1, <2>2, f \in 0 .. m
<1> QED
  BY ONLY <1>1, <1>2, <1>3 DEF KindsIn

LEMMA CallRooms ==
  ASSUME NEW m, NEW n, NEW a, NEW V, NEW K, NEW A, NEW R, NEW W, NEW L, NEW B,
         NEW S, CallMade(m, n, a, V, K, A, R, W, L, B, S)
  PROVE  RoomsIn(m + 1, B, S)
<1>1. /\ m \in Nat /\ m \in 0 .. m
      /\ \A f \in 0 .. m : A[f] \in Int /\ R[f] \in Int
      /\ \A f \in 0 .. m + 1 : B[f] \in Int /\ S[f] \in Int
      /\ m \in 0 .. m + 1
  <2>1. m \in Nat
    BY CallNumbers
  <2>2. m \in 0 .. m /\ m \in 0 .. m + 1
    BY ONLY <2>1
  <2> QED
    BY ONLY <2>1, <2>2, CallNumbers, CallMade(m, n, a, V, K, A, R, W, L, B, S)
<1>2. /\ RoomsIn(m, A, R) /\ B[m] = A[m] /\ R[m] <= S[m] /\ S[m] <= A[m]
      /\ B[m + 1] = A[m] /\ S[m + 1] = A[m]
  BY DEF CallMade
<1>3. \A f \in 0 .. m - 1 : B[f] = A[f] /\ S[f] = R[f] /\ f \in 0 .. m
  BY CallKept
<1>4. \A f \in 0 .. m : /\ 0 <= R[f] /\ R[f] <= A[f]
                        /\ \A g \in 0 .. f - 1 : A[g] <= R[f]
  BY ONLY <1>2 DEF RoomsIn
<1>5. \A g \in 0 .. m - 1 : B[g] <= R[m]
  BY ONLY <1>1, <1>3, <1>4
<1> SUFFICES ASSUME NEW f \in 0 .. m + 1
             PROVE  /\ 0 <= S[f] /\ S[f] <= B[f]
                    /\ \A g \in 0 .. f - 1 : B[g] <= S[f]
  BY DEF RoomsIn
<1>6. f \in 0 .. m - 1 \/ f = m \/ f = m + 1
  BY CallKept
<1>7. /\ 0 <= R[m] /\ R[m] <= A[m] /\ R[m] \in Int /\ A[m] \in Int /\ S[m] \in Int
      /\ \A g \in 0 .. m - 1 : B[g] \in Int
  <2>1. \A g \in 0 .. m - 1 : g \in 0 .. m + 1
    BY ONLY <1>1
  <2> QED
    BY ONLY <1>1, <1>4, <2>1
<1>8. CASE f \in 0 .. m - 1
  <2>1. \A g \in 0 .. f - 1 : g \in 0 .. m - 1
    BY ONLY <1>1, <1>8
  <2> QED
    BY ONLY <1>3, <1>4, <1>8, <2>1
<1>9. CASE f = m
  <2>1. 0 <= S[m] /\ S[m] <= B[m]
    BY ONLY <1>2, <1>7
  <2>2. ASSUME NEW g \in 0 .. m - 1
        PROVE  B[g] <= S[m]
    <3>1. B[g] \in Int /\ B[g] <= R[m]
      BY ONLY <1>5, <1>7, g \in 0 .. m - 1
    <3> QED
      BY ONLY <1>2, <1>7, <3>1
  <2> QED
    BY ONLY <1>9, <2>1, <2>2
<1>10. CASE f = m + 1
  <2>1. 0 <= S[m + 1] /\ S[m + 1] <= B[m + 1]
    BY ONLY <1>2, <1>7
  <2>2. ASSUME NEW g \in 0 .. f - 1
        PROVE  B[g] <= S[m + 1]
    <3>1. g = m \/ g \in 0 .. m - 1
      BY ONLY <1>1, <1>10, g \in 0 .. f - 1
    <3>2. CASE g = m
      BY ONLY <1>2, <1>7, <3>2
    <3>3. CASE g \in 0 .. m - 1
      <4>1. B[g] \in Int /\ B[g] <= R[m]
        BY ONLY <1>5, <1>7, <3>3
      <4> QED
        BY ONLY <1>2, <1>7, <4>1
    <3> QED
      BY ONLY <3>1, <3>2, <3>3
  <2> QED
    BY ONLY <1>10, <2>1, <2>2
<1> QED
  BY ONLY <1>6, <1>8, <1>9, <1>10

LEMMA CallVectors ==
  ASSUME NEW m, NEW n, NEW a, NEW V, NEW K, NEW A, NEW R, NEW W, NEW L, NEW B,
         NEW S, CallMade(m, n, a, V, K, A, R, W, L, B, S)
  PROVE  VectorsIn(m + 1, W, L, S)
<1>1. /\ m \in Nat /\ m \in 0 .. m /\ m \in 0 .. m + 1
      /\ \A f \in 0 .. m : A[f] \in Int /\ R[f] \in Int
      /\ \A f \in 0 .. m + 1 : S[f] \in Int
      /\ \A f \in 0 .. m : \A k \in 1 .. Len(K[f]) :
           V[f][k].i \in Int /\ V[f][k].n \in Int
  <2>1. m \in Nat
    BY CallNumbers
  <2>2. m \in 0 .. m /\ m \in 0 .. m + 1
    BY ONLY <2>1
  <2> QED
    BY ONLY <2>1, <2>2, CallNumbers, CallMade(m, n, a, V, K, A, R, W, L, B, S)
<1>2. /\ VectorsIn(m, V, K, R) /\ R[m] <= S[m] /\ S[m] <= A[m] /\ S[m + 1] = A[m]
  BY DEF CallMade
<1>3. R[m] \in Int /\ S[m] \in Int /\ A[m] \in Int
  BY ONLY <1>1
<1>4. ASSUME NEW j \in 1 .. Len(K[m]), Lower(V[m][j], K[m][j])
      PROVE  VecIn(V[m][j], 0, S[m]) /\ VecIn(V[m][j], 0, S[m + 1])
  <2>1. VecIn(V[m][j], 0, R[m])
    BY ONLY <1>1, <1>2, <1>4 DEF VectorsIn
  <2>2. V[m][j].i \in Int /\ V[m][j].n \in Int
    BY ONLY <1>1, j \in 1 .. Len(K[m])
  <2> QED
    BY ONLY <1>2, <1>3, <2>1, <2>2 DEF VecIn
<1> SUFFICES ASSUME NEW f \in 0 .. m + 1, NEW k \in 1 .. Len(L[f]),
                    Lower(W[f][k], L[f][k])
             PROVE  VecIn(W[f][k], 0, S[f])
  BY DEF VectorsIn
<1>5. f \in 0 .. m - 1 \/ f = m \/ f = m + 1
  BY CallKept
<1>6. CASE f \in 0 .. m - 1
  <2>1. f \in 0 .. m /\ W[f] = V[f] /\ L[f] = K[f] /\ S[f] = R[f]
    BY <1>6, CallKept
  <2> QED
    BY ONLY <1>2, <2>1, k \in 1 .. Len(L[f]), Lower(W[f][k], L[f][k])
       DEF VectorsIn
<1>7. CASE f = m
  <2>1. k \in Known(m, m + 1, L)
    <3>1. W[m][k].t = "vec"
      BY <1>7 DEF Lower
    <3> QED
      BY <1>7, <3>1, CallKept
  <2>2. /\ k \in 1 .. Len(K[m]) /\ W[m][k] = V[m][k]
        /\ KindFits(K[m][k], L[m][k]) /\ L[m][k] \in Int /\ K[m][k] \in Int
    BY <2>1, CallKept
  <2>3. Lower(V[m][k], K[m][k])
    BY ONLY <1>7, <2>2, Lower(W[f][k], L[f][k]), FittingKinds DEF Lower
  <2> QED
    BY ONLY <1>4, <1>7, <2>2, <2>3
<1>8. CASE f = m + 1
  <2>1. PICK j \in Known(m, m, K) :
          /\ j \in 1 .. Len(K[m]) /\ W[m + 1][k] = V[m][j]
          /\ KindFits(K[m][j], L[m + 1][k])
          /\ L[m + 1][k] \in Int /\ K[m][j] \in Int
    BY <1>8, CallKept
  <2>2. Lower(V[m][j], K[m][j])
    BY ONLY <1>8, <2>1, Lower(W[f][k], L[f][k]), FittingKinds DEF Lower
  <2> QED
    BY ONLY <1>4, <1>8, <2>1, <2>2
<1> QED
  BY ONLY <1>5, <1>6, <1>7, <1>8

LEMMA CallTemps ==
  ASSUME NEW m, NEW n, NEW a, NEW V, NEW K, NEW A, NEW R, NEW W, NEW L, NEW B,
         NEW S, CallMade(m, n, a, V, K, A, R, W, L, B, S)
  PROVE  TempsIn(m + 1, m + 1, W, L, B)
<1>1. /\ m \in Nat /\ m \in 0 .. m /\ TempsIn(m, m, V, K, A)
      /\ \A f \in 0 .. m - 1 : \A g \in 0 .. f - 1 : g \in 0 .. m - 1
  <2>1. m \in Nat
    BY CallNumbers
  <2>2. TempsIn(m, m, V, K, A)
    BY DEF CallMade
  <2>3. m \in 0 .. m /\ \A f \in 0 .. m - 1 : \A g \in 0 .. f - 1 : g \in 0 .. m - 1
    BY ONLY <2>1
  <2> QED
    BY ONLY <2>1, <2>2, <2>3
<1>2. \A f \in 0 .. m - 1 :
        /\ f \in 0 .. m /\ W[f] = V[f] /\ L[f] = K[f] /\ B[f] = A[f]
        /\ Known(f, m + 1, L) = Known(f, m, K)
  BY CallKept
<1> SUFFICES ASSUME NEW f \in 0 .. m + 1, NEW k \in Known(f, m + 1, L),
                    L[f][k] = Temp
             PROVE  /\ \A g \in 0 .. f - 1 : B[g] <= W[f][k].i
                    /\ \A j \in 1 .. k - 1 : Lower(W[f][j], L[f][j]) =>
                         W[f][j].i + W[f][j].n <= W[f][k].i
  BY DEF TempsIn
<1>3. f \in 0 .. m - 1 \/ f = m \/ f = m + 1
  BY CallKept
<1>4. CASE f \in 0 .. m - 1
  <2>1. \A g \in 0 .. f - 1 : B[g] = A[g]
    BY ONLY <1>1, <1>2, <1>4
  <2>2. k \in Known(f, m, K) /\ K[f][k] = Temp /\ f \in 0 .. m
    BY ONLY <1>2, <1>4, k \in Known(f, m + 1, L), L[f][k] = Temp
  <2>3. /\ \A g \in 0 .. f - 1 : A[g] <= V[f][k].i
        /\ \A j \in 1 .. k - 1 : Lower(V[f][j], K[f][j]) =>
             V[f][j].i + V[f][j].n <= V[f][k].i
    BY ONLY <1>1, <2>2 DEF TempsIn
  <2>4. W[f] = V[f] /\ L[f] = K[f]
    BY ONLY <1>2, <1>4
  <2> QED
    BY ONLY <2>1, <2>3, <2>4
<1>5. CASE f = m
  <2>1. /\ k \in Known(m, m, K) /\ W[m][k] = V[m][k]
        /\ KindFits(K[m][k], L[m][k]) /\ L[m][k] \in Int /\ K[m][k] \in Int
    BY <1>5, CallKept
  <2>2. K[m][k] = Temp
    BY ONLY <1>5, <2>1, L[f][k] = Temp, FittingKinds
  <2>3. /\ \A g \in 0 .. m - 1 : A[g] <= V[m][k].i
        /\ \A j \in 1 .. k - 1 : Lower(V[m][j], K[m][j]) =>
             V[m][j].i + V[m][j].n <= V[m][k].i
    BY ONLY <1>1, <2>1, <2>2 DEF TempsIn
  <2>4. \A g \in 0 .. m - 1 : B[g] = A[g]
    BY ONLY <1>2
  <2>5. ASSUME NEW j \in 1 .. k - 1, Lower(W[m][j], L[m][j])
        PROVE  W[m][j].i + W[m][j].n <= W[m][k].i
    <3>1. j \in Known(m, m + 1, L)
      <4>1. k \in 1 .. Len(L[m]) - 1
        BY ONLY <1>1, <1>5, k \in Known(f, m + 1, L) DEF Known
      <4>2. Len(L[m]) \in Nat
        <5>1. Len(L[m]) = n - a /\ n \in Nat /\ a \in Nat /\ a + 1 <= n
          BY CallNumbers
        <5> QED
          BY ONLY <5>1
      <4>3. j \in 1 .. Len(L[m]) - 1
        BY ONLY <4>1, <4>2, j \in 1 .. k - 1
      <4> QED
        BY ONLY <1>1, <4>3 DEF Known
    <3>2. /\ W[m][j] = V[m][j] /\ KindFits(K[m][j], L[m][j])
          /\ L[m][j] \in Int /\ K[m][j] \in Int
      BY <3>1, CallKept
    <3>3. Lower(V[m][j], K[m][j])
      BY ONLY <2>5, <3>2, FittingKinds DEF Lower
    <3> QED
      BY ONLY <2>1, <2>3, <3>2, <3>3, j \in 1 .. k - 1
  <2> QED
    BY ONLY <1>5, <2>1, <2>3, <2>4, <2>5
<1>6. CASE f = m + 1
  <2>1. k \in 1 .. Len(L[m + 1])
    BY ONLY <1>6, k \in Known(f, m + 1, L) DEF Known
  <2>2. L[m + 1][k] \in {AnyKind, ScalarKind}
    BY <2>1, CallKept
  <2> QED
    BY ONLY <1>6, <2>2, L[f][k] = Temp DEF AnyKind, ScalarKind, Temp
<1> QED
  BY ONLY <1>3, <1>4, <1>5, <1>6

LEMMA CallCopies ==
  ASSUME NEW m, NEW n, NEW a, NEW V, NEW K, NEW A, NEW R, NEW W, NEW L, NEW B,
         NEW S, CallMade(m, n, a, V, K, A, R, W, L, B, S),
         NEW low, CopiesIn(m, V, K, low)
  PROVE  CopiesIn(m + 1, W, L, low)
<1> SUFFICES ASSUME NEW f \in 0 .. m + 1, NEW k \in Known(f, m + 1, L),
                    L[f][k] = Copied
             PROVE  VecIn(W[f][k], low, StackMax)
  BY DEF CopiesIn
<1>3. f \in 0 .. m - 1 \/ f = m \/ f = m + 1
  BY CallKept
<1>4. CASE f \in 0 .. m - 1
  <2>1. /\ f \in 0 .. m /\ W[f] = V[f] /\ L[f] = K[f]
        /\ k \in Known(f, m, K)
    BY <1>4, CallKept
  <2> QED
    BY ONLY <2>1, CopiesIn(m, V, K, low), L[f][k] = Copied DEF CopiesIn
<1>5. CASE f = m
  <2>1. /\ k \in Known(m, m, K) /\ W[m][k] = V[m][k]
        /\ KindFits(K[m][k], L[m][k]) /\ L[m][k] \in Int /\ K[m][k] \in Int
    BY <1>5, CallKept
  <2>2. K[m][k] = Copied
    BY ONLY <1>5, <2>1, L[f][k] = Copied, FittingKinds
  <2>3. m \in 0 .. m
    <3>1. m \in Nat
      BY CallNumbers
    <3> QED
      BY ONLY <3>1
  <2> QED
    BY ONLY <1>5, <2>1, <2>2, <2>3, CopiesIn(m, V, K, low) DEF CopiesIn
<1>6. CASE f = m + 1
  <2>1. k \in 1 .. Len(L[m + 1])
    BY ONLY <1>6, k \in Known(f, m + 1, L) DEF Known
  <2>2. L[m + 1][k] \in {AnyKind, ScalarKind}
    BY <2>1, CallKept
  <2> QED
    BY ONLY <1>6, <2>2, L[f][k] = Copied DEF AnyKind, ScalarKind, Copied
<1> QED
  BY ONLY <1>3, <1>4, <1>5, <1>6

(* What a call does to the frames.                                          *)
LEMMA CallMoves ==
  ASSUME VInv, status' = "run", UNCHANGED image, Call,
         NEW m, m = framese, NEW n, n = Len(ShapeOf(framese)),
         NEW a, a = Arg(1), NEW g, g = ShapeOf(framese)[n - a]
  PROVE  /\ status = "run" /\ Op = OP_CALL
         /\ m \in Nat /\ n \in Nat /\ a \in Nat /\ a + 1 <= n
         /\ g \in DOMAIN image.fns /\ image.fns[g].arity = a
         /\ framese' = m + 1
         /\ UNCHANGED << stack, astack, argstack, argsp, argasp >>
         /\ \A f \in 0 .. m - 1 : framestack'[f] = framestack[f]
         /\ framestack'[m].fn = Frame.fn /\ framestack'[m].base = Frame.base
         /\ framestack'[m].asp = ASP /\ framestack'[m].ip = NextIP
         /\ framestack'[m + 1].fn = g
         /\ framestack'[m + 1].base = Frame.base + (n - a)
         /\ framestack'[m + 1].asp = ASP /\ framestack'[m + 1].ip = 0
         /\ stack[Frame.base + (n - a) - 1].t # "vec"
         /\ Effect(a + 1, << 0 >>)
<1>1. status = "run" /\ Op = OP_CALL /\ Fetch(OP_CALL) /\ DInv
  BY DEF Call, Fetch, VInv
<1>2. Op \notin Peeks /\ Effect(a + 1, << 0 >>)
  BY <1>1, Groups, Effects DEF Alone
<1>3. /\ m \in Nat /\ m \in 0 .. m /\ n \in Nat /\ Frame.base \in Nat
      /\ SP = Frame.base + n
      /\ ShapeOf(framese) \in Seq({0} \cup (DOMAIN image.fns \ {1}))
  BY <1>1, CurrentFacts
<1>4. a \in Nat
  BY <1>1, HandlerFacts, Operands DEF DInv, OneOperandByte
<1>5. a + 1 <= n /\ a + 1 \in Nat
  BY <1>1, <1>2, <1>4, EnoughThere DEF Effect
<1>6. /\ n - a \in 1 .. n /\ SP - a = Frame.base + (n - a)
      /\ Frame.base + (n - a) - 1 = SP - (a + 1)
  BY ONLY <1>3, <1>4, <1>5, CallArithmetic
<1>7. g # 0 /\ image.fns[g].arity = a
  <2>1. CallOK(image, Frame.fn, IP)
    BY <1>1, CurrentFacts DEF InstructionOK
  <2>2. /\ OpAt(image.fns[Frame.fn], IP) = OP_CALL
        /\ ArgAt(image.fns[Frame.fn], IP, 1) = a
        /\ image.fns[Frame.fn] = Fn(framese)
        /\ Fn(framese).shape[IP] = ShapeOf(framese)
    BY <1>1, SameInstruction, CurrentFacts
  <2> QED
    BY <2>1, <2>2 DEF CallOK
<1>8. g \in DOMAIN image.fns
  BY <1>3, <1>6, <1>7
<1>9. /\ peekv(a + 1) = FnV(g, image.fns[g].level)
      /\ stack[Frame.base + (n - a) - 1] = FnV(g, image.fns[g].level)
  <2>1. /\ Frame.base + (n - a) - 1 \in CellIndex
        /\ stack[Frame.base + (n - a) - 1] = FnV(g, image.fns[g].level)
    BY <1>1, <1>3, <1>6, <1>7, FrameHolds DEF Frame
  <2>2. stack \in [CellIndex -> Value]
    BY <1>1 DEF DInv, IInv, TypeOK
  <2> QED
    BY <1>6, <2>1, <2>2 DEF peekv, Slot, Cell
<1>10. /\ framese' = m + 1 /\ framese # StackMax
       /\ UNCHANGED << stack, astack, argstack, argsp, argasp >>
       /\ framestack' = [framestack EXCEPT
            ![framese].ip = NextIP,
            ![framese + 1] =
              [ip |-> 0, sp |-> SP, base |-> SP - a, asp |-> ASP,
               fn |-> peekv(a + 1).i, env |-> peekv(a + 1).n]]
  BY DEF Call, Wild
<1>11. /\ framestack \in [FrameIndex -> FrameType] /\ framese \in FrameIndex
       /\ m + 1 \in FrameIndex /\ m # m + 1
  BY <1>1, <1>3, <1>10, SizesAssumption DEF DInv, IInv, TypeOK, FrameIndex
<1>12. \A f \in 0 .. m - 1 : f # m /\ f # m + 1 /\ f \in FrameIndex
  BY ONLY <1>3, <1>11, SizesAssumption, m = framese DEF FrameIndex
<1>13. /\ \A f \in 0 .. m - 1 : framestack'[f] = framestack[f]
       /\ framestack'[m] = [framestack[m] EXCEPT !.ip = NextIP]
       /\ framestack'[m + 1] =
            [ip |-> 0, sp |-> SP, base |-> SP - a, asp |-> ASP,
             fn |-> peekv(a + 1).i, env |-> peekv(a + 1).n]
  <2>1. PICK new : new = [ip |-> 0, sp |-> SP, base |-> SP - a, asp |-> ASP,
                          fn |-> peekv(a + 1).i, env |-> peekv(a + 1).n]
    OBVIOUS
  <2>2. framestack' = [framestack EXCEPT ![m].ip = NextIP, ![m + 1] = new]
    BY <1>10, <2>1
  <2>3. framestack'[m + 1] = new
    BY ONLY <1>11, <2>2
  <2>4. framestack'[m] = [framestack[m] EXCEPT !.ip = NextIP]
    BY ONLY <1>11, <2>2, m = framese
  <2>5. \A f \in 0 .. m - 1 : framestack'[f] = framestack[f]
    BY ONLY <1>11, <1>12, <2>2
  <2> QED
    BY ONLY <2>1, <2>3, <2>4, <2>5
<1>14. /\ framestack'[m].fn = Frame.fn /\ framestack'[m].base = Frame.base
       /\ framestack'[m].asp = ASP /\ framestack'[m].ip = NextIP
  <2>1. framestack[m] \in FrameType
    BY <1>11
  <2> QED
    BY <1>13, <2>1 DEF FrameType, Frame, ASP
<1>15. /\ framestack'[m + 1].fn = g /\ framestack'[m + 1].base = SP - a
       /\ framestack'[m + 1].asp = ASP /\ framestack'[m + 1].ip = 0
  BY <1>9, <1>13 DEF FnV
<1>16. stack[Frame.base + (n - a) - 1].t # "vec"
  BY <1>9 DEF FnV
<1> QED
  BY ONLY <1>1, <1>2, <1>3, <1>4, <1>5, <1>6, <1>7, <1>8, <1>10, <1>13, <1>14,
          <1>15, <1>16

(* What the views say of a call, of the place where it comes back ...       *)
LEMMA CallBack ==
  ASSUME VInv, status' = "run", UNCHANGED image, Call,
         NEW m, m = framese, NEW n, n = Len(ShapeOf(framese)),
         NEW a, a = Arg(1), NEW g, g = ShapeOf(framese)[n - a],
         NEW back, back = views[Frame.fn].at[NextIP]
  PROVE  /\ back.kinds \in Seq(Int) /\ Len(back.kinds) = n - a
         /\ \A k \in 1 .. n - a - 1 : KindFits(View(framese).kinds[k], back.kinds[k])
         /\ KindFits(views[g].gives, back.kinds[n - a])
         /\ back.loose \in Nat /\ back.loose <= View(framese).loose
         /\ views[g].gives = Temp => back.loose = 0
         /\ back.args = IF ~views[g].blind THEN views[g].outs ELSE View(framese).args
<1>1. /\ status = "run" /\ Op = OP_CALL
      /\ m \in Nat /\ n \in Nat /\ a \in Nat /\ a + 1 <= n
      /\ Effect(a + 1, << 0 >>)
  BY CallMoves
<1>2. /\ Op \notin {OP_SET_LOCAL_LONG, OP_SHIFT_ASTACKENT_TO_BASE}
      /\ Op \in {OP_LOC_ALINK_LONG, OP_GET_INDEX, OP_CALL}
      /\ Op # OP_ARGSTACK_LOAD /\ Op # OP_ARGSTACK_UNLOAD
  BY ONLY <1>1 DEF OP_CALL, OP_SET_LOCAL_LONG, OP_SHIFT_ASTACKENT_TO_BASE,
       OP_ARGSTACK_LOAD, OP_ARGSTACK_UNLOAD
<1>3. /\ View(framese) = views[Frame.fn].at[IP] /\ framese \in 0 .. framese
      /\ ShapeOf(framese) = image.fns[Frame.fn].shape[IP]
      /\ View(framese).loose \in Nat
  BY <1>1, InstructionViews, ViewFacts
<1>4. /\ Pops(Fn(framese), IP) = a + 1 /\ Pushes(image, Frame.fn, IP) = << 0 >>
      /\ NextIP \in Targets(Fn(framese), IP) /\ a + 1 \in Nat
  BY <1>1 DEF Effect
<1>5. PICK kinds : kinds = KindsAfter(image, views, Frame.fn, IP)
  OBVIOUS
<1>6. PICK q : q = PushedKind(image, views, Frame.fn, IP)
  OBVIOUS
<1>7. PICK rest : rest = n - (a + 1)
  OBVIOUS
<1>8. /\ rest \in Nat /\ rest = n - a - 1 /\ rest + 1 = n - a
  BY ONLY <1>1, <1>7
<1>9. /\ Len(kinds) = rest + 1 /\ Len(kinds) = Len(After(image, Frame.fn, IP))
      /\ \A k \in 1 .. rest : kinds[k] = View(framese).kinds[k]
      /\ kinds[rest + 1] = q
  BY ONLY <1>1, <1>2, <1>4, <1>5, <1>6, <1>7, KindsPushed, VInv,
          n = Len(ShapeOf(framese))
<1>10. q = views[g].gives
  BY ONLY <1>1, <1>3, <1>6, PushedKinds, n = Len(ShapeOf(framese)), a = Arg(1),
          g = ShapeOf(framese)[n - a]
<1>11. PICK loose : loose = LooseAfter(image, views, Frame.fn, IP)
  OBVIOUS
<1>12. loose = IF q = Temp THEN 0 ELSE View(framese).loose
  BY ONLY <1>1, <1>2, <1>6, <1>11, OtherAfter, VInv
<1>13. /\ Len(back.kinds) = Len(kinds) /\ back.kinds \in Seq(Int)
       /\ \A k \in 1 .. Len(kinds) : KindFits(kinds[k], back.kinds[k])
       /\ back.loose \in Nat /\ back.loose <= loose
       /\ back.args = ArgsAfter(image, views, Frame.fn, IP)
  BY ONLY <1>1, <1>4, <1>5, <1>9, <1>11, PlaceFits, VInv,
          back = views[Frame.fn].at[NextIP]
<1>14. back.args = IF ~views[g].blind THEN views[g].outs ELSE View(framese).args
  <2>1. /\ OpAt(image.fns[Frame.fn], IP) = Op
        /\ ArgAt(image.fns[Frame.fn], IP, 1) = a
    BY SameInstruction
  <2> QED
    BY ONLY <1>1, <1>2, <1>3, <1>13, <2>1, n = Len(ShapeOf(framese)),
            g = ShapeOf(framese)[n - a] DEF ArgsAfter
<1>15. /\ \A k \in 1 .. rest : k \in 1 .. Len(kinds)
       /\ rest + 1 \in 1 .. Len(kinds)
  BY ONLY <1>8, <1>9
<1>16. /\ \A k \in 1 .. rest : KindFits(View(framese).kinds[k], back.kinds[k])
       /\ KindFits(q, back.kinds[rest + 1])
  BY ONLY <1>9, <1>13, <1>15
<1>17. back.loose <= View(framese).loose /\ (q = Temp => back.loose = 0)
  BY ONLY <1>3, <1>12, <1>13
<1> QED
  BY ONLY <1>8, <1>9, <1>10, <1>13, <1>14, <1>16, <1>17

(* ... and of the place where the callee begins.                            *)
LEMMA CallEntry ==
  ASSUME VInv, status' = "run", UNCHANGED image, Call,
         NEW m, m = framese, NEW n, n = Len(ShapeOf(framese)),
         NEW a, a = Arg(1), NEW g, g = ShapeOf(framese)[n - a],
         NEW back, back = views[Frame.fn].at[NextIP],
         NEW entry, entry = views[g].at[0]
  PROVE  /\ Len(image.fns[g].shape[0]) = a /\ Len(entry.kinds) = a
         /\ \A k \in 1 .. a :
              /\ entry.kinds[k] \in {AnyKind, ScalarKind}
              /\ KindFits(View(framese).kinds[n - a + k], entry.kinds[k])
         /\ entry.loose = 0 /\ entry.args = << >>
         /\ views[Frame.fn].blind => views[g].blind
         /\ ~views[g].blind =>
              View(framese).args = << >> /\ NoneIn(Copied, back.kinds)
         /\ views[g].reach <= n - a
         /\ Frame.fn = 2 => \A k \in 1 .. Len(views[2].held) :
              IF views[2].held[k] = ScalarKind THEN back.kinds[k] = ScalarKind
              ELSE back.kinds[k] # Copied
<1>1. /\ status = "run" /\ Op = OP_CALL
      /\ m \in Nat /\ n \in Nat /\ a \in Nat /\ a + 1 <= n
      /\ g \in DOMAIN image.fns /\ image.fns[g].arity = a
  BY CallMoves
<1>2. /\ View(framese) = views[Frame.fn].at[IP]
      /\ ShapeOf(framese) = image.fns[Frame.fn].shape[IP]
      /\ PassingOK(image, views, Frame.fn, IP)
  BY <1>1, InstructionViews
<1>3. /\ OpAt(image.fns[Frame.fn], IP) = OP_CALL
      /\ ArgAt(image.fns[Frame.fn], IP, 1) = a
      /\ NextAt(image.fns[Frame.fn], IP) = NextIP
  BY <1>1, SameInstruction
<1>4. /\ \A k \in 1 .. a :
           KindFits(View(framese).kinds[n - a + k], views[g].held[k])
      /\ views[Frame.fn].blind => views[g].blind
      /\ ~views[g].blind =>
           View(framese).args = << >> /\ NoneIn(Copied, back.kinds)
      /\ views[g].reach <= n - a
      /\ Frame.fn = 2 => \A k \in 1 .. Len(views[2].held) :
           IF views[2].held[k] = ScalarKind THEN back.kinds[k] = ScalarKind
           ELSE back.kinds[k] # Copied
  BY ONLY <1>2, <1>3, n = Len(ShapeOf(framese)), g = ShapeOf(framese)[n - a],
          back = views[Frame.fn].at[NextIP], Zenon DEF PassingOK
<1>5. HeaderOK(image, g) /\ ViewHeaderOK(image, views, g)
      /\ \A ip \in DOMAIN image.fns[g].shape : ViewOK(image, views, g, ip)
  BY <1>1 DEF VInv, DInv, WellFormed, ArraysWellFormed
<1>6. 0 \in DOMAIN image.fns[g].shape /\ Len(image.fns[g].shape[0]) = a
  <2>1. image.fns[g].shape[0] = [k \in 1 .. a |-> 0] /\ 0 \in DOMAIN image.fns[g].shape
    BY ONLY <1>1, <1>5 DEF HeaderOK
  <2>2. PICK zeros : zeros = image.fns[g].shape[0]
    OBVIOUS
  <2>3. Len(zeros) = a
    BY ONLY <1>1, <2>1, <2>2
  <2> QED
    BY ONLY <2>1, <2>2, <2>3
<1>7. Len(entry.kinds) = a
  BY ONLY <1>5, <1>6, entry = views[g].at[0] DEF ViewOK
<1>8. /\ views[g].held \in Seq({AnyKind, ScalarKind}) /\ a <= Len(views[g].held)
      /\ \A k \in 1 .. a : entry.kinds[k] = views[g].held[k]
      /\ entry.loose = 0 /\ entry.args = << >>
  BY ONLY <1>1, <1>5, entry = views[g].at[0] DEF ViewHeaderOK
<1>9. \A k \in 1 .. a : entry.kinds[k] \in {AnyKind, ScalarKind}
  <2> SUFFICES ASSUME NEW k \in 1 .. a
               PROVE  entry.kinds[k] \in {AnyKind, ScalarKind}
    OBVIOUS
  <2>1. k \in 1 .. Len(views[g].held)
    <3>1. Len(views[g].held) \in Nat
      BY ONLY <1>8
    <3> QED
      BY ONLY <1>1, <1>8, <3>1, k \in 1 .. a
  <2>2. views[g].held[k] \in {AnyKind, ScalarKind}
    BY ONLY <1>8, <2>1, ElementOf
  <2> QED
    BY ONLY <1>8, <2>2, k \in 1 .. a
<1> QED
  BY ONLY <1>4, <1>6, <1>7, <1>8, <1>9

(* The frames as the views see them after a call.                           *)
LEMMA CallViews ==
  ASSUME VInv, VInv', status' = "run", UNCHANGED image, Call,
         NEW m, m = framese, NEW n, n = Len(ShapeOf(framese)),
         NEW a, a = Arg(1), NEW g, g = ShapeOf(framese)[n - a],
         NEW back, back = views[Frame.fn].at[NextIP],
         NEW entry, entry = views[g].at[0]
  PROVE  /\ framese' = m + 1 /\ m \in Nat
         /\ \A f \in 0 .. m - 1 :
              /\ View(f)' = View(f) /\ ShapeOf(f)' = ShapeOf(f)
              /\ Blind(f)' = Blind(f) /\ framestack'[f] = framestack[f]
              /\ Vals(f)' = Vals(f)
         /\ View(m)' = back /\ Blind(m)' = Blind(m)
         /\ View(m + 1)' = entry /\ Blind(m + 1)' = views[g].blind
         /\ ~Moving' /\ Last' = m + 1
         /\ \A f \in 0 .. m + 1 : Room(f)' = framestack'[f].asp - View(f)'.loose
<1>1. /\ status = "run" /\ Op = OP_CALL
      /\ m \in Nat /\ n \in Nat /\ a \in Nat /\ a + 1 <= n
      /\ framese' = m + 1 /\ stack' = stack /\ image' = image
      /\ \A f \in 0 .. m - 1 : framestack'[f] = framestack[f]
      /\ framestack'[m].fn = Frame.fn /\ framestack'[m].ip = NextIP
      /\ framestack'[m + 1].fn = g /\ framestack'[m + 1].ip = 0
  BY CallMoves
<1>2. \A f \in 0 .. m - 1 :
        /\ View(f)' = View(f) /\ ShapeOf(f)' = ShapeOf(f)
        /\ Blind(f)' = Blind(f) /\ framestack'[f] = framestack[f]
        /\ Vals(f)' = Vals(f)
  BY ONLY <1>1 DEF View, ShapeOf, Fn, Blind, Vals
<1>3. View(m)' = back /\ Blind(m)' = Blind(m)
  BY ONLY <1>1, m = framese, back = views[Frame.fn].at[NextIP]
     DEF View, Blind, Frame
<1>4. View(m + 1)' = entry /\ Blind(m + 1)' = views[g].blind
  BY ONLY <1>1, entry = views[g].at[0] DEF View, Blind
<1>5. /\ Len(entry.kinds) = a
      /\ \A k \in 1 .. a : entry.kinds[k] \in {AnyKind, ScalarKind}
  BY CallEntry
<1>6. NoneIn(Moved, entry.kinds)
  BY ONLY <1>5 DEF NoneIn, Moved, AnyKind, ScalarKind
<1>7. View(framese)' = View(m + 1)'
  BY ONLY <1>1 DEF View
<1>8. NoneIn(Moved, View(framese).kinds)'
  BY ONLY <1>4, <1>6, <1>7 DEF NoneIn
<1>9. ~Moving'
  BY ONLY <1>8, NotMovingNext, VInv', status' = "run"
<1>10. Last' = m + 1
  BY ONLY <1>1, <1>9 DEF Last
<1>11. \A f \in 0 .. m + 1 : Room(f)' = framestack'[f].asp - View(f)'.loose
  BY ONLY <1>9 DEF Room
<1> QED
  BY ONLY <1>1, <1>2, <1>3, <1>4, <1>9, <1>10, <1>11

LEMMA CallRelated ==
  ASSUME AInv, VInv', status' = "run", UNCHANGED image, Call,
         NEW m, m = framese, NEW n, n = Len(ShapeOf(framese)), NEW a, a = Arg(1)
  PROVE  /\ FramesTyped'
         /\ CallMade(m, n, a, Values, Kinds, Asps, Rooms,
                     Values', Kinds', Asps', Rooms')
<1>1. PICK g : g = ShapeOf(framese)[n - a]
  OBVIOUS
<1>2. PICK back : back = views[Frame.fn].at[NextIP]
  OBVIOUS
<1>3. PICK entry : entry = views[g].at[0]
  OBVIOUS
<1>4. VInv
  BY DEF AInv
<1>5. /\ status = "run" /\ Op = OP_CALL /\ n \in Nat
      /\ m \in Nat /\ a \in Nat /\ a + 1 <= n /\ framese' = m + 1 /\ stack' = stack
      /\ \A f \in 0 .. m - 1 : framestack'[f] = framestack[f]
      /\ framestack'[m].base = Frame.base /\ framestack'[m].asp = ASP
      /\ framestack'[m + 1].base = Frame.base + (n - a)
      /\ framestack'[m + 1].asp = ASP
      /\ stack[Frame.base + (n - a) - 1].t # "vec"
  BY <1>1, <1>4, CallMoves
<1>6. /\ \A f \in 0 .. m - 1 :
              /\ View(f)' = View(f) /\ Vals(f)' = Vals(f)
      /\ View(m)' = back /\ View(m + 1)' = entry
      /\ \A f \in 0 .. m + 1 : Room(f)' = framestack'[f].asp - View(f)'.loose
  BY <1>1, <1>2, <1>3, <1>4, CallViews
<1>7. /\ Len(back.kinds) = n - a
      /\ \A k \in 1 .. n - a - 1 : KindFits(View(framese).kinds[k], back.kinds[k])
      /\ back.loose \in Nat /\ back.loose <= View(framese).loose
  BY <1>1, <1>2, <1>4, CallBack
<1>8. /\ Len(entry.kinds) = a /\ entry.loose = 0
      /\ \A k \in 1 .. a :
           /\ entry.kinds[k] \in {AnyKind, ScalarKind}
           /\ KindFits(View(framese).kinds[n - a + k], entry.kinds[k])
  BY ONLY <1>1, <1>2, <1>3, <1>4, CallEntry, status' = "run", UNCHANGED image,
          Call, m = framese, n = Len(ShapeOf(framese)), a = Arg(1), SMTT(40)
<1>9. FramesTyped'
  BY ONLY FrameTypesNext, VInv', status' = "run"
<1>10. Op # OP_RETURN
  BY ONLY <1>5 DEF OP_CALL, OP_RETURN
<1>11. /\ FramesTyped /\ KindsIn(framese, Values, Kinds)
       /\ RoomsIn(framese, Asps, Rooms) /\ VectorsIn(framese, Values, Kinds, Rooms)
       /\ TempsIn(framese, framese, Values, Kinds, Asps)
       /\ \A f \in 0 .. framese : Rooms[f] = framestack[f].asp - View(f).loose
  BY ONLY <1>5, <1>10, CalmFacts, AInv
<1>12. /\ FramesType(m, Values, Kinds, Asps, Rooms)
       /\ \A f \in 0 .. m :
            /\ Values[f] = Vals(f) /\ Kinds[f] = View(f).kinds
            /\ Asps[f] = framestack[f].asp
            /\ Len(Kinds[f]) = Len(ShapeOf(f))
            /\ \A k \in 1 .. Len(Kinds[f]) :
                 Values[f][k] = stack[framestack[f].base + k - 1]
            /\ Rooms[f] = framestack[f].asp - View(f).loose
  BY ONLY <1>11, m = framese DEF FramesTyped
<1>13. PICK W, L, B, S : W = Values' /\ L = Kinds' /\ B = Asps' /\ S = Rooms'
  OBVIOUS
<1>14. /\ FramesType(m + 1, W, L, B, S)
       /\ \A f \in 0 .. m + 1 :
            /\ W[f] = Vals(f)' /\ L[f] = View(f)'.kinds
            /\ B[f] = framestack'[f].asp
            /\ S[f] = framestack'[f].asp - View(f)'.loose
            /\ \A k \in 1 .. Len(L[f]) : W[f][k] = stack'[framestack'[f].base + k - 1]
  <2>1. /\ FramesType(framese, Values, Kinds, Asps, Rooms)'
        /\ \A f \in 0 .. framese' :
            /\ Values'[f] = Vals(f)' /\ Kinds'[f] = View(f)'.kinds
            /\ Asps'[f] = framestack'[f].asp /\ Rooms'[f] = Room(f)'
            /\ \A k \in 1 .. Len(Kinds'[f]) :
                 Values'[f][k] = stack'[framestack'[f].base + k - 1]
    BY ONLY <1>9 DEF FramesTyped
  <2>2. FramesType(framese', Values', Kinds', Asps', Rooms')
    BY ONLY <2>1 DEF FramesType
  <2>3. FramesType(m + 1, W, L, B, S)
    BY ONLY <1>5, <1>13, <2>2
  <2> QED
    BY ONLY <1>5, <1>6, <1>13, <2>1, <2>3
<1>15. /\ m \in 0 .. m /\ m \in 0 .. m + 1 /\ m + 1 \in 0 .. m + 1
       /\ \A f \in 0 .. m - 1 : f \in 0 .. m /\ f \in 0 .. m + 1
  BY ONLY <1>5
<1>16. ASSUME NEW f \in 0 .. m - 1
       PROVE  W[f] = Values[f] /\ L[f] = Kinds[f] /\ B[f] = Asps[f] /\ S[f] = Rooms[f]
  <2>1. /\ f \in 0 .. m /\ f \in 0 .. m + 1 /\ framestack'[f] = framestack[f]
        /\ View(f)' = View(f) /\ Vals(f)' = Vals(f)
    BY ONLY <1>5, <1>6, <1>15, f \in 0 .. m - 1
  <2>2. /\ W[f] = Vals(f)' /\ L[f] = View(f)'.kinds /\ B[f] = framestack'[f].asp
        /\ S[f] = framestack'[f].asp - View(f)'.loose
    BY ONLY <1>14, <2>1
  <2>3. /\ Values[f] = Vals(f) /\ Kinds[f] = View(f).kinds
        /\ Asps[f] = framestack[f].asp /\ Rooms[f] = framestack[f].asp - View(f).loose
    BY ONLY <1>12, <2>1
  <2> QED
    BY ONLY <2>1, <2>2, <2>3
<1>17. /\ Asps[m] = ASP /\ Rooms[m] = ASP - View(framese).loose
       /\ Kinds[m] = View(framese).kinds /\ Len(Kinds[m]) = n
       /\ \A k \in 1 .. n : Values[m][k] = stack[Frame.base + k - 1]
  BY ONLY <1>12, <1>15, m = framese, n = Len(ShapeOf(framese)) DEF Frame, ASP
<1>18. /\ L[m] = back.kinds /\ B[m] = ASP /\ S[m] = ASP - back.loose
       /\ L[m + 1] = entry.kinds /\ B[m + 1] = ASP /\ S[m + 1] = ASP - entry.loose
       /\ \A k \in 1 .. Len(L[m]) : W[m][k] = stack[Frame.base + k - 1]
       /\ \A k \in 1 .. Len(L[m + 1]) :
            W[m + 1][k] = stack[Frame.base + (n - a) + k - 1]
  BY ONLY <1>5, <1>6, <1>14, <1>15
<1>19. ASP \in Int /\ View(framese).loose \in Int /\ Frame.base \in Int
  <2>1. Asps[m] \in Int
    BY ONLY <1>12, <1>15 DEF FramesType
  <2>2. View(framese).loose \in Nat
    BY <1>4, <1>5, Current
  <2>3. Frame.base \in Nat
    BY <1>4, <1>5, CurrentFacts DEF VInv
  <2> QED
    BY ONLY <1>17, <2>1, <2>2, <2>3
<1>20. /\ Rooms[m] <= S[m] /\ S[m] <= Asps[m] /\ B[m] = Asps[m]
       /\ B[m + 1] = Asps[m] /\ S[m + 1] = Asps[m]
  <2>1. PICK x, y : x = ASP /\ y = View(framese).loose
    OBVIOUS
  <2> QED
    BY ONLY <1>7, <1>8, <1>17, <1>18, <1>19, <2>1
<1>21. PICK base : base = Frame.base
  OBVIOUS
<1>22. /\ Len(L[m]) = n - a /\ W[m][n - a].t # "vec"
       /\ \A k \in 1 .. n - a - 1 : W[m][k] = Values[m][k]
                                    /\ KindFits(Kinds[m][k], L[m][k])
  <2>1. Len(L[m]) = n - a /\ n - a \in 1 .. n - a
        /\ \A k \in 1 .. n - a - 1 : k \in 1 .. n - a /\ k \in 1 .. n
    BY ONLY <1>5, <1>7, <1>18
  <2> QED
    BY ONLY <1>5, <1>7, <1>17, <1>18, <2>1
<1>23. /\ Len(L[m + 1]) = a
       /\ \A k \in 1 .. a : /\ W[m + 1][k] = Values[m][n - a + k]
                            /\ L[m + 1][k] \in {AnyKind, ScalarKind}
                            /\ KindFits(Kinds[m][n - a + k], L[m + 1][k])
  <2>1. \A k \in 1 .. a : /\ n - a + k \in 1 .. n
                          /\ base + (n - a) + k - 1 = base + (n - a + k) - 1
    BY ONLY <1>5, <1>19, <1>21
  <2>2. \A k \in 1 .. a : W[m + 1][k] = stack[base + (n - a + k) - 1]
    BY ONLY <1>8, <1>18, <1>21, <2>1
  <2>3. \A k \in 1 .. a : W[m + 1][k] = Values[m][n - a + k]
    BY ONLY <1>17, <1>21, <2>1, <2>2
  <2> QED
    BY ONLY <1>8, <1>17, <1>18, <2>3
<1>24. CallMade(m, n, a, Values, Kinds, Asps, Rooms, W, L, B, S)
  BY ONLY <1>5, <1>11, <1>12, <1>14, <1>16, <1>17, <1>20, <1>22, <1>23,
          m = framese DEF CallMade
<1> QED
  BY ONLY <1>9, <1>13, <1>24

LEMMA CallArrays ==
  ASSUME AInv, VInv', status' = "run", UNCHANGED image, Call
  PROVE  Arrays' /\ Arguments'
<1>1. PICK m, n, a : m = framese /\ n = Len(ShapeOf(framese)) /\ a = Arg(1)
  OBVIOUS
<1>2. PICK g : g = ShapeOf(framese)[n - a]
  OBVIOUS
<1>3. PICK back : back = views[Frame.fn].at[NextIP]
  OBVIOUS
<1>4. PICK entry : entry = views[g].at[0]
  OBVIOUS
<1>5. VInv
  BY DEF AInv
<1>6. /\ status = "run" /\ Op = OP_CALL /\ n \in Nat
      /\ m \in Nat /\ a \in Nat /\ a + 1 <= n /\ framese' = m + 1
      /\ UNCHANGED << stack, astack, argstack, argsp, argasp >>
      /\ \A f \in 0 .. m - 1 : framestack'[f] = framestack[f]
      /\ framestack'[m].fn = Frame.fn /\ framestack'[m + 1].fn = g
  BY <1>1, <1>2, <1>5, CallMoves
<1>7. /\ \A f \in 0 .. m - 1 :
           /\ View(f)' = View(f) /\ ShapeOf(f)' = ShapeOf(f) /\ Blind(f)' = Blind(f)
      /\ View(m)' = back /\ Blind(m)' = Blind(m)
      /\ View(m + 1)' = entry /\ Blind(m + 1)' = views[g].blind
      /\ ~Moving' /\ Last' = m + 1
  BY ONLY <1>1, <1>2, <1>3, <1>4, <1>5, CallViews, VInv', status' = "run",
          UNCHANGED image, Call, SMTT(40)
<1>8. /\ Len(back.kinds) = n - a
      /\ KindFits(views[g].gives, back.kinds[n - a])
      /\ views[g].gives = Temp => back.loose = 0
      /\ back.args = IF ~views[g].blind THEN views[g].outs ELSE View(framese).args
  BY ONLY <1>1, <1>2, <1>3, <1>5, CallBack, status' = "run", UNCHANGED image,
          Call, SMTT(40)
<1>9. /\ entry.args = << >>
      /\ views[Frame.fn].blind => views[g].blind
      /\ ~views[g].blind => View(framese).args = << >> /\ NoneIn(Copied, back.kinds)
      /\ views[g].reach <= n - a
      /\ Frame.fn = 2 => \A k \in 1 .. Len(views[2].held) :
           IF views[2].held[k] = ScalarKind THEN back.kinds[k] = ScalarKind
           ELSE back.kinds[k] # Copied
  BY ONLY <1>1, <1>2, <1>3, <1>4, <1>5, CallEntry, status' = "run", UNCHANGED image,
          Call, SMTT(40)
<1>10. /\ FramesTyped'
       /\ CallMade(m, n, a, Values, Kinds, Asps, Rooms,
                   Values', Kinds', Asps', Rooms')
  BY ONLY <1>1, CallRelated, AInv, VInv', status' = "run", UNCHANGED image, Call,
          SMTT(40)
<1>11. Op # OP_RETURN /\ Blind(framese) = views[Frame.fn].blind
       /\ framestack[m].fn = Frame.fn
  BY ONLY <1>1, <1>6 DEF OP_CALL, OP_RETURN, Blind, Frame
<1>12. /\ CallersAgree /\ BlindAbove /\ GlobalsAgree /\ ArgsAgree
       /\ CopiesIn(framese, Values, Kinds, argasp) /\ CopiesStacked
  BY ONLY AInv, <1>6 DEF AInv, Arrays, Arguments
<1>13. /\ \A f \in 0 .. m + 1 : f \in 0 .. m - 1 \/ f = m \/ f = m + 1
       /\ \A f \in 0 .. m : f \in 0 .. m - 1 \/ f = m
       /\ \A f \in 0 .. m - 1 : f \in 0 .. m /\ f + 1 \in 0 .. m /\ f # m + 1
       /\ m \in 0 .. m /\ m # m + 1 /\ (m + 1) - 1 = m /\ 0 .. m - 1 \subseteq 0 .. m
       /\ m + 1 \in 0 .. m + 1 /\ m \in 0 .. m + 1
  BY ONLY <1>6
<1>14. FrameArrays'
  <2>1. PICK W, L, B, S : W = Values' /\ L = Kinds' /\ B = Asps' /\ S = Rooms'
    OBVIOUS
  <2>2. CallMade(m, n, a, Values, Kinds, Asps, Rooms, W, L, B, S)
    BY ONLY <1>10, <2>1
  <2>3. /\ KindsIn(m + 1, W, L) /\ RoomsIn(m + 1, B, S)
        /\ VectorsIn(m + 1, W, L, S) /\ TempsIn(m + 1, m + 1, W, L, B)
    BY ONLY <2>2, CallKinds, CallRooms, CallVectors, CallTemps, SMTT(40)
  <2>4. /\ KindsIn(framese, Values, Kinds)' /\ RoomsIn(Last, Asps, Rooms)'
        /\ VectorsIn(Last, Values, Kinds, Rooms)'
        /\ TempsIn(Last, framese, Values, Kinds, Asps)'
    BY ONLY <1>6, <1>7, <2>1, <2>3 DEF KindsIn, RoomsIn, VectorsIn, TempsIn, Known
  <2> QED
    BY ONLY <2>4 DEF FrameArrays
<1>15. CopiesIn(framese, Values, Kinds, argasp)'
  <2>1. PICK W, L, B, S : W = Values' /\ L = Kinds' /\ B = Asps' /\ S = Rooms'
    OBVIOUS
  <2>2. CallMade(m, n, a, Values, Kinds, Asps, Rooms, W, L, B, S)
    BY ONLY <1>10, <2>1
  <2>3. PICK low : low = argasp
    OBVIOUS
  <2>4. CopiesIn(m, Values, Kinds, low)
    BY ONLY <1>1, <1>12, <2>3
  <2>5. CopiesIn(m + 1, W, L, low)
    BY ONLY <2>2, <2>4, CallCopies, SMTT(40)
  <2> QED
    BY ONLY <1>6, <2>1, <2>3, <2>5 DEF CopiesIn, Known
<1>16. Len(ShapeOf(m)') = n - a
  <2>1. /\ Len(Kinds'[m]) = Len(ShapeOf(m)') /\ Kinds'[m] = View(m)'.kinds
    BY ONLY <1>6, <1>10, <1>13 DEF FramesTyped
  <2> QED
    BY ONLY <1>7, <1>8, <2>1
<1>17. ASSUME NEW f \in 0 .. m
       PROVE  LET callee == views[framestack'[f + 1].fn]
              IN  /\ KindFits(callee.gives, View(f)'.kinds[Len(ShapeOf(f)')])
                  /\ callee.gives = Temp => View(f)'.loose = 0
                  /\ ~callee.blind => View(f)'.args = callee.outs
                  /\ callee.reach <= Len(ShapeOf(f)')
  <2>1. CASE f = m
    <3>1. framestack'[f + 1].fn = g
      BY ONLY <1>6, <2>1
    <3>2. View(f)' = back /\ Len(ShapeOf(f)') = n - a
      BY ONLY <1>7, <1>16, <2>1
    <3> QED
      BY ONLY <1>8, <1>9, <3>1, <3>2
  <2>2. CASE f \in 0 .. m - 1
    <3>1. f + 1 \in 0 .. m - 1 \/ f + 1 = m
      BY ONLY <1>13, <2>2
    <3>2. framestack'[f + 1].fn = framestack[f + 1].fn
      BY ONLY <1>6, <1>11, <3>1
    <3>3. View(f)' = View(f) /\ ShapeOf(f)' = ShapeOf(f)
      BY ONLY <1>7, <2>2
    <3> QED
      BY ONLY <1>1, <1>12, <2>2, <3>2, <3>3 DEF CallersAgree
  <2> QED
    BY ONLY <1>13, <2>1, <2>2, f \in 0 .. m
<1>18. CallersAgree'
  BY ONLY <1>6, <1>13, <1>17 DEF CallersAgree
<1>19. ASSUME NEW f \in 0 .. m - 1, ~Blind(m)
       PROVE  ~Blind(f) /\ NoneIn(Copied, View(f).kinds)
  BY ONLY <1>1, <1>6, <1>12, <1>13, <1>19, f \in 0 .. m - 1 DEF BlindAbove
<1>20. ASSUME NEW f \in 0 .. m + 1, NEW h \in 0 .. m + 1, f < h, ~Blind(h)'
       PROVE  ~Blind(f)' /\ NoneIn(Copied, View(f)'.kinds)
  <2>1. /\ f \in 0 .. m - 1 \/ (f = m /\ h = m + 1)
        /\ h \in 0 .. m - 1 \/ h = m \/ h = m + 1
    BY ONLY <1>6, f < h, f \in 0 .. m + 1, h \in 0 .. m + 1
  <2>2. CASE f = m /\ h = m + 1
    <3>1. ~views[g].blind
      BY ONLY <1>7, <1>20, <2>2
    <3>2. ~Blind(m)' /\ NoneIn(Copied, back.kinds)
      BY ONLY <1>1, <1>7, <1>9, <1>11, <3>1
    <3> QED
      BY ONLY <1>7, <2>2, <3>2
  <2>3. CASE f \in 0 .. m - 1 /\ h \in 0 .. m - 1
    <3>1. ~Blind(h) /\ h \in 0 .. framese /\ f \in 0 .. framese
      BY ONLY <1>1, <1>7, <1>13, <1>20, <2>3
    <3>2. ~Blind(f) /\ NoneIn(Copied, View(f).kinds)
      BY ONLY <1>12, <1>20, <3>1 DEF BlindAbove
    <3> QED
      BY ONLY <1>7, <2>3, <3>2
  <2>4. CASE f \in 0 .. m - 1 /\ (h = m \/ h = m + 1)
    <3>1. ~Blind(m)
      <4>1. CASE h = m
        BY ONLY <1>7, <1>20, <4>1
      <4>2. CASE h = m + 1
        BY ONLY <1>1, <1>7, <1>9, <1>11, <1>20, <4>2
      <4> QED
        BY ONLY <2>4, <4>1, <4>2
    <3>2. ~Blind(f) /\ NoneIn(Copied, View(f).kinds)
      BY ONLY <1>19, <2>4, <3>1
    <3> QED
      BY ONLY <1>7, <2>4, <3>2
  <2> QED
    BY ONLY <2>1, <2>2, <2>3, <2>4
<1>21. BlindAbove'
  BY ONLY <1>6, <1>20 DEF BlindAbove
<1>22. GlobalsAgree'
  <2> SUFFICES ASSUME m + 1 > 1, NEW k \in 1 .. Len(views[2].held)
               PROVE  IF views[2].held[k] = ScalarKind
                      THEN View(1)'.kinds[k] = ScalarKind
                      ELSE View(1)'.kinds[k] # Copied
    BY <1>6 DEF GlobalsAgree
  <2>1. CASE m = 1
    <3>1. framestack[1].fn = 2
      <4>1. FramesKnown
        BY ONLY <1>5, <1>6 DEF VInv, DInv, FrameInv, Discipline
      <4> QED
        BY ONLY <1>1, <1>13, <2>1, <4>1 DEF FramesKnown
    <3>2. Frame.fn = 2 /\ View(1)' = back
      BY ONLY <1>7, <1>11, <2>1, <3>1
    <3> QED
      BY ONLY <1>9, <3>2, k \in 1 .. Len(views[2].held)
  <2>2. CASE m > 1
    <3>1. 1 \in 0 .. m - 1
      BY ONLY <1>6, <2>2
    <3>2. View(1)' = View(1)
      BY ONLY <1>7, <3>1
    <3> QED
      BY ONLY <1>1, <1>12, <2>2, <3>2, k \in 1 .. Len(views[2].held) DEF GlobalsAgree
  <2> QED
    BY ONLY <1>6, <2>1, <2>2, m + 1 > 1
<1>23. ScalarElements'
  BY <1>6, SameElements
<1>24. ResultMoved'
  BY ONLY <1>7 DEF ResultMoved
<1>25. ASSUME NEW f \in 0 .. m + 1, ~Blind(f)', f = m + 1 \/ Blind(f + 1)'
       PROVE  /\ argsp = Len(View(f)'.args)
              /\ \A k \in 1 .. argsp :
                   View(f)'.args[k] = 1 <=> argstack[k - 1].t = "vec"
  <2>1. CASE f = m + 1
    <3>1. ~views[g].blind /\ View(f)'.args = << >>
      BY ONLY <1>7, <1>9, <1>25, <2>1
    <3>2. View(framese).args = << >> /\ ~Blind(framese)
      BY ONLY <1>9, <1>11, <3>1
    <3>3. argsp = Len(View(framese).args)
      BY ONLY <1>1, <1>12, <1>13, <3>2 DEF ArgsAgree
    <3>4. argsp = 0 /\ Len(View(f)'.args) = 0
      BY ONLY <3>1, <3>2, <3>3
    <3> QED
      BY ONLY <3>4
  <2>2. CASE f = m
    <3>1. views[g].blind /\ ~Blind(m)
      BY ONLY <1>7, <1>13, <1>25, <2>2
    <3>2. View(f)'.args = View(framese).args
      BY ONLY <1>7, <1>8, <2>2, <3>1
    <3> QED
      BY ONLY <1>1, <1>12, <1>13, <3>1, <3>2 DEF ArgsAgree
  <2>3. CASE f \in 0 .. m - 1
    <3>1. /\ View(f)' = View(f) /\ ~Blind(f) /\ f # m + 1
      BY ONLY <1>7, <1>13, <1>25, <2>3
    <3>2. Blind(f + 1)
      <4>1. f + 1 \in 0 .. m - 1 \/ f + 1 = m
        BY ONLY <1>13, <2>3
      <4> QED
        BY ONLY <1>7, <1>25, <3>1, <4>1
    <3>3. f \in 0 .. framese
      BY ONLY <1>1, <1>13, <2>3
    <3> QED
      BY ONLY <1>12, <3>1, <3>2, <3>3 DEF ArgsAgree
  <2> QED
    BY ONLY <1>13, <2>1, <2>2, <2>3, f \in 0 .. m + 1
<1>26. ArgsAgree'
  BY ONLY <1>6, <1>25 DEF ArgsAgree
<1>27. CopiesStacked'
  BY ONLY <1>6, <1>12 DEF CopiesStacked
<1>28. Arrays'
  BY ONLY <1>14, <1>18, <1>21, <1>22, <1>23, <1>24 DEF Arrays
<1> QED
  BY ONLY <1>15, <1>26, <1>27, <1>28 DEF Arguments

-----------------------------------------------------------------------------
(* The result has moved exactly where the views say so.                     *)
MovedLast ==
  LET kinds == View(framese).kinds
  IN  Len(kinds) > 0 /\ kinds[Len(kinds)] = Moved

LEMMA LastKind == VInv /\ status = "run" => (Moving <=> MovedLast)
<1> SUFFICES ASSUME VInv, status = "run"
             PROVE  Moving <=> MovedLast
  OBVIOUS
<1>1. PICK kinds : kinds = View(framese).kinds
  OBVIOUS
<1>2. /\ View(framese) = views[Frame.fn].at[IP] /\ framese \in 0 .. framese
      /\ ArgumentsOK(image, views, Frame.fn, IP)
      /\ InstructionOK(image, Frame.fn, IP)
      /\ ShapeOf(framese) = image.fns[Frame.fn].shape[IP]
  BY ONLY InstructionViews, VInv, status = "run"
<1>3. OpAt(image.fns[Frame.fn], IP) = Op
  BY SameInstruction
<1>4. /\ Op # OP_RETURN => NoneIn(Moved, kinds)
      /\ Op = OP_RETURN =>
           KindFits(kinds[Len(kinds)], IF views[Frame.fn].gives = Temp
                                       THEN Moved ELSE ScalarKind)
  BY ONLY <1>1, <1>2, <1>3 DEF ArgumentsOK
<1>5. Len(kinds) \in Nat /\ Len(kinds) = Len(ShapeOf(framese))
  <2>1. kinds \in Seq(Int) /\ Len(kinds) = Len(ShapeOf(framese))
    BY ONLY ViewFacts, <1>1, <1>2, VInv, status = "run"
  <2> QED
    BY ONLY <2>1
<1>6. ASSUME Moving
      PROVE  MovedLast
  <2>1. Op = OP_RETURN /\ views[Frame.fn].gives = Temp
    BY ONLY <1>6 DEF Moving
  <2>2. Needs(image.fns[Frame.fn], IP) = 1
    BY ONLY <1>3, <2>1 DEF Needs
  <2>3. Len(kinds) > 0
    <3>1. 1 <= Len(image.fns[Frame.fn].shape[IP])
      BY ONLY <1>2, <2>2 DEF InstructionOK
    <3> QED
      BY ONLY <1>2, <1>5, <3>1
  <2>4. kinds[Len(kinds)] = Moved
    BY ONLY <1>4, <2>1 DEF KindFits, Moved, AnyKind, ScalarKind
  <2> QED
    BY ONLY <1>1, <2>3, <2>4 DEF MovedLast
<1>7. ASSUME MovedLast
      PROVE  Moving
  <2>1. Len(kinds) > 0 /\ kinds[Len(kinds)] = Moved
    BY ONLY <1>1, <1>7 DEF MovedLast
  <2>2. ~NoneIn(Moved, kinds)
    <3>1. Len(kinds) \in 1 .. Len(kinds)
      BY ONLY <1>5, <2>1
    <3> QED
      BY ONLY <2>1, <3>1 DEF NoneIn
  <2>3. Op = OP_RETURN /\ views[Frame.fn].gives = Temp
    BY ONLY <1>4, <2>1, <2>2 DEF KindFits, Moved, AnyKind, ScalarKind
  <2> QED
    BY ONLY <2>3 DEF Moving
<1> QED
  BY ONLY <1>6, <1>7

LEMMA LastKindNext == VInv' /\ (status = "run")' => (Moving' <=> MovedLast')
  BY LastKind, PTL

-----------------------------------------------------------------------------
(* A result that is a vector moves to the caller's end of the array stack;  *)
(* frame c is the caller, n the number of values the callee holds.          *)
ShiftMade(c, n, V, K, A, R, W, L, B, S) ==
  /\ FramesType(c + 1, V, K, A, R) /\ FramesType(c + 1, W, L, B, S)
  /\ KindsIn(c + 1, V, K) /\ RoomsIn(c + 1, A, R) /\ VectorsIn(c + 1, V, K, R)
  /\ TempsIn(c + 1, c + 1, V, K, A)
  /\ c \in Nat /\ n \in Nat /\ n > 0 /\ Len(K[c + 1]) = n /\ Len(L[c + 1]) = n
  /\ \A f \in 0 .. c : W[f] = V[f] /\ L[f] = K[f] /\ S[f] = R[f]
  /\ \A f \in 0 .. c - 1 : B[f] = A[f]
  /\ A[c] <= B[c]
  /\ \A k \in 1 .. n - 1 : W[c + 1][k] = V[c + 1][k]
                           /\ KindFits(K[c + 1][k], L[c + 1][k])
  /\ W[c + 1][n].t = "vec" /\ L[c + 1][n] = Moved

LEMMA ShiftNumbers ==
  ASSUME NEW c, NEW n, NEW V, NEW K, NEW A, NEW R, NEW W, NEW L, NEW B, NEW S,
         ShiftMade(c, n, V, K, A, R, W, L, B, S)
  PROVE  /\ c \in Nat /\ n \in Nat /\ n > 0
         /\ Len(K[c + 1]) = n /\ Len(L[c + 1]) = n
         /\ \A f \in 0 .. c + 1 :
              /\ A[f] \in Int /\ R[f] \in Int /\ B[f] \in Int /\ S[f] \in Int
         /\ \A k \in 1 .. n : K[c + 1][k] \in Int /\ L[c + 1][k] \in Int
         /\ \A f \in 0 .. c : f \in 0 .. c + 1 /\ f # c + 1
         /\ \A f \in 0 .. c + 1 : f \in 0 .. c \/ f = c + 1
         /\ c + 1 \in 0 .. c + 1 /\ (c + 1) - 1 = c /\ c \in 0 .. c
         /\ \A f \in 0 .. c : Known(f, c + 1, L) = Known(f, c + 1, K)
<1>1. /\ c \in Nat /\ n \in Nat /\ n > 0
      /\ Len(K[c + 1]) = n /\ Len(L[c + 1]) = n
      /\ \A f \in 0 .. c : L[f] = K[f]
  BY DEF ShiftMade
<1>2. /\ K \in [0 .. c + 1 -> Seq(Int)] /\ L \in [0 .. c + 1 -> Seq(Int)]
      /\ A \in [0 .. c + 1 -> Int] /\ R \in [0 .. c + 1 -> Int]
      /\ B \in [0 .. c + 1 -> Int] /\ S \in [0 .. c + 1 -> Int]
  BY Zenon DEF ShiftMade, FramesType
<1>3. /\ \A f \in 0 .. c : f \in 0 .. c + 1 /\ f # c + 1
      /\ \A f \in 0 .. c + 1 : f \in 0 .. c \/ f = c + 1
      /\ c + 1 \in 0 .. c + 1 /\ (c + 1) - 1 = c /\ c \in 0 .. c
  BY ONLY <1>1
<1>4. \A f \in 0 .. c : Known(f, c + 1, L) = Known(f, c + 1, K)
  BY ONLY <1>1, <1>3 DEF Known
<1>5. K[c + 1] \in Seq(Int) /\ L[c + 1] \in Seq(Int)
  BY ONLY <1>2, <1>3
<1>6. \A k \in 1 .. n : K[c + 1][k] \in Int /\ L[c + 1][k] \in Int
  BY ONLY <1>1, <1>5, ElementOf
<1>7. \A f \in 0 .. c + 1 :
        A[f] \in Int /\ R[f] \in Int /\ B[f] \in Int /\ S[f] \in Int
  BY ONLY <1>2
<1> QED
  BY ONLY <1>1, <1>3, <1>4, <1>6, <1>7

LEMMA ShiftFrames ==
  ASSUME NEW c, NEW n, NEW V, NEW K, NEW A, NEW R, NEW W, NEW L, NEW B, NEW S,
         ShiftMade(c, n, V, K, A, R, W, L, B, S)
  PROVE  /\ KindsIn(c + 1, W, L) /\ RoomsIn(c, B, S) /\ VectorsIn(c, W, L, S)
         /\ TempsIn(c, c + 1, W, L, B)
         /\ \A low : CopiesIn(c + 1, V, K, low) => CopiesIn(c + 1, W, L, low)
<1>1. /\ c \in Nat /\ n \in Nat /\ n > 0
      /\ Len(K[c + 1]) = n /\ Len(L[c + 1]) = n
      /\ \A f \in 0 .. c + 1 :
           /\ A[f] \in Int /\ R[f] \in Int /\ B[f] \in Int /\ S[f] \in Int
      /\ \A k \in 1 .. n : K[c + 1][k] \in Int /\ L[c + 1][k] \in Int
      /\ \A f \in 0 .. c : f \in 0 .. c + 1 /\ f # c + 1
      /\ \A f \in 0 .. c + 1 : f \in 0 .. c \/ f = c + 1
      /\ c + 1 \in 0 .. c + 1 /\ (c + 1) - 1 = c /\ c \in 0 .. c
      /\ \A f \in 0 .. c : Known(f, c + 1, L) = Known(f, c + 1, K)
  BY ShiftNumbers
<1>2. /\ KindsIn(c + 1, V, K) /\ RoomsIn(c + 1, A, R) /\ VectorsIn(c + 1, V, K, R)
      /\ TempsIn(c + 1, c + 1, V, K, A)
      /\ \A f \in 0 .. c : W[f] = V[f] /\ L[f] = K[f] /\ S[f] = R[f]
      /\ \A f \in 0 .. c - 1 : B[f] = A[f]
      /\ A[c] <= B[c]
      /\ \A k \in 1 .. n - 1 : W[c + 1][k] = V[c + 1][k]
                               /\ KindFits(K[c + 1][k], L[c + 1][k])
      /\ W[c + 1][n].t = "vec" /\ L[c + 1][n] = Moved
  BY DEF ShiftMade
<1>3. /\ \A k \in 1 .. n : k \in 1 .. n - 1 \/ k = n
      /\ \A k \in 1 .. n - 1 : k \in 1 .. n
      /\ Known(c + 1, c + 1, L) = 1 .. n /\ Known(c + 1, c + 1, K) = 1 .. n
  BY ONLY <1>1 DEF Known
<1>4. ASSUME NEW f \in 0 .. c + 1, NEW k \in Known(f, c + 1, L)
      PROVE  KindHeld(W[f][k], L[f][k])
  <2>1. CASE f \in 0 .. c
    BY ONLY <1>1, <1>2, <2>1, k \in Known(f, c + 1, L) DEF KindsIn
  <2>2. CASE f = c + 1 /\ k \in 1 .. n - 1
    <3>1. KindHeld(V[c + 1][k], K[c + 1][k])
      BY ONLY <1>1, <1>2, <1>3, <2>2 DEF KindsIn
    <3> QED
      BY ONLY <1>1, <1>2, <1>3, <2>2, <3>1, FittingKinds
  <2>3. CASE f = c + 1 /\ k = n
    BY ONLY <1>2, <2>3 DEF KindHeld, IsScalar, Moved, ScalarKind
  <2> QED
    BY ONLY <1>1, <1>3, <2>1, <2>2, <2>3, f \in 0 .. c + 1, k \in Known(f, c + 1, L)
<1>5. \A f \in 0 .. c : W[f][Len(L[f])].t # "vec"
  BY ONLY <1>1, <1>2 DEF KindsIn
<1>6. KindsIn(c + 1, W, L)
  BY ONLY <1>1, <1>4, <1>5 DEF KindsIn
<1>7. RoomsIn(c, B, S)
  <2> SUFFICES ASSUME NEW f \in 0 .. c
               PROVE  /\ 0 <= S[f] /\ S[f] <= B[f]
                      /\ \A g \in 0 .. f - 1 : B[g] <= S[f]
    BY DEF RoomsIn
  <2>1. /\ 0 <= R[f] /\ R[f] <= A[f] /\ S[f] = R[f]
        /\ \A g \in 0 .. f - 1 : A[g] <= R[f]
    BY ONLY <1>1, <1>2, f \in 0 .. c DEF RoomsIn
  <2>2. \A g \in 0 .. f - 1 : g \in 0 .. c - 1
    BY ONLY <1>1, f \in 0 .. c
  <2>3. A[f] <= B[f]
    <3>1. f = c \/ f \in 0 .. c - 1
      BY ONLY <1>1, f \in 0 .. c
    <3>2. f \in 0 .. c + 1 /\ A[f] \in Int
      BY ONLY <1>1, f \in 0 .. c
    <3> QED
      BY ONLY <1>2, <3>1, <3>2
  <2>4. f \in 0 .. c + 1
    BY ONLY <1>1, f \in 0 .. c
  <2>5. S[f] \in Int /\ A[f] \in Int /\ B[f] \in Int
    BY ONLY <1>1, <2>4
  <2>6. S[f] <= B[f]
    BY ONLY <2>1, <2>3, <2>5
  <2> QED
    BY ONLY <1>2, <2>1, <2>2, <2>6
<1>8. VectorsIn(c, W, L, S)
  BY ONLY <1>1, <1>2 DEF VectorsIn
<1>9. TempsIn(c, c + 1, W, L, B)
  <2> SUFFICES ASSUME NEW f \in 0 .. c, NEW k \in Known(f, c + 1, L), L[f][k] = Temp
               PROVE  /\ \A g \in 0 .. f - 1 : B[g] <= W[f][k].i
                      /\ \A j \in 1 .. k - 1 : Lower(W[f][j], L[f][j]) =>
                           W[f][j].i + W[f][j].n <= W[f][k].i
    BY DEF TempsIn
  <2>1. /\ f \in 0 .. c + 1 /\ k \in Known(f, c + 1, K)
        /\ W[f] = V[f] /\ L[f] = K[f]
    BY ONLY <1>1, <1>2, f \in 0 .. c, k \in Known(f, c + 1, L)
  <2>2. \A g \in 0 .. f - 1 : g \in 0 .. c - 1
    BY ONLY <1>1, f \in 0 .. c
  <2> QED
    BY ONLY <1>2, <2>1, <2>2, L[f][k] = Temp DEF TempsIn
<1>10. ASSUME NEW low, CopiesIn(c + 1, V, K, low)
       PROVE  CopiesIn(c + 1, W, L, low)
  <2> SUFFICES ASSUME NEW f \in 0 .. c + 1, NEW k \in Known(f, c + 1, L),
                      L[f][k] = Copied
               PROVE  VecIn(W[f][k], low, StackMax)
    BY DEF CopiesIn
  <2>1. CASE f \in 0 .. c
    BY ONLY <1>1, <1>2, <1>10, <2>1, k \in Known(f, c + 1, L), L[f][k] = Copied
       DEF CopiesIn
  <2>2. CASE f = c + 1
    <3>1. k \in 1 .. n - 1
      <4>1. k # n
        BY ONLY <1>2, <2>2, L[f][k] = Copied DEF Moved, Copied
      <4>2. k \in 1 .. n
        BY ONLY <1>3, <2>2, k \in Known(f, c + 1, L)
      <4> QED
        BY ONLY <1>3, <4>1, <4>2
    <3>2. K[c + 1][k] = Copied
      <4>1. KindFits(K[c + 1][k], L[c + 1][k]) /\ L[c + 1][k] = Copied
        BY ONLY <1>2, <2>2, <3>1, L[f][k] = Copied
      <4> QED
        BY ONLY <4>1 DEF KindFits, Copied, AnyKind, ScalarKind
    <3> QED
      BY ONLY <1>1, <1>2, <1>3, <1>10, <2>2, <3>1, <3>2 DEF CopiesIn
  <2> QED
    BY ONLY <1>1, <2>1, <2>2, f \in 0 .. c + 1
<1> QED
  BY ONLY <1>6, <1>7, <1>8, <1>9, <1>10

(* What moving the result does to the frames.                               *)
LEMMA ShiftMoves ==
  ASSUME AInv, VInv', status' = "run", UNCHANGED image, ShiftAstackentToBase,
         NEW c, c = framese - 1, NEW n, n = Len(ShapeOf(framese))
  PROVE  /\ status = "run" /\ Op = OP_SHIFT_ASTACKENT_TO_BASE
         /\ c \in Nat /\ n \in Nat /\ n > 0 /\ framese = c + 1
         /\ framese' = framese /\ UNCHANGED << argstack, argsp, argasp >>
         /\ peekv(1).n \in Int /\ 0 <= peekv(1).n
         /\ \A f \in 0 .. c :
              /\ framestack'[f].fn = framestack[f].fn
              /\ View(f)' = View(f) /\ ShapeOf(f)' = ShapeOf(f)
              /\ Vals(f)' = Vals(f)
         /\ \A f \in 0 .. c - 1 : framestack'[f].asp = framestack[f].asp
         /\ framestack'[c].asp = framestack[c].asp + peekv(1).n
         /\ \A f \in 0 .. c + 1 : Blind(f)' = Blind(f)
         /\ View(c + 1)' = views[Frame.fn].at[NextIP]
         /\ framestack'[c + 1].base = Frame.base
         /\ \A k \in 1 .. n - 1 :
              stack'[Frame.base + k - 1] = stack[Frame.base + k - 1]
         /\ stack'[Frame.base + n - 1] = VecV(framestack[c].asp, peekv(1).n)
         /\ framestack'[c + 1].sp = Frame.base + n
         /\ astack' = CopyCells(astack, framestack[c].asp, peekv(1).i, peekv(1).n)
<1>1. status = "run" /\ Op = OP_SHIFT_ASTACKENT_TO_BASE /\ DInv
  BY DEF ShiftAstackentToBase, Fetch, AInv, VInv
<1>2. /\ framese \in Nat /\ n \in Nat /\ Frame.base \in Nat
      /\ SP = Frame.base + n /\ SP <= StackMax
  BY <1>1, CurrentFacts
<1>3. n > 0
  <2>1. 1 <= Len(ShapeOf(framese))
    BY <1>1, CurrentFacts, SameInstruction DEF InstructionOK, ReturnOK, Needs
  <2> QED
    BY ONLY <1>2, <2>1, n = Len(ShapeOf(framese))
<1>4. PICK vec : vec = peekv(1)
  OBVIOUS
<1>5. PICK asp : asp = framestack[c].asp
  OBVIOUS
<1>6. /\ framese' = framese /\ framese # 0 /\ ~(vec.n < 0)
      /\ UNCHANGED << argstack, argsp, argasp >>
      /\ astack' = CopyCells(astack, asp, vec.i, vec.n)
      /\ stack' = [stack EXCEPT ![SP - 1] = VecV(asp, vec.n)]
      /\ framestack' = [framestack EXCEPT ![c].asp = asp + vec.n,
                                          ![framese].ip = NextIP]
  BY <1>4, <1>5 DEF ShiftAstackentToBase, Wild
<1>7. /\ c \in Nat /\ framese = c + 1 /\ c # framese
      /\ c \in 0 .. framese /\ framese \in 0 .. framese
      /\ \A f \in 0 .. c : f \in 0 .. framese - 1 /\ f \in 0 .. framese
      /\ \A f \in 0 .. c - 1 : f \in 0 .. framese /\ f # framese /\ f # c
      /\ \A f \in 0 .. c + 1 : f \in 0 .. framese
  BY ONLY <1>2, <1>6, c = framese - 1
<1>8. FramesStay
  BY ONLY <1>1, ShiftStays, ShiftAstackentToBase, status' = "run"
<1>9. vec \in Value /\ vec.n \in Int /\ 0 <= vec.n
  <2>1. vec \in Value
    BY <1>1, <1>4, Current
  <2>2. vec.n \in Int
    BY ONLY <2>1, ValueFields
  <2> QED
    BY ONLY <1>6, <2>1, <2>2
<1>10. /\ framestack \in [FrameIndex -> FrameType]
       /\ \A f \in 0 .. framese : f \in FrameIndex /\ framestack[f] \in FrameType
       /\ stack \in [CellIndex -> Value]
  BY <1>1, <1>2, SizesAssumption DEF DInv, IInv, TypeOK, FrameIndex
<1>11. /\ framestack'[framese] = [framestack[framese] EXCEPT !.ip = NextIP]
       /\ framestack'[c] = [framestack[c] EXCEPT !.asp = asp + vec.n]
       /\ \A f \in 0 .. c - 1 : framestack'[f] = framestack[f]
  BY ONLY <1>6, <1>7, <1>10
<1>12. /\ framestack'[framese].ip = NextIP /\ framestack'[framese].sp = SP
       /\ framestack'[framese].fn = Frame.fn /\ framestack'[framese].base = Frame.base
       /\ framestack'[c].asp = asp + vec.n
  <2>1. framestack[framese] \in FrameType /\ framestack[c] \in FrameType
    BY ONLY <1>7, <1>10
  <2> QED
    BY ONLY <1>11, <2>1 DEF FrameType, Frame, SP
<1>13. \A f \in 0 .. c : /\ framestack'[f].fn = framestack[f].fn
                         /\ framestack'[f].base = framestack[f].base
                         /\ framestack'[f].ip = framestack[f].ip
  BY ONLY <1>7, <1>8 DEF FramesStay
<1>14. \A f \in 0 .. c : View(f)' = View(f) /\ ShapeOf(f)' = ShapeOf(f)
  BY ONLY <1>13, UNCHANGED image DEF View, ShapeOf, Fn
<1>15. \A f \in 0 .. c + 1 : Blind(f)' = Blind(f)
  BY ONLY <1>7, <1>8 DEF FramesStay, Blind
<1>16. View(c + 1)' = views[Frame.fn].at[NextIP]
  BY ONLY <1>7, <1>12 DEF View
<1>17. \A a \in CellIndex : a # SP - 1 => stack'[a] = stack[a]
  BY ONLY <1>6, <1>10
<1>18. ASSUME NEW f \in 0 .. c
       PROVE  Vals(f)' = Vals(f)
  <2>1. ASSUME NEW k \in 1 .. Len(ShapeOf(f))
        PROVE  stack'[framestack[f].base + k - 1] = stack[framestack[f].base + k - 1]
    <3>1. /\ framestack[f].base + k - 1 \in CellIndex
          /\ framestack[f].base + k - 1 < Frame.base
      BY ONLY <1>1, <1>7, Below, f \in 0 .. c, k \in 1 .. Len(ShapeOf(f))
    <3>2. framestack[f].base + k - 1 # SP - 1
      BY ONLY <1>2, <1>3, <3>1 DEF CellIndex
    <3> QED
      BY ONLY <1>17, <3>1, <3>2
  <2>2. /\ Vals(f)' = [k \in 1 .. Len(ShapeOf(f)) |->
                         stack'[framestack[f].base + k - 1]]
    BY ONLY <1>13, f \in 0 .. c, SameVals, UNCHANGED image
  <2> QED
    BY ONLY <2>1, <2>2 DEF Vals
<1>19. \A k \in 1 .. n - 1 :
         stack'[Frame.base + k - 1] = stack[Frame.base + k - 1]
  <2> SUFFICES ASSUME NEW k \in 1 .. n - 1
               PROVE  stack'[Frame.base + k - 1] = stack[Frame.base + k - 1]
    OBVIOUS
  <2>1. PICK b, s : b = Frame.base /\ s = SP
    OBVIOUS
  <2>2. b + k - 1 \in CellIndex /\ b + k - 1 # s - 1
    BY ONLY <1>2, <2>1, k \in 1 .. n - 1, SizesAssumption DEF CellIndex
  <2> QED
    BY ONLY <1>17, <2>1, <2>2
<1>20. stack'[Frame.base + n - 1] = VecV(asp, vec.n)
  <2>1. PICK b, s : b = Frame.base /\ s = SP
    OBVIOUS
  <2>2. b + n - 1 \in CellIndex /\ b + n - 1 = s - 1
    BY ONLY <1>2, <1>3, <2>1, SizesAssumption DEF CellIndex
  <2> QED
    BY ONLY <1>6, <1>10, <2>1, <2>2
<1> QED
  BY ONLY <1>1, <1>2, <1>3, <1>4, <1>5, <1>6, <1>7, <1>9, <1>11, <1>12, <1>13,
          <1>14, <1>15, <1>16, <1>18, <1>19, <1>20

(* What the views say of the place behind it.                               *)
LEMMA ShiftViews ==
  ASSUME AInv, VInv', status' = "run", UNCHANGED image, ShiftAstackentToBase,
         NEW n, n = Len(ShapeOf(framese)),
         NEW old, old = View(framese), NEW new, new = views[Frame.fn].at[NextIP]
  PROVE  /\ Len(new.kinds) = n /\ new.kinds[n] = Moved
         /\ \A k \in 1 .. n - 1 : KindFits(old.kinds[k], new.kinds[k])
         /\ new.args = old.args
<1>1. /\ status = "run" /\ Op = OP_SHIFT_ASTACKENT_TO_BASE /\ VInv /\ DInv
      /\ n \in Nat /\ n > 0
  <2>1. PICK c : c = framese - 1
    OBVIOUS
  <2>2. status = "run" /\ Op = OP_SHIFT_ASTACKENT_TO_BASE /\ n \in Nat /\ n > 0
    BY <2>1, ShiftMoves
  <2> QED
    BY <2>2 DEF AInv, VInv
<1>2. Effect(0, << >>)
  BY <1>1, Effects DEF Stays
<1>3. /\ Pops(Fn(framese), IP) = 0 /\ Pushes(image, Frame.fn, IP) = << >>
      /\ NextIP \in Targets(Fn(framese), IP)
      /\ OpAt(image.fns[Frame.fn], IP) = Op
      /\ View(framese) = views[Frame.fn].at[IP]
      /\ Fn(framese) = image.fns[Frame.fn]
  BY <1>1, <1>2, SameInstruction, InstructionViews DEF Effect
<1>4. PICK s : s = old.kinds
  OBVIOUS
<1>5. s \in Seq(Int) /\ Len(s) = n
  BY <1>1, <1>4, Current
<1>6. PICK kinds : kinds = KindsAfter(image, views, Frame.fn, IP)
  OBVIOUS
<1>7. kinds = [SubSeq(s, 1, Len(s) - 0) EXCEPT ![Len(s)] = Moved]
  <2>1. OP_SHIFT_ASTACKENT_TO_BASE # OP_SET_LOCAL_LONG
    BY DEF OP_SHIFT_ASTACKENT_TO_BASE, OP_SET_LOCAL_LONG
  <2> QED
    BY ONLY <1>1, <1>3, <1>4, <1>6, <2>1, old = View(framese) DEF KindsAfter
<1>8. /\ Len(kinds) = n /\ kinds[n] = Moved
      /\ \A k \in 1 .. n - 1 : kinds[k] = s[k]
  <2>1. SubSeq(s, 1, Len(s) - 0) = s
    BY ONLY <1>1, <1>5
  <2>2. kinds = [s EXCEPT ![n] = Moved]
    BY ONLY <1>5, <1>7, <2>1
  <2> QED
    BY ONLY <1>1, <1>5, <2>2
<1>9. Len(After(image, Frame.fn, IP)) = n
  <2>1. Len(After(image, Frame.fn, IP)) = Len(ShapeOf(framese)) - 0
    BY <1>1, <1>3, AfterDrop
  <2> QED
    BY ONLY <1>1, <2>1, n = Len(ShapeOf(framese))
<1>10. /\ Len(new.kinds) = n
       /\ \A k \in 1 .. n : KindFits(kinds[k], new.kinds[k])
       /\ new.args = ArgsAfter(image, views, Frame.fn, IP)
  BY ONLY <1>1, <1>3, <1>6, <1>8, <1>9, PlaceFits,
          new = views[Frame.fn].at[NextIP], SMTT(40)
<1>11. new.args = old.args
  <2>1. Op \notin {OP_ARGSTACK_LOAD, OP_ARGSTACK_UNLOAD, OP_CALL}
    BY ONLY <1>1 DEF OP_SHIFT_ASTACKENT_TO_BASE, OP_ARGSTACK_LOAD,
         OP_ARGSTACK_UNLOAD, OP_CALL
  <2> QED
    BY ONLY <1>1, <1>10, <2>1, SameAfter, old = View(framese)
<1>12. new.kinds[n] = Moved
  <2>1. n \in 1 .. n
    BY ONLY <1>1
  <2>2. KindFits(Moved, new.kinds[n])
    BY ONLY <1>8, <1>10, <2>1
  <2> QED
    BY ONLY <2>2 DEF KindFits, Moved, ScalarKind
<1>13. \A k \in 1 .. n - 1 : KindFits(s[k], new.kinds[k])
  <2>1. \A k \in 1 .. n - 1 : k \in 1 .. n
    BY ONLY <1>1
  <2> QED
    BY ONLY <1>8, <1>10, <2>1
<1> QED
  BY ONLY <1>4, <1>10, <1>11, <1>12, <1>13

LEMMA ShiftRelated ==
  ASSUME AInv, VInv', status' = "run", UNCHANGED image, ShiftAstackentToBase,
         NEW c, c = framese - 1, NEW n, n = Len(ShapeOf(framese))
  PROVE  /\ FramesTyped' /\ Moving' /\ Last' = c
         /\ Result' = VecV(framestack[c].asp, peekv(1).n)
         /\ ShiftMade(c, n, Values, Kinds, Asps, Rooms,
                      Values', Kinds', Asps', Rooms')
<1>1. PICK old, new : old = View(framese) /\ new = views[Frame.fn].at[NextIP]
  OBVIOUS
<1>2. /\ status = "run" /\ Op = OP_SHIFT_ASTACKENT_TO_BASE
      /\ c \in Nat /\ n \in Nat /\ n > 0 /\ framese = c + 1 /\ framese' = framese
      /\ peekv(1).n \in Int /\ 0 <= peekv(1).n
  BY ShiftMoves
<1>3. /\ \A f \in 0 .. c :
           /\ framestack'[f].fn = framestack[f].fn
           /\ View(f)' = View(f) /\ Vals(f)' = Vals(f)
      /\ \A f \in 0 .. c - 1 : framestack'[f].asp = framestack[f].asp
      /\ framestack'[c].asp = framestack[c].asp + peekv(1).n
      /\ View(c + 1)' = new /\ framestack'[c + 1].base = Frame.base
      /\ \A k \in 1 .. n - 1 :
           stack'[Frame.base + k - 1] = stack[Frame.base + k - 1]
      /\ stack'[Frame.base + n - 1] = VecV(framestack[c].asp, peekv(1).n)
      /\ framestack'[c + 1].sp = Frame.base + n
  BY <1>1, ShiftMoves
<1>4. /\ Len(new.kinds) = n /\ new.kinds[n] = Moved
      /\ \A k \in 1 .. n - 1 : KindFits(old.kinds[k], new.kinds[k])
      /\ new.args = old.args
  BY <1>1, ShiftViews
<1>5. FramesTyped'
  BY ONLY FrameTypesNext, VInv', status' = "run"
<1>6. Moving'
  <2>1. View(framese)' = new
    BY ONLY <1>2, <1>3 DEF View
  <2>2. MovedLast'
    BY ONLY <1>2, <1>4, <2>1 DEF MovedLast
  <2> QED
    BY ONLY <2>2, LastKindNext, VInv', status' = "run"
<1>7. Last' = c
  BY ONLY <1>2, <1>6 DEF Last
<1>8. Result' = VecV(framestack[c].asp, peekv(1).n)
  <2>1. Result' = stack'[framestack'[c + 1].sp - 1]
    BY ONLY <1>2 DEF Result, SP, Frame
  <2>2. PICK sp, b : sp = framestack'[c + 1].sp /\ b = Frame.base
    OBVIOUS
  <2>3. sp = b + n /\ stack'[b + n - 1] = VecV(framestack[c].asp, peekv(1).n)
    BY ONLY <1>3, <2>2
  <2>4. Result' = stack'[sp - 1]
    BY ONLY <2>1, <2>2
  <2>5. b \in Nat
    BY <1>2, <2>2, Current
  <2> QED
    BY ONLY <1>2, <2>3, <2>4, <2>5
<1>9. /\ VInv /\ ~Moving /\ FramesTyped
      /\ KindsIn(framese, Values, Kinds) /\ RoomsIn(framese, Asps, Rooms)
      /\ VectorsIn(framese, Values, Kinds, Rooms)
      /\ TempsIn(framese, framese, Values, Kinds, Asps)
      /\ \A f \in 0 .. framese : Rooms[f] = framestack[f].asp - View(f).loose
  <2>1. Op # OP_RETURN
    BY ONLY <1>2 DEF OP_RETURN, OP_SHIFT_ASTACKENT_TO_BASE
  <2> QED
    BY ONLY <1>2, <2>1, CalmFacts, AInv
<1>10. /\ FramesType(c + 1, Values, Kinds, Asps, Rooms)
       /\ \A f \in 0 .. c + 1 :
            /\ Values[f] = Vals(f) /\ Kinds[f] = View(f).kinds
            /\ Asps[f] = framestack[f].asp
            /\ Len(Kinds[f]) = Len(ShapeOf(f))
            /\ \A k \in 1 .. Len(Kinds[f]) :
                 Values[f][k] = stack[framestack[f].base + k - 1]
            /\ Rooms[f] = framestack[f].asp - View(f).loose
  BY ONLY <1>2, <1>9 DEF FramesTyped
<1>11. PICK W, L, B, S : W = Values' /\ L = Kinds' /\ B = Asps' /\ S = Rooms'
  OBVIOUS
<1>12. /\ FramesType(c + 1, W, L, B, S)
       /\ \A f \in 0 .. c + 1 :
            /\ W[f] = Vals(f)' /\ L[f] = View(f)'.kinds
            /\ B[f] = framestack'[f].asp
            /\ S[f] = Room(f)'
            /\ \A k \in 1 .. Len(L[f]) : W[f][k] = stack'[framestack'[f].base + k - 1]
  <2>1. /\ FramesType(framese, Values, Kinds, Asps, Rooms)'
        /\ \A f \in 0 .. framese' :
            /\ Values'[f] = Vals(f)' /\ Kinds'[f] = View(f)'.kinds
            /\ Asps'[f] = framestack'[f].asp /\ Rooms'[f] = Room(f)'
            /\ \A k \in 1 .. Len(Kinds'[f]) :
                 Values'[f][k] = stack'[framestack'[f].base + k - 1]
    BY ONLY <1>5 DEF FramesTyped
  <2>2. FramesType(framese', Values', Kinds', Asps', Rooms')
    BY ONLY <2>1 DEF FramesType
  <2>3. FramesType(c + 1, W, L, B, S)
    BY ONLY <1>2, <1>11, <2>2
  <2> QED
    BY ONLY <1>2, <1>11, <2>1, <2>3
<1>13. /\ \A f \in 0 .. c : f \in 0 .. c + 1
       /\ \A f \in 0 .. c - 1 : f \in 0 .. c /\ f \in 0 .. c + 1 /\ f # c
       /\ c \in 0 .. c /\ c + 1 \in 0 .. c + 1 /\ (c + 1) - 1 = c
       /\ \A f \in 0 .. c : f \in 0 .. c - 1 \/ f = c
  BY ONLY <1>2
<1>14. views[Frame.fn].gives = Temp => View(c).loose = 0
  <2>1. CallersAgree
    BY ONLY AInv, <1>2 DEF AInv, Arrays
  <2>2. c \in 0 .. framese - 1
    BY ONLY <1>2
  <2> QED
    BY ONLY <1>2, <2>1, <2>2 DEF CallersAgree, Frame
<1>15. views[Frame.fn].gives = Temp
  <2>1. framestack'[c + 1].fn = Frame.fn
    <3>1. FramesStay
      BY ONLY <1>2, <1>9, ShiftStays, ShiftAstackentToBase, status' = "run"
         DEF VInv
    <3> QED
      BY ONLY <1>2, <1>13, <3>1 DEF FramesStay, Frame
  <2> QED
    BY ONLY <1>2, <1>6, <2>1 DEF Moving, Frame
<1>16. Asps[c] \in Int
  BY ONLY <1>10, <1>13 DEF FramesType
<1>17. ASSUME NEW f \in 0 .. c
       PROVE  W[f] = Values[f] /\ L[f] = Kinds[f] /\ S[f] = Rooms[f]
  <2>1. /\ View(f)' = View(f) /\ Vals(f)' = Vals(f) /\ f \in 0 .. c + 1
    BY ONLY <1>3, <1>13, f \in 0 .. c
  <2>2. /\ W[f] = Vals(f)' /\ L[f] = View(f)'.kinds /\ S[f] = Room(f)'
    BY ONLY <1>12, <2>1
  <2>3. /\ Values[f] = Vals(f) /\ Kinds[f] = View(f).kinds
        /\ Asps[f] = framestack[f].asp /\ Rooms[f] = framestack[f].asp - View(f).loose
    BY ONLY <1>10, <2>1
  <2>4. Room(f)' = Rooms[f]
    <3>1. CASE f = c
      <4>1. Room(f)' = Result'.i
        BY ONLY <1>2, <1>6, <1>13, <3>1 DEF Room
      <4>2. Result'.i = framestack[c].asp
        BY ONLY <1>8 DEF VecV
      <4> QED
        BY ONLY <1>14, <1>15, <1>16, <2>3, <3>1, <4>1, <4>2
    <3>2. CASE f \in 0 .. c - 1
      <4>1. Room(f)' = framestack'[f].asp - View(f)'.loose
        BY ONLY <1>2, <1>13, <3>2 DEF Room
      <4> QED
        BY ONLY <1>3, <2>1, <2>3, <3>2, <4>1
    <3> QED
      BY ONLY <1>13, <3>1, <3>2, f \in 0 .. c
  <2> QED
    BY ONLY <2>1, <2>2, <2>3, <2>4
<1>18. /\ \A f \in 0 .. c - 1 : B[f] = Asps[f]
       /\ Asps[c] <= B[c]
  <2>1. \A f \in 0 .. c - 1 : B[f] = Asps[f]
    BY ONLY <1>3, <1>10, <1>12, <1>13
  <2>2. B[c] = Asps[c] + peekv(1).n
    BY ONLY <1>3, <1>10, <1>12, <1>13
  <2>3. PICK x : x = peekv(1).n
    OBVIOUS
  <2> QED
    BY ONLY <1>2, <1>16, <2>1, <2>2, <2>3
<1>19. /\ Kinds[c + 1] = old.kinds /\ Len(Kinds[c + 1]) = n
       /\ \A k \in 1 .. n : Values[c + 1][k] = stack[Frame.base + k - 1]
  <2>1. /\ Kinds[c + 1] = View(c + 1).kinds /\ Len(Kinds[c + 1]) = Len(ShapeOf(c + 1))
        /\ \A k \in 1 .. Len(Kinds[c + 1]) :
             Values[c + 1][k] = stack[framestack[c + 1].base + k - 1]
    BY ONLY <1>10, <1>13
  <2>2. framestack[c + 1] = Frame /\ ShapeOf(c + 1) = ShapeOf(framese)
        /\ View(c + 1) = old
    BY ONLY <1>1, <1>2 DEF Frame
  <2>3. PICK frame : frame = Frame
    OBVIOUS
  <2>4. Kinds[c + 1] = old.kinds /\ Len(Kinds[c + 1]) = n
    BY ONLY <2>1, <2>2, n = Len(ShapeOf(framese))
  <2>5. \A k \in 1 .. n : Values[c + 1][k] = stack[frame.base + k - 1]
    BY ONLY <2>1, <2>2, <2>3, <2>4
  <2> QED
    BY ONLY <2>3, <2>4, <2>5
<1>20. /\ L[c + 1] = new.kinds /\ Len(L[c + 1]) = n
       /\ \A k \in 1 .. n : W[c + 1][k] = stack'[Frame.base + k - 1]
  <2>1. /\ L[c + 1] = new.kinds /\ Len(L[c + 1]) = n
        /\ \A k \in 1 .. Len(L[c + 1]) :
             W[c + 1][k] = stack'[framestack'[c + 1].base + k - 1]
    BY ONLY <1>3, <1>4, <1>12, <1>13
  <2> QED
    BY ONLY <1>3, <2>1
<1>21. /\ \A k \in 1 .. n - 1 : W[c + 1][k] = Values[c + 1][k]
                                /\ KindFits(Kinds[c + 1][k], L[c + 1][k])
       /\ W[c + 1][n].t = "vec" /\ L[c + 1][n] = Moved
  <2>1. n \in 1 .. n /\ \A k \in 1 .. n - 1 : k \in 1 .. n
    BY ONLY <1>2
  <2>2. W[c + 1][n].t = "vec"
    BY ONLY <1>3, <1>20, <2>1 DEF VecV
  <2> QED
    BY ONLY <1>3, <1>4, <1>19, <1>20, <2>1, <2>2
<1>22. ShiftMade(c, n, Values, Kinds, Asps, Rooms, W, L, B, S)
  BY ONLY <1>2, <1>9, <1>10, <1>12, <1>17, <1>18, <1>19, <1>20, <1>21 DEF ShiftMade
<1> QED
  BY ONLY <1>5, <1>6, <1>7, <1>8, <1>11, <1>22

LEMMA ShiftArrays ==
  ASSUME AInv, VInv', status' = "run", UNCHANGED image, ShiftAstackentToBase
  PROVE  Arrays' /\ Arguments'
<1>1. PICK c, n : c = framese - 1 /\ n = Len(ShapeOf(framese))
  OBVIOUS
<1>2. /\ status = "run" /\ Op = OP_SHIFT_ASTACKENT_TO_BASE
      /\ c \in Nat /\ n \in Nat /\ n > 0 /\ framese = c + 1 /\ framese' = framese
      /\ UNCHANGED << argstack, argsp, argasp >>
      /\ peekv(1).n \in Int /\ 0 <= peekv(1).n
  BY <1>1, ShiftMoves
<1>3. /\ \A f \in 0 .. c :
           /\ framestack'[f].fn = framestack[f].fn
           /\ View(f)' = View(f) /\ ShapeOf(f)' = ShapeOf(f)
      /\ framestack'[c].asp = framestack[c].asp + peekv(1).n
      /\ \A f \in 0 .. c + 1 : Blind(f)' = Blind(f)
      /\ View(c + 1)' = views[Frame.fn].at[NextIP]
      /\ astack' = CopyCells(astack, framestack[c].asp, peekv(1).i, peekv(1).n)
  BY <1>1, ShiftMoves
<1>4. views[Frame.fn].at[NextIP].args = View(framese).args
  <2>1. PICK old, new : old = View(framese) /\ new = views[Frame.fn].at[NextIP]
    OBVIOUS
  <2>2. new.args = old.args
    BY <1>1, <2>1, ShiftViews
  <2> QED
    BY ONLY <2>1, <2>2
<1>5. /\ FramesTyped' /\ Moving' /\ Last' = c
      /\ Result' = VecV(framestack[c].asp, peekv(1).n)
      /\ ShiftMade(c, n, Values, Kinds, Asps, Rooms,
                   Values', Kinds', Asps', Rooms')
  BY ONLY <1>1, ShiftRelated, AInv, VInv', status' = "run", UNCHANGED image,
          ShiftAstackentToBase, SMTT(40)
<1>6. /\ CallersAgree /\ BlindAbove /\ GlobalsAgree /\ ArgsAgree
      /\ CopiesIn(framese, Values, Kinds, argasp) /\ CopiesStacked
  BY ONLY AInv, <1>2 DEF AInv, Arrays, Arguments
<1>7. /\ \A f \in 0 .. c : f \in 0 .. c + 1 /\ f + 1 \in 0 .. c + 1 /\ f # c + 1
      /\ \A f \in 0 .. c + 1 : f \in 0 .. c \/ f = c + 1
      /\ c + 1 \in 0 .. c + 1 /\ c \in 0 .. c /\ (c + 1) - 1 = c
      /\ \A f \in 0 .. c : f + 1 \in 0 .. c \/ f + 1 = c + 1
  BY ONLY <1>2
<1>8. \A f \in 0 .. c + 1 : framestack'[f].fn = framestack[f].fn
  <2>1. FramesStay
    BY ONLY AInv, ShiftStays, ShiftAstackentToBase, status' = "run" DEF AInv, VInv
  <2> QED
    BY ONLY <1>2, <2>1 DEF FramesStay
<1>9. PICK W, L, B, S : W = Values' /\ L = Kinds' /\ B = Asps' /\ S = Rooms'
  OBVIOUS
<1>10. /\ KindsIn(c + 1, W, L) /\ RoomsIn(c, B, S) /\ VectorsIn(c, W, L, S)
       /\ TempsIn(c, c + 1, W, L, B)
       /\ \A low : CopiesIn(c + 1, Values, Kinds, low) => CopiesIn(c + 1, W, L, low)
  <2>1. ShiftMade(c, n, Values, Kinds, Asps, Rooms, W, L, B, S)
    BY ONLY <1>5, <1>9
  <2> QED
    BY ONLY <2>1, ShiftFrames, SMTT(40)
<1>11. FrameArrays'
  <2>1. /\ KindsIn(framese, Values, Kinds)' /\ RoomsIn(Last, Asps, Rooms)'
        /\ VectorsIn(Last, Values, Kinds, Rooms)'
        /\ TempsIn(Last, framese, Values, Kinds, Asps)'
    BY ONLY <1>2, <1>5, <1>9, <1>10 DEF KindsIn, RoomsIn, VectorsIn, TempsIn, Known
  <2> QED
    BY ONLY <2>1 DEF FrameArrays
<1>12. CopiesIn(framese, Values, Kinds, argasp)'
  <2>1. CopiesIn(c + 1, Values, Kinds, argasp)
    BY ONLY <1>2, <1>6
  <2>2. PICK low : low = argasp
    OBVIOUS
  <2>3. CopiesIn(c + 1, W, L, low)
    BY ONLY <1>10, <2>1, <2>2
  <2> QED
    BY ONLY <1>2, <1>9, <2>2, <2>3 DEF CopiesIn, Known
<1>13. CallersAgree'
  <2>1. ASSUME NEW f \in 0 .. c
        PROVE  LET callee == views[framestack'[f + 1].fn]
               IN  /\ KindFits(callee.gives, View(f)'.kinds[Len(ShapeOf(f)')])
                   /\ callee.gives = Temp => View(f)'.loose = 0
                   /\ ~callee.blind => View(f)'.args = callee.outs
                   /\ callee.reach <= Len(ShapeOf(f)')
    <3>1. /\ framestack'[f + 1].fn = framestack[f + 1].fn
          /\ View(f)' = View(f) /\ ShapeOf(f)' = ShapeOf(f)
          /\ f \in 0 .. framese - 1
      BY ONLY <1>2, <1>3, <1>7, <1>8, f \in 0 .. c
    <3> QED
      BY ONLY <1>6, <3>1 DEF CallersAgree
  <2> QED
    BY ONLY <1>2, <1>7, <2>1 DEF CallersAgree
<1>14. BlindAbove'
  <2> SUFFICES ASSUME NEW f \in 0 .. framese, NEW g \in 0 .. framese,
                      f < g, ~Blind(g)'
               PROVE  ~Blind(f)' /\ NoneIn(Copied, View(f)'.kinds)
    BY <1>2 DEF BlindAbove
  <2>1. f \in 0 .. c
    BY ONLY <1>2, f \in 0 .. framese, g \in 0 .. framese, f < g
  <2>2. /\ Blind(f)' = Blind(f) /\ Blind(g)' = Blind(g) /\ View(f)' = View(f)
    BY ONLY <1>2, <1>3, <2>1, f \in 0 .. framese, g \in 0 .. framese
  <2> QED
    BY ONLY <1>6, <2>2, f \in 0 .. framese, g \in 0 .. framese, f < g, ~Blind(g)'
       DEF BlindAbove
<1>15. GlobalsAgree'
  <2>1. framese > 1 => View(1)' = View(1)
    <3>1. framese > 1 => 1 \in 0 .. c
      BY ONLY <1>2
    <3> QED
      BY ONLY <1>3, <3>1
  <2> QED
    BY ONLY <1>2, <1>6, <2>1 DEF GlobalsAgree
<1>16. ScalarElements'
  BY <1>2, <1>3, CopiedElements
<1>17. ResultMoved'
  <2>1. framestack'[framese' - 1].asp = framestack[c].asp + peekv(1).n
    BY ONLY <1>2, <1>3, <1>7
  <2>2. /\ Result'.t = "vec" /\ Result'.n = peekv(1).n
        /\ Result'.i = framestack[c].asp
    BY ONLY <1>5 DEF VecV
  <2> QED
    BY ONLY <1>2, <2>1, <2>2 DEF ResultMoved
<1>18. \A f \in 0 .. framese : View(f)'.args = View(f).args
  BY ONLY <1>2, <1>3, <1>4, <1>7
<1>19. ArgsAgree'
  <2> SUFFICES ASSUME NEW f \in 0 .. framese, ~Blind(f)',
                      f = framese \/ Blind(f + 1)'
               PROVE  /\ argsp = Len(View(f)'.args)
                      /\ \A k \in 1 .. argsp :
                           View(f)'.args[k] = 1 <=> argstack[k - 1].t = "vec"
    BY <1>2 DEF ArgsAgree
  <2>1. ~Blind(f) /\ (f = framese \/ Blind(f + 1))
    BY ONLY <1>2, <1>3, <1>7, f \in 0 .. framese, ~Blind(f)',
            f = framese \/ Blind(f + 1)'
  <2> QED
    BY ONLY <1>6, <1>18, <2>1, f \in 0 .. framese DEF ArgsAgree
<1>20. CopiesStacked'
  BY ONLY <1>2, <1>6 DEF CopiesStacked
<1>21. Arrays'
  BY ONLY <1>11, <1>13, <1>14, <1>15, <1>16, <1>17 DEF Arrays
<1> QED
  BY ONLY <1>12, <1>19, <1>20, <1>21 DEF Arguments

-----------------------------------------------------------------------------
(* A return to frame c, which holds n values: the last of them was the      *)
(* function and is now the result v, of kind q.                             *)
ReturnMade(c, n, V, K, A, R, W, L, B, S, v, q) ==
  /\ FramesType(c + 1, V, K, A, R) /\ FramesType(c, W, L, B, S)
  /\ KindsIn(c + 1, V, K) /\ RoomsIn(c, A, R) /\ VectorsIn(c, V, K, R)
  /\ TempsIn(c, c + 1, V, K, A)
  /\ c \in Nat /\ n \in Nat /\ n > 0 /\ Len(K[c]) = n
  /\ \A f \in 0 .. c : L[f] = K[f] /\ B[f] = A[f]
  /\ \A f \in 0 .. c - 1 : W[f] = V[f] /\ S[f] = R[f]
  /\ \A k \in 1 .. n - 1 : W[c][k] = V[c][k]
  /\ W[c][n] = v /\ v \in Value /\ R[c] <= S[c] /\ S[c] <= A[c]
  /\ q \in {ScalarKind, Temp} /\ KindFits(q, K[c][n])
  /\ q = ScalarKind => v.t # "vec"
  /\ q = Temp => v.t = "vec" /\ v.i = R[c] /\ 0 <= v.n /\ v.i + v.n = S[c]

LEMMA ReturnNumbers ==
  ASSUME NEW c, NEW n, NEW V, NEW K, NEW A, NEW R, NEW W, NEW L, NEW B, NEW S,
         NEW v, NEW q, ReturnMade(c, n, V, K, A, R, W, L, B, S, v, q)
  PROVE  /\ c \in Nat /\ n \in Nat /\ n > 0 /\ Len(K[c]) = n
         /\ \A f \in 0 .. c :
              /\ A[f] \in Int /\ R[f] \in Int /\ B[f] \in Int /\ S[f] \in Int
         /\ \A k \in 1 .. n : /\ K[c][k] \in Int
                              /\ V[c][k].i \in Int /\ V[c][k].n \in Int
         /\ v.i \in Int /\ v.n \in Int
         /\ \A f \in 0 .. c : f \in 0 .. c + 1 /\ f # c + 1
         /\ \A f \in 0 .. c : f \in 0 .. c - 1 \/ f = c
         /\ \A f \in 0 .. c - 1 : f \in 0 .. c /\ f # c
         /\ c \in 0 .. c /\ c \in 0 .. (c + 1) - 1
         /\ \A f \in 0 .. c - 1 : Known(f, c, L) = Known(f, c + 1, K)
         /\ Known(c, c + 1, K) = 1 .. n - 1 /\ Known(c, c, L) = 1 .. n
         /\ \A k \in 1 .. n : k \in 1 .. n - 1 \/ k = n
<1>1. /\ c \in Nat /\ n \in Nat /\ n > 0 /\ Len(K[c]) = n
      /\ \A f \in 0 .. c : L[f] = K[f]
      /\ v \in Value
  BY DEF ReturnMade
<1>2. /\ K \in [0 .. c + 1 -> Seq(Int)] /\ V \in [0 .. c + 1 -> Seq(Value)]
      /\ A \in [0 .. c + 1 -> Int] /\ R \in [0 .. c + 1 -> Int]
      /\ B \in [0 .. c -> Int] /\ S \in [0 .. c -> Int]
      /\ \A f \in 0 .. c + 1 : Len(V[f]) = Len(K[f])
  BY Zenon DEF ReturnMade, FramesType
<1>3. /\ \A f \in 0 .. c : f \in 0 .. c + 1 /\ f # c + 1
      /\ \A f \in 0 .. c : f \in 0 .. c - 1 \/ f = c
      /\ \A f \in 0 .. c - 1 : f \in 0 .. c /\ f # c
      /\ c \in 0 .. c /\ c \in 0 .. (c + 1) - 1
      /\ \A k \in 1 .. n : k \in 1 .. n - 1 \/ k = n
  BY ONLY <1>1
<1>4. /\ \A f \in 0 .. c - 1 : Known(f, c, L) = Known(f, c + 1, K)
      /\ Known(c, c + 1, K) = 1 .. n - 1 /\ Known(c, c, L) = 1 .. n
  BY ONLY <1>1, <1>3 DEF Known
<1>5. K[c] \in Seq(Int) /\ V[c] \in Seq(Value) /\ Len(V[c]) = n
  BY ONLY <1>1, <1>2, <1>3
<1>6. \A k \in 1 .. n : K[c][k] \in Int /\ V[c][k].i \in Int /\ V[c][k].n \in Int
  BY ONLY <1>1, <1>5, ElementOf, ValueFields
<1>7. \A f \in 0 .. c :
        A[f] \in Int /\ R[f] \in Int /\ B[f] \in Int /\ S[f] \in Int
  BY ONLY <1>2, <1>3
<1>8. v.i \in Int /\ v.n \in Int
  BY ONLY <1>1, ValueFields
<1> QED
  BY ONLY <1>1, <1>3, <1>4, <1>6, <1>7, <1>8

LEMMA ReturnFrames ==
  ASSUME NEW c, NEW n, NEW V, NEW K, NEW A, NEW R, NEW W, NEW L, NEW B, NEW S,
         NEW v, NEW q, ReturnMade(c, n, V, K, A, R, W, L, B, S, v, q)
  PROVE  /\ KindsIn(c, W, L) /\ RoomsIn(c, B, S) /\ VectorsIn(c, W, L, S)
         /\ TempsIn(c, c, W, L, B)
         /\ \A low : CopiesIn(c + 1, V, K, low) => CopiesIn(c, W, L, low)
<1>1. /\ c \in Nat /\ n \in Nat /\ n > 0 /\ Len(K[c]) = n
      /\ \A f \in 0 .. c :
           /\ A[f] \in Int /\ R[f] \in Int /\ B[f] \in Int /\ S[f] \in Int
      /\ \A k \in 1 .. n : /\ K[c][k] \in Int
                           /\ V[c][k].i \in Int /\ V[c][k].n \in Int
      /\ v.i \in Int /\ v.n \in Int
      /\ \A f \in 0 .. c : f \in 0 .. c + 1 /\ f # c + 1
      /\ \A f \in 0 .. c : f \in 0 .. c - 1 \/ f = c
      /\ \A f \in 0 .. c - 1 : f \in 0 .. c /\ f # c
      /\ c \in 0 .. c /\ c \in 0 .. (c + 1) - 1
      /\ \A f \in 0 .. c - 1 : Known(f, c, L) = Known(f, c + 1, K)
      /\ Known(c, c + 1, K) = 1 .. n - 1 /\ Known(c, c, L) = 1 .. n
      /\ \A k \in 1 .. n : k \in 1 .. n - 1 \/ k = n
  BY ReturnNumbers
<1>2. /\ KindsIn(c + 1, V, K) /\ RoomsIn(c, A, R) /\ VectorsIn(c, V, K, R)
      /\ TempsIn(c, c + 1, V, K, A)
      /\ \A f \in 0 .. c : L[f] = K[f] /\ B[f] = A[f]
      /\ \A f \in 0 .. c - 1 : W[f] = V[f] /\ S[f] = R[f]
      /\ \A k \in 1 .. n - 1 : W[c][k] = V[c][k]
      /\ W[c][n] = v /\ R[c] <= S[c] /\ S[c] <= A[c]
      /\ q \in {ScalarKind, Temp} /\ KindFits(q, K[c][n])
      /\ q = ScalarKind => v.t # "vec"
      /\ q = Temp => v.t = "vec" /\ v.i = R[c] /\ 0 <= v.n /\ v.i + v.n = S[c]
  BY DEF ReturnMade
<1>3. n \in 1 .. n /\ K[c][n] \in Int
      /\ \A k \in 1 .. n - 1 : k \in 1 .. n /\ K[c][k] \in Int
  BY ONLY <1>1
<1>4. /\ KindHeld(v, K[c][n]) /\ K[c][n] # Copied
      /\ K[c][n] = Temp => q = Temp
  BY ONLY <1>2, <1>3 DEF KindFits, KindHeld, IsScalar, AnyKind, ScalarKind, Temp,
       Copied, Moved
<1>5. ASSUME NEW f \in 0 .. c, NEW k \in Known(f, c, L)
      PROVE  KindHeld(W[f][k], L[f][k])
  <2>1. CASE f \in 0 .. c - 1
    BY ONLY <1>1, <1>2, <2>1, k \in Known(f, c, L) DEF KindsIn
  <2>2. CASE f = c /\ k \in 1 .. n - 1
    BY ONLY <1>1, <1>2, <2>2 DEF KindsIn
  <2>3. CASE f = c /\ k = n
    BY ONLY <1>1, <1>2, <1>4, <2>3
  <2> QED
    BY ONLY <1>1, <2>1, <2>2, <2>3, f \in 0 .. c, k \in Known(f, c, L)
<1>6. \A f \in 0 .. c - 1 : W[f][Len(L[f])].t # "vec"
  <2>1. \A f \in 0 .. c - 1 : f \in 0 .. (c + 1) - 1
    BY ONLY <1>1
  <2> QED
    BY ONLY <1>1, <1>2, <2>1 DEF KindsIn
<1>7. KindsIn(c, W, L)
  BY ONLY <1>5, <1>6 DEF KindsIn
<1>8. RoomsIn(c, B, S)
  <2> SUFFICES ASSUME NEW f \in 0 .. c
               PROVE  /\ 0 <= S[f] /\ S[f] <= B[f]
                      /\ \A g \in 0 .. f - 1 : B[g] <= S[f]
    BY DEF RoomsIn
  <2>1. /\ 0 <= R[f] /\ R[f] <= A[f] /\ B[f] = A[f]
        /\ \A g \in 0 .. f - 1 : A[g] <= R[f]
    BY ONLY <1>2, f \in 0 .. c DEF RoomsIn
  <2>2. \A g \in 0 .. f - 1 : g \in 0 .. c
    BY ONLY <1>1, f \in 0 .. c
  <2>3. R[f] <= S[f] /\ S[f] <= A[f]
    <3>1. CASE f \in 0 .. c - 1
      <4>1. S[f] = R[f] /\ R[f] \in Int
        BY ONLY <1>1, <1>2, <3>1
      <4> QED
        BY ONLY <2>1, <4>1
    <3>2. CASE f = c
      BY ONLY <1>2, <3>2
    <3> QED
      BY ONLY <1>1, <3>1, <3>2, f \in 0 .. c
  <2>4. S[f] \in Int /\ A[f] \in Int /\ R[f] \in Int
    BY ONLY <1>1, f \in 0 .. c
  <2>5. ASSUME NEW g \in 0 .. f - 1
        PROVE  B[g] <= S[f]
    <3>1. B[g] = A[g] /\ A[g] \in Int /\ A[g] <= R[f]
      BY ONLY <1>1, <1>2, <2>1, <2>2, g \in 0 .. f - 1
    <3> QED
      BY ONLY <2>3, <2>4, <3>1
  <2>6. 0 <= S[f]
    BY ONLY <2>1, <2>3, <2>4
  <2> QED
    BY ONLY <2>1, <2>3, <2>5, <2>6
<1>9. VectorsIn(c, W, L, S)
  <2> SUFFICES ASSUME NEW f \in 0 .. c, NEW k \in 1 .. Len(L[f]),
                      Lower(W[f][k], L[f][k])
               PROVE  VecIn(W[f][k], 0, S[f])
    BY DEF VectorsIn
  <2>1. CASE f \in 0 .. c - 1
    BY ONLY <1>1, <1>2, <2>1, k \in 1 .. Len(L[f]), Lower(W[f][k], L[f][k])
       DEF VectorsIn
  <2>2. CASE f = c /\ k \in 1 .. n - 1
    <3>1. Lower(V[c][k], K[c][k]) /\ k \in 1 .. Len(K[c])
      BY ONLY <1>1, <1>2, <1>3, <2>2, Lower(W[f][k], L[f][k])
    <3>2. VecIn(V[c][k], 0, R[c])
      BY ONLY <1>1, <1>2, <3>1 DEF VectorsIn
    <3>3. /\ V[c][k].i \in Int /\ V[c][k].n \in Int /\ R[c] \in Int /\ S[c] \in Int
      BY ONLY <1>1, <1>3, <2>2
    <3>4. VecIn(V[c][k], 0, S[c])
      BY ONLY <1>2, <3>2, <3>3 DEF VecIn
    <3> QED
      BY ONLY <1>2, <2>2, <3>4
  <2>3. CASE f = c /\ k = n
    <3>1. v.t = "vec"
      BY ONLY <1>2, <2>3, Lower(W[f][k], L[f][k]) DEF Lower
    <3>2. v.i = R[c] /\ 0 <= v.n /\ v.i + v.n = S[c]
      BY ONLY <1>2, <3>1
    <3>3. 0 <= R[c] /\ R[c] \in Int /\ S[c] \in Int
      BY ONLY <1>1, <1>2 DEF RoomsIn
    <3>4. VecIn(v, 0, S[c])
      BY ONLY <3>2, <3>3 DEF VecIn
    <3> QED
      BY ONLY <1>2, <2>3, <3>4
  <2> QED
    BY ONLY <1>1, <1>2, <2>1, <2>2, <2>3, f \in 0 .. c, k \in 1 .. Len(L[f])
<1>10. TempsIn(c, c, W, L, B)
  <2> SUFFICES ASSUME NEW f \in 0 .. c, NEW k \in Known(f, c, L), L[f][k] = Temp
               PROVE  /\ \A g \in 0 .. f - 1 : B[g] <= W[f][k].i
                      /\ \A j \in 1 .. k - 1 : Lower(W[f][j], L[f][j]) =>
                           W[f][j].i + W[f][j].n <= W[f][k].i
    BY DEF TempsIn
  <2>1. \A g \in 0 .. f - 1 : g \in 0 .. c
    BY ONLY <1>1, f \in 0 .. c
  <2>2. CASE f \in 0 .. c - 1
    <3>1. /\ k \in Known(f, c + 1, K) /\ K[f][k] = Temp /\ W[f] = V[f] /\ L[f] = K[f]
      BY ONLY <1>1, <1>2, <2>2, k \in Known(f, c, L), L[f][k] = Temp
    <3> QED
      BY ONLY <1>2, <2>1, <3>1, f \in 0 .. c DEF TempsIn
  <2>3. CASE f = c /\ k \in 1 .. n - 1
    <3>1. K[c][k] = Temp /\ L[c] = K[c]
      BY ONLY <1>1, <1>2, <2>3, L[f][k] = Temp
    <3>2. /\ \A g \in 0 .. c - 1 : A[g] <= V[c][k].i
          /\ \A j \in 1 .. k - 1 : Lower(V[c][j], K[c][j]) =>
               V[c][j].i + V[c][j].n <= V[c][k].i
      BY ONLY <1>1, <1>2, <2>3, <3>1 DEF TempsIn
    <3>3. \A j \in 1 .. k - 1 : j \in 1 .. n - 1
      BY ONLY <1>1, <2>3
    <3> QED
      BY ONLY <1>2, <2>1, <2>3, <3>1, <3>2, <3>3
  <2>4. CASE f = c /\ k = n
    <3>1. L[c] = K[c] /\ v.i = R[c]
      BY ONLY <1>1, <1>2, <1>4, <2>4, L[f][k] = Temp
    <3>2. \A g \in 0 .. c - 1 : A[g] <= R[c]
      BY ONLY <1>1, <1>2 DEF RoomsIn
    <3>3. ASSUME NEW j \in 1 .. n - 1, Lower(V[c][j], K[c][j])
          PROVE  V[c][j].i + V[c][j].n <= R[c]
      <4>1. VecIn(V[c][j], 0, R[c])
        BY ONLY <1>1, <1>2, <1>3, <3>3 DEF VectorsIn
      <4> QED
        BY ONLY <4>1 DEF VecIn
    <3> QED
      BY ONLY <1>2, <2>1, <2>4, <3>1, <3>2, <3>3
  <2> QED
    BY ONLY <1>1, <2>2, <2>3, <2>4, f \in 0 .. c, k \in Known(f, c, L)
<1>11. ASSUME NEW low, CopiesIn(c + 1, V, K, low)
       PROVE  CopiesIn(c, W, L, low)
  <2> SUFFICES ASSUME NEW f \in 0 .. c, NEW k \in Known(f, c, L), L[f][k] = Copied
               PROVE  VecIn(W[f][k], low, StackMax)
    BY DEF CopiesIn
  <2>1. CASE f \in 0 .. c - 1
    BY ONLY <1>1, <1>2, <1>11, <2>1, k \in Known(f, c, L), L[f][k] = Copied
       DEF CopiesIn
  <2>2. CASE f = c /\ k \in 1 .. n - 1
    BY ONLY <1>1, <1>2, <1>11, <2>2, L[f][k] = Copied DEF CopiesIn
  <2>3. CASE f = c /\ k = n
    BY ONLY <1>1, <1>2, <1>4, <2>3, L[f][k] = Copied
  <2> QED
    BY ONLY <1>1, <2>1, <2>2, <2>3, f \in 0 .. c, k \in Known(f, c, L)
<1> QED
  BY ONLY <1>7, <1>8, <1>9, <1>10, <1>11

(* What a return does to the frames.                                        *)
LEMMA ReturnMoves ==
  ASSUME AInv, VInv', status' = "run", UNCHANGED image, Return,
         NEW c, c = framese - 1, NEW n, n = Len(ShapeOf(c))
  PROVE  /\ status = "run" /\ Op = OP_RETURN
         /\ c \in Nat /\ n \in Nat /\ n > 0 /\ framese = c + 1 /\ framese' = c
         /\ UNCHANGED << astack, argstack, argsp, argasp >>
         /\ \A f \in 0 .. c :
              /\ framestack'[f].fn = framestack[f].fn
              /\ framestack'[f].asp = framestack[f].asp
              /\ framestack'[f].base = framestack[f].base
              /\ View(f)' = View(f) /\ ShapeOf(f)' = ShapeOf(f)
              /\ Blind(f)' = Blind(f)
         /\ \A f \in 0 .. c - 1 : Vals(f)' = Vals(f)
         /\ framestack[c].base \in Nat
         /\ \A k \in 1 .. n - 1 :
              stack'[framestack[c].base + k - 1] = stack[framestack[c].base + k - 1]
         /\ stack'[framestack[c].base + n - 1] = Result
         /\ Result \in Value
<1>1. status = "run" /\ Op = OP_RETURN /\ DInv /\ framese \in Nat
  <2>1. status = "run" /\ Op = OP_RETURN /\ DInv
    BY DEF Return, Fetch, AInv, VInv
  <2> QED
    BY ONLY <2>1, CurrentFacts
<1>2. PICK sp : sp = framestack[c].sp - Arg(1) - 1
  OBVIOUS
<1>3. /\ framese' = framese - 1 /\ framese # 0 /\ ~(SP < 1)
      /\ framestack' = [framestack EXCEPT ![c].sp = sp + 1]
      /\ stack' = [stack EXCEPT ![sp] = peekv(1)]
      /\ UNCHANGED << astack, argstack, argsp, argasp >>
  BY <1>2 DEF Return, Wild
<1>4. /\ c \in Nat /\ framese = c + 1 /\ framese' = c
      /\ c \in 0 .. framese - 1 /\ c \in 0 .. framese /\ c + 1 \in 0 .. framese
      /\ \A f \in 0 .. c : f \in 0 .. framese
      /\ \A f \in 0 .. c - 1 : f \in 0 .. framese /\ f < c /\ f # c
      /\ \A f \in 0 .. c : f \in 0 .. c - 1 \/ f = c
      /\ \A f \in 0 .. c - 1 : f \in 0 .. c /\ f # c
  BY ONLY <1>1, <1>3, c = framese - 1
<1>5. PICK base : base = framestack[c].base
  OBVIOUS
<1>6. /\ n \in Nat /\ n > 0 /\ base \in Nat
      /\ \A k \in 1 .. n : base + k - 1 \in CellIndex
  <2>1. /\ n \in Nat /\ base \in Nat
        /\ \A k \in 1 .. n : base + k - 1 \in CellIndex
    BY ONLY <1>1, <1>4, <1>5, FrameHolds, n = Len(ShapeOf(c))
  <2>2. c < c + 1
    BY ONLY <1>4
  <2>3. n > 0
    BY ONLY <1>1, <1>4, <2>2, FramesApart, n = Len(ShapeOf(c))
  <2> QED
    BY ONLY <2>1, <2>3
<1>7. sp = base + n - 1
  <2>1. Arg(1) = Fn(framese).arity /\ Arg(1) \in Int
    <3>1. ReturnOK(image, Frame.fn, IP)
      BY <1>1, CurrentFacts DEF InstructionOK
    <3>2. Fn(framese).arity \in Nat
      BY <1>1, CurrentFacts DEF HeaderOK
    <3> QED
      BY <1>1, <3>1, <3>2, SameInstruction, CurrentFacts DEF ReturnOK
  <2>2. /\ framestack[c].sp = framestack[framese].base + Fn(framese).arity
        /\ framestack[framese].base = base + n
    <3>1. HeightsAgree
      BY ONLY <1>1 DEF DInv, FrameInv, Discipline
    <3>2. c < framese /\ c # framese
      BY ONLY <1>1, <1>4
    <3> QED
      BY ONLY <1>4, <1>5, <3>1, <3>2, n = Len(ShapeOf(c)) DEF HeightsAgree, Height
  <2>3. PICK a : a = Arg(1)
    OBVIOUS
  <2>4. sp = (base + n + a) - a - 1 /\ a \in Int
    BY ONLY <1>2, <2>1, <2>2, <2>3
  <2> QED
    BY ONLY <1>6, <2>4
<1>8. /\ framestack \in [FrameIndex -> FrameType]
      /\ \A f \in 0 .. framese : f \in FrameIndex /\ framestack[f] \in FrameType
      /\ stack \in [CellIndex -> Value]
  BY <1>1, SizesAssumption DEF DInv, IInv, TypeOK, FrameIndex
<1>9. /\ framestack'[c] = [framestack[c] EXCEPT !.sp = sp + 1]
      /\ \A f \in 0 .. c - 1 : framestack'[f] = framestack[f]
  BY ONLY <1>3, <1>4, <1>8
<1>10. ASSUME NEW f \in 0 .. c
       PROVE  /\ framestack'[f].fn = framestack[f].fn
              /\ framestack'[f].asp = framestack[f].asp
              /\ framestack'[f].base = framestack[f].base
              /\ framestack'[f].ip = framestack[f].ip
  <2>1. CASE f = c
    <3>1. framestack[c] \in FrameType
      BY ONLY <1>4, <1>8
    <3> QED
      BY ONLY <1>9, <2>1, <3>1 DEF FrameType
  <2>2. CASE f \in 0 .. c - 1
    BY ONLY <1>9, <2>2
  <2> QED
    BY ONLY <1>4, <2>1, <2>2, f \in 0 .. c
<1>11. \A f \in 0 .. c : /\ View(f)' = View(f) /\ ShapeOf(f)' = ShapeOf(f)
                         /\ Blind(f)' = Blind(f)
  BY ONLY <1>10, UNCHANGED image DEF View, ShapeOf, Fn, Blind
<1>12. \A a \in CellIndex : a # sp => stack'[a] = stack[a]
  BY ONLY <1>3, <1>8
<1>13. ASSUME NEW f \in 0 .. c - 1
       PROVE  Vals(f)' = Vals(f)
  <2>1. f \in 0 .. framese /\ f < c /\ f \in 0 .. c
    BY ONLY <1>4, f \in 0 .. c - 1
  <2>2. PICK b, m : b = framestack[f].base /\ m = Len(ShapeOf(f))
    OBVIOUS
  <2>3. /\ b \in Nat /\ m \in Nat /\ \A k \in 1 .. m : b + k - 1 \in CellIndex
    BY ONLY <1>1, <2>1, <2>2, FrameHolds
  <2>4. b + m <= base
    BY ONLY <1>1, <1>4, <1>5, <2>1, <2>2, FramesApart
  <2>5. \A k \in 1 .. m : b + k - 1 # sp
    BY ONLY <1>6, <1>7, <2>3, <2>4
  <2>6. \A k \in 1 .. m : stack'[b + k - 1] = stack[b + k - 1]
    BY ONLY <1>12, <2>3, <2>5
  <2>7. Vals(f)' = [k \in 1 .. m |-> stack'[b + k - 1]]
    BY ONLY <1>10, <2>1, <2>2, SameVals, UNCHANGED image
  <2> QED
    BY ONLY <2>2, <2>6, <2>7 DEF Vals
<1>14. ASSUME NEW k \in 1 .. n - 1
       PROVE  stack'[base + k - 1] = stack[base + k - 1]
  <2>1. k \in 1 .. n /\ base + k - 1 # base + n - 1
    BY ONLY <1>6, k \in 1 .. n - 1
  <2> QED
    BY ONLY <1>6, <1>7, <1>12, <2>1
<1>15. peekv(1) = Result /\ Result \in Value
  <2>1. SP - 1 \in CellIndex
    <3>1. SP \in Int /\ SP <= StackMax
      BY ONLY <1>1, Current, AInv
    <3> QED
      BY ONLY <1>3, <3>1, SizesAssumption DEF CellIndex
  <2>2. peekv(1) = stack[SP - 1]
    BY ONLY <1>8, <2>1 DEF peekv, Slot, Cell
  <2> QED
    BY ONLY <1>8, <2>1, <2>2 DEF Result
<1>16. stack'[base + n - 1] = Result
  <2>1. n \in 1 .. n
    BY ONLY <1>6
  <2>2. sp \in CellIndex
    BY ONLY <1>6, <1>7, <2>1
  <2> QED
    BY ONLY <1>3, <1>7, <1>8, <1>15, <2>2
<1> QED
  BY ONLY <1>1, <1>3, <1>4, <1>5, <1>6, <1>10, <1>11, <1>13, <1>14, <1>15, <1>16

(* What a function gives back.                                              *)
LEMMA ReturnGives ==
  ASSUME AInv, status = "run", Op = OP_RETURN,
         NEW q, q = views[Frame.fn].gives
  PROVE  /\ q \in {ScalarKind, Temp} /\ (q = Temp <=> Moving)
         /\ q = ScalarKind => Result.t # "vec"
         /\ View(framese).args = views[Frame.fn].outs
<1>1. VInv /\ FramesTyped /\ KindsIn(framese, Values, Kinds)
  <2>1. VInv /\ FrameArrays
    BY ONLY AInv, status = "run" DEF AInv, Arrays
  <2> QED
    BY ONLY <2>1, FrameTypes, status = "run" DEF FrameArrays
<1>2. /\ View(framese) = views[Frame.fn].at[IP] /\ framese \in 0 .. framese
      /\ ArgumentsOK(image, views, Frame.fn, IP)
      /\ ViewHeaderOK(image, views, Frame.fn)
      /\ InstructionOK(image, Frame.fn, IP)
      /\ ShapeOf(framese) = image.fns[Frame.fn].shape[IP]
      /\ OpAt(image.fns[Frame.fn], IP) = Op
  BY ONLY <1>1, InstructionViews, SameInstruction, status = "run"
<1>3. PICK kinds : kinds = View(framese).kinds
  OBVIOUS
<1>4. PICK n : n = Len(kinds)
  OBVIOUS
<1>5. /\ KindFits(kinds[n], IF q = Temp THEN Moved ELSE ScalarKind)
      /\ View(framese).args = views[Frame.fn].outs
  BY ONLY <1>2, <1>3, <1>4, Op = OP_RETURN, q = views[Frame.fn].gives
     DEF ArgumentsOK
<1>6. q \in {ScalarKind, Temp}
  BY ONLY <1>2, q = views[Frame.fn].gives DEF ViewHeaderOK
<1>7. q = Temp <=> Moving
  BY ONLY Op = OP_RETURN, q = views[Frame.fn].gives DEF Moving
<1>8. /\ n \in Nat /\ n > 0 /\ n = Len(ShapeOf(framese)) /\ kinds \in Seq(Int)
  <2>1. kinds \in Seq(Int) /\ n = Len(ShapeOf(framese))
    BY ONLY ViewFacts, <1>1, <1>2, <1>3, <1>4, status = "run"
  <2>2. n \in Nat
    BY ONLY <1>4, <2>1
  <2>3. Needs(image.fns[Frame.fn], IP) = 1
    BY ONLY <1>2, Op = OP_RETURN DEF Needs
  <2>4. 1 <= Len(image.fns[Frame.fn].shape[IP])
    BY ONLY <1>2, <2>3 DEF InstructionOK
  <2> QED
    BY ONLY <1>2, <2>1, <2>2, <2>4
<1>9. /\ Kinds[framese] = kinds
      /\ Values[framese][n] = stack[framestack[framese].base + n - 1]
      /\ Len(Kinds[framese]) = n
  <2>1. n \in 1 .. n
    BY ONLY <1>8
  <2> QED
    BY ONLY <1>1, <1>2, <1>3, <1>4, <2>1 DEF FramesTyped
<1>10. Values[framese][n] = Result
  <2>1. SP = Frame.base + n /\ Frame.base \in Nat
    BY ONLY Current, AInv, status = "run", <1>8
  <2>2. PICK b, s : b = Frame.base /\ s = SP
    OBVIOUS
  <2>3. b \in Nat /\ s = b + n /\ n \in Nat
    BY ONLY <1>8, <2>1, <2>2
  <2>4. b + n - 1 = s - 1
    BY ONLY <2>3
  <2> QED
    BY ONLY <1>9, <2>2, <2>4 DEF Frame, Result
<1>11. q = ScalarKind => Result.t # "vec"
  <2> SUFFICES ASSUME q = ScalarKind
               PROVE  Result.t # "vec"
    OBVIOUS
  <2>1. KindFits(kinds[n], ScalarKind)
    BY ONLY <1>5, q = ScalarKind DEF ScalarKind, Temp
  <2>2. IsScalar(kinds[n])
    BY ONLY <2>1 DEF KindFits, IsScalar, ScalarKind, AnyKind
  <2>3. KindHeld(Result, kinds[n])
    <3>1. n \in Known(framese, framese, Kinds)
      BY ONLY <1>8, <1>9 DEF Known
    <3> QED
      BY ONLY <1>1, <1>2, <1>9, <1>10, <3>1 DEF KindsIn
  <2> QED
    BY ONLY <2>2, <2>3 DEF KindHeld
<1> QED
  BY ONLY <1>5, <1>6, <1>7, <1>11

LEMMA ReturnRelated ==
  ASSUME AInv, VInv', status' = "run", UNCHANGED image, Return,
         NEW c, c = framese - 1, NEW n, n = Len(ShapeOf(c)),
         NEW q, q = views[Frame.fn].gives
  PROVE  /\ FramesTyped' /\ ~Moving' /\ Last' = c
         /\ ReturnMade(c, n, Values, Kinds, Asps, Rooms,
                       Values', Kinds', Asps', Rooms', Result, q)
<1>1. /\ status = "run" /\ Op = OP_RETURN
      /\ c \in Nat /\ n \in Nat /\ n > 0 /\ framese = c + 1 /\ framese' = c
      /\ \A f \in 0 .. c :
           /\ framestack'[f].asp = framestack[f].asp
           /\ framestack'[f].base = framestack[f].base
           /\ View(f)' = View(f)
      /\ \A f \in 0 .. c - 1 : Vals(f)' = Vals(f)
      /\ framestack[c].base \in Nat
      /\ \A k \in 1 .. n - 1 :
           stack'[framestack[c].base + k - 1] = stack[framestack[c].base + k - 1]
      /\ stack'[framestack[c].base + n - 1] = Result
      /\ Result \in Value
  BY ReturnMoves
<1>2. /\ q \in {ScalarKind, Temp} /\ (q = Temp <=> Moving)
      /\ q = ScalarKind => Result.t # "vec"
  BY <1>1, ReturnGives
<1>3. /\ KindFits(q, View(c).kinds[n])
      /\ q = Temp => View(c).loose = 0
  <2>1. CallersAgree
    BY ONLY AInv, <1>1 DEF AInv, Arrays
  <2>2. c \in 0 .. framese - 1 /\ framestack[c + 1].fn = Frame.fn
    BY ONLY <1>1 DEF Frame
  <2> QED
    BY ONLY <2>1, <2>2, n = Len(ShapeOf(c)), q = views[Frame.fn].gives
       DEF CallersAgree
<1>4. FrameArrays /\ FramesTyped /\ ResultMoved /\ VInv
  <2>1. FrameArrays /\ ResultMoved /\ VInv
    BY ONLY AInv, <1>1 DEF AInv, Arrays
  <2> QED
    BY ONLY <1>1, <2>1, FrameTypes
<1>5. FramesTyped'
  BY ONLY FrameTypesNext, VInv', status' = "run"
<1>6. /\ \A f \in 0 .. c : f \in 0 .. framese /\ f # framese
      /\ \A f \in 0 .. c - 1 : f \in 0 .. c /\ f # c
      /\ \A f \in 0 .. c : f \in 0 .. c - 1 \/ f = c
      /\ c \in 0 .. c /\ c \in 0 .. framese /\ c \in 0 .. framese - 1
      /\ framese - 1 = c
  BY ONLY <1>1
<1>7. View(c).kinds \in Seq(Int) /\ Len(View(c).kinds) = n /\ View(c).loose \in Nat
  BY ONLY <1>1, <1>4, <1>6, ViewFacts, n = Len(ShapeOf(c))
<1>8. ~Moving'
  <2>1. View(framese)' = View(c)
    <3>1. View(framese)' = View(c)'
      BY ONLY <1>1 DEF View
    <3> QED
      BY ONLY <1>1, <1>6, <3>1
  <2>2. View(c).kinds[n] # Moved
    BY ONLY <1>2, <1>3 DEF KindFits, Moved, Temp, ScalarKind, AnyKind
  <2>3. ~MovedLast'
    BY ONLY <1>7, <2>1, <2>2 DEF MovedLast
  <2> QED
    BY ONLY <2>3, LastKindNext, VInv', status' = "run"
<1>9. Last' = c
  BY ONLY <1>1, <1>8 DEF Last
<1>10. /\ FramesType(c + 1, Values, Kinds, Asps, Rooms)
       /\ \A f \in 0 .. c :
            /\ Values[f] = Vals(f) /\ Kinds[f] = View(f).kinds
            /\ Asps[f] = framestack[f].asp /\ Rooms[f] = Room(f)
            /\ Len(Kinds[f]) = Len(ShapeOf(f))
            /\ \A k \in 1 .. Len(Kinds[f]) :
                 Values[f][k] = stack[framestack[f].base + k - 1]
  BY ONLY <1>1, <1>4, <1>6 DEF FramesTyped
<1>11. PICK W, L, B, S : W = Values' /\ L = Kinds' /\ B = Asps' /\ S = Rooms'
  OBVIOUS
<1>12. /\ FramesType(c, W, L, B, S)
       /\ \A f \in 0 .. c :
            /\ W[f] = Vals(f)' /\ L[f] = View(f)'.kinds
            /\ B[f] = framestack'[f].asp
            /\ S[f] = framestack'[f].asp - View(f)'.loose
            /\ \A k \in 1 .. Len(L[f]) : W[f][k] = stack'[framestack'[f].base + k - 1]
  <2>1. /\ FramesType(framese, Values, Kinds, Asps, Rooms)'
        /\ \A f \in 0 .. framese' :
            /\ Values'[f] = Vals(f)' /\ Kinds'[f] = View(f)'.kinds
            /\ Asps'[f] = framestack'[f].asp /\ Rooms'[f] = Room(f)'
            /\ \A k \in 1 .. Len(Kinds'[f]) :
                 Values'[f][k] = stack'[framestack'[f].base + k - 1]
    BY ONLY <1>5 DEF FramesTyped
  <2>2. FramesType(framese', Values', Kinds', Asps', Rooms')
    BY ONLY <2>1 DEF FramesType
  <2>3. FramesType(c, W, L, B, S)
    BY ONLY <1>1, <1>11, <2>2
  <2>4. \A f : Room(f)' = framestack'[f].asp - View(f)'.loose
    BY ONLY <1>8 DEF Room
  <2> QED
    BY ONLY <1>1, <1>11, <2>1, <2>3, <2>4
<1>13. /\ KindsIn(c + 1, Values, Kinds) /\ RoomsIn(c, Asps, Rooms)
       /\ VectorsIn(c, Values, Kinds, Rooms)
       /\ TempsIn(c, c + 1, Values, Kinds, Asps)
  <2>1. /\ KindsIn(c + 1, Values, Kinds) /\ RoomsIn(Last, Asps, Rooms)
        /\ VectorsIn(Last, Values, Kinds, Rooms)
        /\ TempsIn(Last, c + 1, Values, Kinds, Asps)
    BY ONLY <1>1, <1>4 DEF FrameArrays
  <2>2. Last = c \/ Last = c + 1
    BY ONLY <1>1, <1>6 DEF Last
  <2>3. \A f \in 0 .. c : f \in 0 .. c + 1
    BY ONLY <1>1
  <2> QED
    BY ONLY <2>1, <2>2, <2>3 DEF RoomsIn, VectorsIn, TempsIn
<1>14. /\ \A f \in 0 .. c - 1 : Rooms[f] = framestack[f].asp - View(f).loose
       /\ Rooms[c] = IF q = Temp THEN Result.i ELSE framestack[c].asp - View(c).loose
  <2>1. \A f \in 0 .. c - 1 : Room(f) = framestack[f].asp - View(f).loose
    BY ONLY <1>6 DEF Room
  <2>2. Room(c) = IF Moving THEN Result.i ELSE framestack[c].asp - View(c).loose
    BY ONLY <1>6 DEF Room
  <2> QED
    BY ONLY <1>2, <1>6, <1>10, <2>1, <2>2
<1>15. \A f \in 0 .. c - 1 : W[f] = Values[f] /\ S[f] = Rooms[f]
  BY ONLY <1>1, <1>6, <1>10, <1>12, <1>14
<1>16. \A f \in 0 .. c : L[f] = Kinds[f] /\ B[f] = Asps[f]
  BY ONLY <1>1, <1>10, <1>12
<1>17. /\ Kinds[c] = View(c).kinds /\ Len(Kinds[c]) = n
       /\ \A k \in 1 .. n - 1 : W[c][k] = Values[c][k]
       /\ W[c][n] = Result
  <2>1. PICK b : b = framestack[c].base
    OBVIOUS
  <2>2. /\ Kinds[c] = View(c).kinds /\ Len(Kinds[c]) = n /\ L[c] = Kinds[c]
        /\ \A k \in 1 .. n : Values[c][k] = stack[b + k - 1]
    <3>1. /\ Kinds[c] = View(c).kinds /\ Len(Kinds[c]) = n /\ L[c] = Kinds[c]
      BY ONLY <1>6, <1>7, <1>10, <1>16
    <3>2. \A k \in 1 .. Len(Kinds[c]) : Values[c][k] = stack[framestack[c].base + k - 1]
      BY ONLY <1>6, <1>10
    <3> QED
      BY ONLY <2>1, <3>1, <3>2
  <2>3. \A k \in 1 .. n : W[c][k] = stack'[b + k - 1]
    <3>1. \A k \in 1 .. Len(L[c]) : W[c][k] = stack'[framestack'[c].base + k - 1]
      BY ONLY <1>6, <1>12
    <3>2. framestack'[c].base = b
      BY ONLY <1>1, <1>6, <2>1
    <3> QED
      BY ONLY <2>2, <3>1, <3>2
  <2>4. n \in 1 .. n /\ \A k \in 1 .. n - 1 : k \in 1 .. n
    BY ONLY <1>1
  <2> QED
    BY ONLY <1>1, <2>1, <2>2, <2>3, <2>4
<1>18. Asps[c] \in Int /\ Asps[c] = framestack[c].asp
       /\ S[c] = framestack[c].asp - View(c).loose
  <2>1. Asps[c] \in Int
    <3>1. c \in 0 .. c + 1
      BY ONLY <1>1
    <3> QED
      BY ONLY <1>10, <3>1 DEF FramesType
  <2> QED
    BY ONLY <1>1, <1>6, <1>10, <1>12, <2>1
<1>19. PICK a, l : a = Asps[c] /\ l = View(c).loose
  OBVIOUS
<1>20. S[c] = a - l /\ a \in Int /\ l \in Nat /\ Rooms[c] <= a
  <2>1. Rooms[c] <= Asps[c]
    BY ONLY <1>6, <1>13 DEF RoomsIn
  <2> QED
    BY ONLY <1>7, <1>18, <1>19, <2>1
<1>21. Rooms[c] <= S[c] /\ S[c] <= Asps[c]
  <2>1. CASE q = Temp
    <3>1. S[c] = a
      BY ONLY <1>3, <1>19, <1>20, <2>1
    <3> QED
      BY ONLY <1>19, <1>20, <3>1
  <2>2. CASE q # Temp
    <3>1. Rooms[c] = S[c]
      BY ONLY <1>14, <1>18, <2>2
    <3> QED
      BY ONLY <1>19, <1>20, <3>1
  <2> QED
    BY ONLY <2>1, <2>2
<1>22. q = Temp => /\ Result.t = "vec" /\ Result.i = Rooms[c]
                   /\ 0 <= Result.n /\ Result.i + Result.n = S[c]
  <2> SUFFICES ASSUME q = Temp
               PROVE  /\ Result.t = "vec" /\ Result.i = Rooms[c]
                      /\ 0 <= Result.n /\ Result.i + Result.n = S[c]
    OBVIOUS
  <2>1. /\ Result.t = "vec" /\ 0 <= Result.n
        /\ Result.i + Result.n = framestack[c].asp
    BY ONLY <1>2, <1>4, <1>6, q = Temp DEF ResultMoved
  <2>2. S[c] = a
    BY ONLY <1>3, <1>19, <1>20, q = Temp
  <2> QED
    BY ONLY <1>14, <1>18, <1>19, <2>1, <2>2, q = Temp
<1>23. ReturnMade(c, n, Values, Kinds, Asps, Rooms, W, L, B, S, Result, q)
  BY ONLY <1>1, <1>2, <1>3, <1>10, <1>12, <1>13, <1>15, <1>16, <1>17, <1>21, <1>22
     DEF ReturnMade
<1> QED
  BY ONLY <1>5, <1>8, <1>9, <1>11, <1>23

LEMMA ReturnArrays ==
  ASSUME AInv, VInv', status' = "run", UNCHANGED image, Return
  PROVE  Arrays' /\ Arguments'
<1>1. PICK c : c = framese - 1
  OBVIOUS
<1>2. PICK n, q : n = Len(ShapeOf(c)) /\ q = views[Frame.fn].gives
  OBVIOUS
<1>3. /\ status = "run" /\ Op = OP_RETURN
      /\ c \in Nat /\ framese = c + 1 /\ framese' = c
      /\ UNCHANGED << astack, argstack, argsp, argasp >>
      /\ \A f \in 0 .. c :
           /\ framestack'[f].fn = framestack[f].fn
           /\ View(f)' = View(f) /\ ShapeOf(f)' = ShapeOf(f)
           /\ Blind(f)' = Blind(f)
  BY <1>1, <1>2, ReturnMoves
<1>4. View(framese).args = views[Frame.fn].outs
  BY <1>3, <1>2, ReturnGives
<1>5. /\ FramesTyped' /\ ~Moving' /\ Last' = c
      /\ ReturnMade(c, n, Values, Kinds, Asps, Rooms,
                    Values', Kinds', Asps', Rooms', Result, q)
  BY ONLY <1>1, <1>2, ReturnRelated, AInv, VInv', status' = "run",
          UNCHANGED image, Return, SMTT(40)
<1>6. /\ CallersAgree /\ BlindAbove /\ GlobalsAgree /\ ArgsAgree
      /\ CopiesIn(framese, Values, Kinds, argasp) /\ CopiesStacked
  BY ONLY AInv, <1>3 DEF AInv, Arrays, Arguments
<1>7. /\ \A f \in 0 .. c : f \in 0 .. framese
      /\ \A f \in 0 .. c - 1 : /\ f \in 0 .. c /\ f + 1 \in 0 .. c /\ f # c
                               /\ f \in 0 .. framese - 1 /\ f # framese
      /\ \A f \in 0 .. c : f \in 0 .. c - 1 \/ f = c
      /\ c \in 0 .. c /\ c \in 0 .. framese - 1 /\ c \in 0 .. framese
      /\ framese \in 0 .. framese /\ c # framese
  BY ONLY <1>3
<1>8. PICK W, L, B, S : W = Values' /\ L = Kinds' /\ B = Asps' /\ S = Rooms'
  OBVIOUS
<1>9. PICK v : v = Result
  OBVIOUS
<1>10. /\ KindsIn(c, W, L) /\ RoomsIn(c, B, S) /\ VectorsIn(c, W, L, S)
       /\ TempsIn(c, c, W, L, B)
       /\ \A low : CopiesIn(c + 1, Values, Kinds, low) => CopiesIn(c, W, L, low)
  <2>1. ReturnMade(c, n, Values, Kinds, Asps, Rooms, W, L, B, S, v, q)
    BY ONLY <1>5, <1>8, <1>9
  <2> QED
    BY ONLY <2>1, ReturnFrames, SMTT(40)
<1>11. FrameArrays'
  <2>1. /\ KindsIn(framese, Values, Kinds)' /\ RoomsIn(Last, Asps, Rooms)'
        /\ VectorsIn(Last, Values, Kinds, Rooms)'
        /\ TempsIn(Last, framese, Values, Kinds, Asps)'
    BY ONLY <1>3, <1>5, <1>8, <1>10 DEF KindsIn, RoomsIn, VectorsIn, TempsIn, Known
  <2> QED
    BY ONLY <2>1 DEF FrameArrays
<1>12. CopiesIn(framese, Values, Kinds, argasp)'
  <2>1. CopiesIn(c + 1, Values, Kinds, argasp)
    BY ONLY <1>3, <1>6
  <2>2. PICK low : low = argasp
    OBVIOUS
  <2>3. CopiesIn(c, W, L, low)
    BY ONLY <1>10, <2>1, <2>2
  <2> QED
    BY ONLY <1>3, <1>8, <2>2, <2>3 DEF CopiesIn, Known
<1>13. CallersAgree'
  <2>1. ASSUME NEW f \in 0 .. c - 1
        PROVE  LET callee == views[framestack'[f + 1].fn]
               IN  /\ KindFits(callee.gives, View(f)'.kinds[Len(ShapeOf(f)')])
                   /\ callee.gives = Temp => View(f)'.loose = 0
                   /\ ~callee.blind => View(f)'.args = callee.outs
                   /\ callee.reach <= Len(ShapeOf(f)')
    <3>1. /\ framestack'[f + 1].fn = framestack[f + 1].fn
          /\ View(f)' = View(f) /\ ShapeOf(f)' = ShapeOf(f)
          /\ f \in 0 .. framese - 1
      BY ONLY <1>3, <1>7, f \in 0 .. c - 1
    <3> QED
      BY ONLY <1>6, <3>1 DEF CallersAgree
  <2> QED
    BY ONLY <1>3, <2>1 DEF CallersAgree
<1>14. BlindAbove'
  <2> SUFFICES ASSUME NEW f \in 0 .. c, NEW g \in 0 .. c, f < g, ~Blind(g)'
               PROVE  ~Blind(f)' /\ NoneIn(Copied, View(f)'.kinds)
    BY <1>3 DEF BlindAbove
  <2>1. /\ Blind(f)' = Blind(f) /\ Blind(g)' = Blind(g) /\ View(f)' = View(f)
        /\ f \in 0 .. framese /\ g \in 0 .. framese
    BY ONLY <1>3, <1>7, f \in 0 .. c, g \in 0 .. c
  <2> QED
    BY ONLY <1>6, <2>1, f < g, ~Blind(g)' DEF BlindAbove
<1>15. GlobalsAgree'
  <2>1. c > 1 => framese > 1 /\ View(1)' = View(1)
    <3>1. c > 1 => framese > 1 /\ 1 \in 0 .. c
      BY ONLY <1>3
    <3> QED
      BY ONLY <1>3, <3>1
  <2> QED
    BY ONLY <1>3, <1>6, <2>1 DEF GlobalsAgree
<1>16. ScalarElements'
  BY <1>3, SameElements
<1>17. ResultMoved'
  BY ONLY <1>5 DEF ResultMoved
<1>18. ASSUME NEW f \in 0 .. c, ~Blind(f), f = c \/ Blind(f + 1)
       PROVE  /\ argsp = Len(View(f).args)
              /\ \A k \in 1 .. argsp :
                   View(f).args[k] = 1 <=> argstack[k - 1].t = "vec"
  <2>1. CASE Blind(f + 1)
    BY ONLY <1>6, <1>7, <1>18, <2>1, f \in 0 .. c DEF ArgsAgree
  <2>2. CASE ~Blind(f + 1)
    <3>1. f = c /\ f + 1 = framese
      BY ONLY <1>3, <1>18, <2>2
    <3>2. ~Blind(framese) /\ ~views[Frame.fn].blind
      BY ONLY <2>2, <3>1 DEF Blind, Frame
    <3>3. View(c).args = views[Frame.fn].outs
      <4>1. framestack[c + 1].fn = Frame.fn
        BY ONLY <1>3 DEF Frame
      <4> QED
        BY ONLY <1>6, <1>7, <3>2, <4>1 DEF CallersAgree
    <3>4. View(f).args = View(framese).args
      BY ONLY <1>4, <3>1, <3>3
    <3> QED
      BY ONLY <1>6, <1>7, <3>2, <3>4 DEF ArgsAgree
  <2> QED
    BY ONLY <2>1, <2>2
<1>19. ArgsAgree'
  <2> SUFFICES ASSUME NEW f \in 0 .. c, ~Blind(f)', f = c \/ Blind(f + 1)'
               PROVE  /\ argsp = Len(View(f)'.args)
                      /\ \A k \in 1 .. argsp :
                           View(f)'.args[k] = 1 <=> argstack[k - 1].t = "vec"
    BY <1>3 DEF ArgsAgree
  <2>1. ~Blind(f) /\ (f = c \/ Blind(f + 1)) /\ View(f)' = View(f)
    BY ONLY <1>3, <1>7, f \in 0 .. c, ~Blind(f)', f = c \/ Blind(f + 1)'
  <2> QED
    BY ONLY <1>18, <2>1, f \in 0 .. c
<1>20. CopiesStacked'
  BY ONLY <1>3, <1>6 DEF CopiesStacked
<1>21. Arrays'
  BY ONLY <1>11, <1>13, <1>14, <1>15, <1>16, <1>17 DEF Arrays
<1> QED
  BY ONLY <1>12, <1>19, <1>20, <1>21 DEF Arguments
-----------------------------------------------------------------------------
(* The machine.                                                             *)

(* It starts with an empty frame of the root.                               *)
LEMMA InitAInv ==
  ASSUME Init, WellFormed(image), ArraysWellFormed(image, views)
  PROVE  AInv
<1>1. DInv /\ VInv /\ status = "run"
  BY InitDInv DEF VInv, Init
<1>2. /\ framese = 0 /\ 0 .. framese = {0} /\ 0 .. framese - 1 = {}
      /\ framestack[0] = NoFrame /\ StackMax \in Nat
      /\ argsp = 0 /\ argasp = StackMax /\ astack = [c \in CellIndex |-> Junk]
  BY SizesAssumption DEF Init, FrameIndex
<1>3. /\ ViewHeaderOK(image, views, 1) /\ View(0) = views[1].at[0]
      /\ Len(View(0).kinds) = Len(ShapeOf(0)) /\ View(0).kinds \in Seq(Int)
  <2>1. 0 \in 0 .. framese
    BY ONLY <1>2
  <2>2. /\ ViewHeaderOK(image, views, framestack[0].fn)
        /\ View(0).kinds \in Seq(Int) /\ Len(View(0).kinds) = Len(ShapeOf(0))
    BY ONLY <1>1, <2>1, ViewFacts
  <2>3. framestack[0].fn = 1 /\ framestack[0].ip = 0
    BY ONLY <1>2 DEF NoFrame, root
  <2> QED
    BY ONLY <2>2, <2>3 DEF View
<1>4. Len(ShapeOf(0)) = 0
  <2>1. 1 \in DOMAIN image.fns /\ HeaderOK(image, 1) /\ image.fns[1].arity = 0
    BY <1>1 DEF DInv, IInv, TypeOK, IsImage, WellFormed
  <2>2. image.fns[1].shape[0] = [k \in 1 .. 0 |-> 0]
    BY <2>1 DEF HeaderOK
  <2>3. image.fns[1].shape[0] = << >>
    BY <2>2
  <2> QED
    BY <1>2, <2>3 DEF Fn, ShapeOf, NoFrame, root
<1>5. View(0).loose = 0 /\ View(0).args = << >> /\ Len(View(0).kinds) = 0
  BY ONLY <1>3, <1>4 DEF ViewHeaderOK
<1>6. ~Moving
  <2>1. NoneIn(Moved, View(framese).kinds)
    BY ONLY <1>2, <1>5 DEF NoneIn
  <2> QED
    BY ONLY <1>1, <2>1, NotMoving
<1>7. /\ FramesTyped /\ Last = 0 /\ Len(Kinds[0]) = 0 /\ Kinds[0] = View(0).kinds
      /\ Asps[0] = 0 /\ Rooms[0] = 0
  <2>1. FramesTyped /\ 0 \in 0 .. framese
    BY ONLY <1>1, <1>2, FrameTypes
  <2>2. Room(0) = 0
    BY ONLY <1>2, <1>5, <1>6 DEF Room, NoFrame
  <2>3. Last = 0
    BY ONLY <1>2, <1>6 DEF Last
  <2> QED
    BY ONLY <1>2, <1>5, <2>1, <2>2, <2>3 DEF FramesTyped, NoFrame
<1>8. FrameArrays
  <2>1. KindsIn(framese, Values, Kinds)
    BY ONLY <1>2, <1>7 DEF KindsIn, Known
  <2>2. RoomsIn(Last, Asps, Rooms)
    BY ONLY <1>7 DEF RoomsIn
  <2>3. VectorsIn(Last, Values, Kinds, Rooms)
    BY ONLY <1>7 DEF VectorsIn
  <2>4. TempsIn(Last, framese, Values, Kinds, Asps)
    BY ONLY <1>2, <1>7 DEF TempsIn, Known
  <2> QED
    BY ONLY <2>1, <2>2, <2>3, <2>4 DEF FrameArrays
<1>9. CallersAgree
  BY ONLY <1>2 DEF CallersAgree
<1>10. BlindAbove
  <2>1. \A f, g \in 0 .. framese : ~(f < g)
    BY ONLY <1>2
  <2> QED
    BY ONLY <2>1 DEF BlindAbove
<1>11. GlobalsAgree
  BY ONLY <1>2 DEF GlobalsAgree
<1>12. ScalarElements
  BY ONLY <1>2 DEF ScalarElements, Junk
<1>13. Arrays
  BY ONLY <1>6, <1>8, <1>9, <1>10, <1>11, <1>12 DEF Arrays, ResultMoved
<1>14. ArgsAgree
  <2>1. Len(View(0).args) = 0
    BY ONLY <1>5
  <2> QED
    BY ONLY <1>2, <2>1 DEF ArgsAgree
<1>15. CopiesIn(framese, Values, Kinds, argasp)
  BY ONLY <1>2, <1>7 DEF CopiesIn, Known
<1>16. CopiesStacked
  BY ONLY <1>2 DEF CopiesStacked
<1> QED
  BY ONLY <1>1, <1>13, <1>14, <1>15, <1>16 DEF AInv, Arguments

(* Every turn of the loop keeps AInv.                                       *)
LEMMA NextAInv == AInv /\ [Next]_vars => AInv'
<1> SUFFICES ASSUME AInv, [Next]_vars
             PROVE  AInv'
  OBVIOUS
<1>1. DInv' /\ UNCHANGED image
  BY NextDInv DEF AInv, VInv, Next, Execute, Returned, vars
<1>2. VInv'
  <2>1. ArraysWellFormed(image, views)
    BY DEF AInv, VInv
  <2> QED
    BY <1>1, <2>1 DEF VInv
<1>3. ASSUME status' = "run"
      PROVE  Arrays' /\ Arguments'
  <2>1. CASE Execute /\ Step
    <3>1. ~Halt /\ ~BadCode
      BY <1>3 DEF Halt, BadCode, Wild, runtime_error
    <3>2. Step /\ UNCHANGED image
      BY <1>1, <2>1
    <3> QED
      BY ONLY AInv, <1>2, <1>3, <3>1, <3>2, LoadConstantArrays,
         PlainPushArrays, OperatorArrays, JumpArrays, PopArrays, LocAlinkArrays,
         PopaArrays, WriteArrays, SetIndexArrays, GetLocalArrays,
         SetLocalArrays, GetIndexArrays, ArgstackPeekArrays,
         ArgstackLoadArrays, ArgstackUnloadArrays, CallArrays, ShiftArrays,
         ReturnArrays
      DEF Step
  <2>2. CASE Execute /\ Read
    BY <1>1, <1>2, <1>3, <2>2, PlainPushArrays
  <2>3. CASE UNCHANGED vars
    <3>1. Arrays /\ Arguments
      BY <1>3, <2>3 DEF AInv, vars
    <3>2. /\ framese' = framese /\ framestack' = framestack /\ stack' = stack
          /\ astack' = astack /\ argstack' = argstack /\ argsp' = argsp
          /\ argasp' = argasp /\ image' = image
      BY <2>3 DEF vars
    <3>3. /\ Values' = Values /\ Kinds' = Kinds /\ Asps' = Asps /\ SP' = SP
          /\ Frame' = Frame /\ Moving' = Moving /\ Op' = Op
      BY <3>2, Zenon DEF Values, Kinds, Asps, SP, Frame, Moving, Vals, View,
         ShapeOf, Fn, Op, Code, IP
    <3>4. Result' = Result /\ Last' = Last
      BY <3>2, <3>3, Zenon DEF Result, Last
    <3>5. Rooms' = Rooms
      BY <3>2, <3>3, <3>4, Zenon DEF Rooms, Room, View
    <3> QED
      BY <3>1, <3>2, <3>3, <3>4, <3>5, ZenonT(60)
      DEF Arrays, Arguments, FrameArrays, CallersAgree, BlindAbove,
          GlobalsAgree, ScalarElements, ResultMoved, ArgsAgree, CopiesStacked,
          View, Blind, ShapeOf, Fn
  <2> QED
    BY <2>1, <2>2, <2>3 DEF Next, Execute, Returned
<1> QED
  BY <1>2, <1>3 DEF AInv

(* What a vector of the value stack points to is held: the kinds say among  *)
(* which cells.                                                             *)
LEMMA CellHeld ==
  ASSUME AInv, status = "run", Op # OP_RETURN,
         NEW c \in 0 .. (SP - 1), stack[c].t = "vec"
  PROVE  Held(stack[c], ASP)
<1>1. /\ FramesTyped /\ VInv /\ DInv /\ KindsIn(framese, Values, Kinds)
      /\ CopiesIn(framese, Values, Kinds, argasp)
  BY CalmFacts DEF AInv, VInv, Arguments
<1>2. /\ ASP \in Int /\ SP \in Int /\ View(framese).loose \in Nat
      /\ framese \in Nat
  BY ONLY AInv, status = "run", <1>1, Current, InstructionViews
<1>3. c \in Nat /\ c < SP
  BY ONLY <1>2, c \in 0 .. (SP - 1)
<1>4. PICK f \in 0 .. framese : \E j \in 1 .. Len(ShapeOf(f)) :
        c = framestack[f].base + j - 1
  BY ONLY <1>1, <1>3, status = "run", CellFound DEF InFrames
<1>5. PICK k \in 1 .. Len(ShapeOf(f)) : c = framestack[f].base + k - 1
  BY ONLY <1>4
<1>6. PICK v : v = stack[c]
  OBVIOUS
<1>7. v = stack[framestack[f].base + k - 1] /\ v.t = "vec"
  BY ONLY <1>5, <1>6, stack[c].t = "vec"
<1>8. /\ k \in 1 .. Len(Kinds[f]) /\ Len(Kinds[f]) = Len(ShapeOf(f))
      /\ v = Values[f][k] /\ View(f).kinds[k] = Kinds[f][k]
  BY ONLY <1>1, <1>4, <1>5, <1>7 DEF FramesTyped
<1>9. CASE Kinds[f][k] = Copied
  <2>1. k \in Known(f, framese, Kinds)
    <3>1. CASE f = framese
      BY ONLY <1>8, <3>1 DEF Known
    <3>2. CASE f # framese
      <4>1. f \in 0 .. framese - 1
        BY ONLY <1>2, <1>4, <3>2
      <4>2. Len(Kinds[f]) \in Nat
        <5>1. Kinds[f] \in Seq(Int)
          BY ONLY <1>1, <1>4 DEF FramesTyped, FramesType
        <5> QED
          BY ONLY <5>1
      <4>3. k # Len(Kinds[f])
        BY ONLY <1>1, <1>7, <1>8, <4>1 DEF KindsIn
      <4> QED
        BY ONLY <1>8, <3>2, <4>2, <4>3 DEF Known
    <3> QED
      BY ONLY <3>1, <3>2
  <2>2. VecIn(v, argasp, StackMax)
    BY ONLY <1>1, <1>4, <1>8, <1>9, <2>1 DEF CopiesIn
  <2> QED
    BY ONLY <1>6, <2>2 DEF Held, VecIn
<1>10. CASE Kinds[f][k] # Copied
  <2>1. Lower(v, View(f).kinds[k])
    BY ONLY <1>7, <1>8, <1>10 DEF Lower
  <2>2. VecIn(v, 0, ASP - View(framese).loose)
    BY ONLY AInv, status = "run", Op # OP_RETURN, <1>4, <1>5, <1>7, <2>1, VectorOf
  <2>3. v \in Value
    <3>1. stack \in [CellIndex -> Value]
      BY ONLY <1>1 DEF DInv, IInv, TypeOK
    <3>2. c \in CellIndex
      <4>1. SP <= StackMax
        BY ONLY AInv, status = "run", Current
      <4> QED
        BY ONLY <1>2, <1>3, <4>1, SizesAssumption DEF CellIndex
    <3> QED
      BY ONLY <1>6, <3>1, <3>2
  <2>4. v.i \in Int /\ v.n \in Int
    BY ONLY <2>3, ValueFields
  <2>5. PICK a, l : a = ASP /\ l = View(framese).loose
    OBVIOUS
  <2>6. 0 <= v.i /\ v.i + v.n <= a - l /\ a \in Int /\ l \in Nat
    BY ONLY <1>2, <2>2, <2>5 DEF VecIn
  <2>7. 0 <= v.i /\ v.i + v.n <= a
    BY ONLY <2>4, <2>6
  <2> QED
    BY ONLY <1>6, <2>5, <2>7 DEF Held
<1> QED
  BY ONLY <1>9, <1>10

(* At a return the result is a scalar, or it has moved.                     *)
LEMMA ResultHeld ==
  ASSUME AInv, status = "run", Op = OP_RETURN, Result.t = "vec"
  PROVE  Held(Result, framestack[framese - 1].asp)
<1>1. Moving /\ VInv /\ DInv
  <2>1. PICK q : q = views[Frame.fn].gives
    OBVIOUS
  <2>2. q \in {ScalarKind, Temp} /\ (q = Temp <=> Moving)
        /\ (q = ScalarKind => Result.t # "vec")
    BY ONLY AInv, status = "run", Op = OP_RETURN, <2>1, ReturnGives
  <2> QED
    BY ONLY AInv, Result.t = "vec", <2>2 DEF AInv, VInv
<1>2. /\ ResultMoved /\ RoomsIn(Last, Asps, Rooms) /\ FramesTyped
  BY ONLY AInv, status = "run", <1>1, FrameTypes DEF AInv, Arrays, FrameArrays
<1>3. framese \in Nat /\ framese # 0
  <2>1. Frame.fn # 1 /\ framese \in 0 .. framese /\ framese \in Nat
    <3>1. /\ InstructionOK(image, Frame.fn, IP)
          /\ OpAt(image.fns[Frame.fn], IP) = Op
          /\ framese \in 0 .. framese /\ framese \in Nat
      BY ONLY <1>1, InstructionViews, SameInstruction, status = "run"
    <3> QED
      BY ONLY <3>1, Op = OP_RETURN DEF InstructionOK, ReturnOK
  <2>2. FramesKnown
    BY ONLY <1>1, status = "run" DEF DInv, FrameInv, Discipline
  <2> QED
    BY ONLY <2>1, <2>2 DEF FramesKnown, Frame
<1>4. PICK c : c = framese - 1
  OBVIOUS
<1>5. Last = c /\ c \in 0 .. c /\ c \in 0 .. framese /\ framese - 1 = c
  BY ONLY <1>1, <1>3, <1>4 DEF Last
<1>6. Rooms[c] = Result.i
  <2>1. Rooms[c] = Room(c)
    BY ONLY <1>2, <1>5 DEF FramesTyped
  <2> QED
    BY ONLY <1>1, <1>5, <2>1 DEF Room
<1>7. 0 <= Result.i
  <2>1. 0 <= Rooms[c]
    BY ONLY <1>2, <1>5 DEF RoomsIn
  <2> QED
    BY ONLY <1>6, <2>1
<1>8. /\ Result.i + Result.n = framestack[framese - 1].asp
      /\ framestack[framese - 1].asp \in Int
  <2>1. framestack[c].asp = Asps[c] /\ Asps[c] \in Int
    BY ONLY <1>2, <1>5 DEF FramesTyped, FramesType
  <2> QED
    BY ONLY <1>1, <1>2, <1>5, <2>1 DEF ResultMoved
<1> QED
  BY ONLY <1>7, <1>8 DEF Held

(* What vm_run and the handlers of OP_RETURN, OP_GET_INDEX, OP_WRITE and    *)
(* OP_SET_INDEX_LOCAL_LONG rely on when they read elements through a        *)
(* pointer into astack: in every program whose code agrees with the views,  *)
(* whatever its length, the depth of its calls and the sizes of the stacks, *)
(* a vector of the value stack has not been given up to what is pushed      *)
(* next.                                                                    *)
THEOREM VMVectorsLive ==
  Spec /\ WellFormed(image) /\ ArraysWellFormed(image, views)
    => []VectorsLive
<1>1. Init /\ WellFormed(image) /\ ArraysWellFormed(image, views) => AInv
  BY InitAInv
<1>2. Spec /\ WellFormed(image) /\ ArraysWellFormed(image, views) => []AInv
  BY <1>1, NextAInv, PTL DEF Spec
<1>3. AInv => VectorsLive
  <2> SUFFICES ASSUME AInv, status = "run"
               PROVE  VectorsLive
    BY DEF VectorsLive
  <2>1. CASE Op = OP_RETURN
    BY ONLY AInv, status = "run", <2>1, ResultHeld DEF VectorsLive, Result
  <2>2. CASE Op # OP_RETURN
    BY ONLY AInv, status = "run", <2>2, CellHeld DEF VectorsLive
  <2> QED
    BY ONLY <2>1, <2>2
<1> QED
  BY <1>2, <1>3, PTL

-----------------------------------------------------------------------------
(* What else follows for the handlers.                                      *)

(* The end of the array stack is within it.                                 *)
LEMMA ArraysBegin ==
  ASSUME AInv, status = "run", Op # OP_RETURN
  PROVE  0 <= ASP /\ ASP \in Int /\ SP \in Int /\ SP >= 0
<1>1. /\ FramesTyped /\ VInv /\ RoomsIn(framese, Asps, Rooms)
  BY CalmFacts
<1>2. framese \in 0 .. framese
  BY ONLY <1>1, InstructionViews, status = "run"
<1>3. 0 <= Rooms[framese] /\ Rooms[framese] <= Asps[framese]
  BY ONLY <1>1, <1>2 DEF RoomsIn
<1>4. Rooms[framese] \in Int /\ Asps[framese] = ASP /\ ASP \in Int
  <2>1. Rooms \in [0 .. framese -> Int] /\ Asps[framese] = framestack[framese].asp
    BY ONLY <1>1, <1>2 DEF FramesTyped, FramesType
  <2> QED
    BY ONLY AInv, status = "run", <1>2, <2>1, Current DEF ASP, Frame
<1>5. SP \in Int /\ SP >= 0
  <2>1. PICK b, len : b = Frame.base /\ len = Len(ShapeOf(framese))
    OBVIOUS
  <2>2. b \in Nat /\ len \in Nat /\ SP = b + len
    BY ONLY AInv, status = "run", <2>1, Current
  <2> QED
    BY ONLY <2>2
<1>6. PICK r, a : r = Rooms[framese] /\ a = ASP
  OBVIOUS
<1>7. 0 <= r /\ r <= a /\ r \in Int /\ a \in Int
  BY ONLY <1>3, <1>4, <1>6
<1>8. 0 <= a
  BY ONLY <1>7
<1> QED
  BY ONLY <1>4, <1>5, <1>6, <1>8

(* A vector element always finds room above the bottom of the array stack,  *)
(* ...                                                                      *)
LEMMA PopToAstackTame == ASSUME AInv, PopToAstack PROVE status' # "wild"
<1>1. status = "run" /\ Op = OP_POP_TO_ASTACK
  BY DEF PopToAstack, Fetch
<1>2. ~(ASP < 0)
  <2>1. Op # OP_RETURN
    BY ONLY <1>1 DEF OP_POP_TO_ASTACK, OP_RETURN
  <2> QED
    BY ONLY AInv, <1>1, <2>1, ArraysBegin
<1> QED
  BY ONLY <1>1, <1>2, PopToAstack DEF PopToAstack, runtime_error

(* ... an index is applied to a vector of as many dimensions, ...           *)
LEMMA GetIndexTame == ASSUME AInv, GetIndex PROVE status' # "wild"
<1>1. status = "run" /\ Op = OP_GET_INDEX /\ VInv /\ DInv
      /\ Fetch(OP_GET_INDEX)
  BY DEF GetIndex, Fetch, AInv, VInv
<1>2. Op # OP_RETURN /\ Op \notin Peeks
  BY ONLY <1>1 DEF Peeks, OP_GET_INDEX, OP_RETURN, OP_SKIPF_LONG,
       OP_SHIFT_ASTACKENT_TO_BASE
<1>3. PICK n, rank : n = Arg(1) /\ rank = Arg(2)
  OBVIOUS
<1>4. PICK sp : sp = SP - rank - n - 1
  OBVIOUS
<1>5. n \in Nat /\ rank \in Nat
  BY <1>1, <1>3, HandlerFacts, Operands DEF DInv, TwoOperandBytes
<1>6. ~(sp < 0)
  <2>1. PICK p : p = n + rank + 1
    OBVIOUS
  <2>2. Effect(p, << 0 >>)
    <3>1. Effect(Arg(1) + Arg(2) + 1, << 0 >>)
      BY ONLY <1>1, Effects
    <3> QED
      BY ONLY <1>3, <2>1, <3>1
  <2>3. PICK b, len : b = Frame.base /\ len = Len(ShapeOf(framese))
    OBVIOUS
  <2>4. b \in Nat /\ len \in Nat /\ SP = b + len
    BY ONLY AInv, <1>1, <2>3, Current
  <2>5. p \in Nat
    BY ONLY <1>5, <2>1
  <2>6. Pops(Fn(framese), IP) = p
    BY ONLY <2>2 DEF Effect
  <2>7. p <= len
    BY ONLY <1>1, <1>2, <2>3, <2>5, <2>6, <2>2, EnoughThere
  <2> QED
    BY ONLY <1>4, <1>5, <2>1, <2>4, <2>7
<1>7. ~(n > rank)
  <2>1. /\ ElementsOK(image, views, Frame.fn, IP)
        /\ OpAt(image.fns[Frame.fn], IP) = Op
        /\ ArgAt(image.fns[Frame.fn], IP, 1) = Arg(1)
        /\ ArgAt(image.fns[Frame.fn], IP, 2) = Arg(2)
    BY ONLY <1>1, InstructionViews, SameInstruction
  <2>2. n <= rank
    BY ONLY <1>1, <1>3, <2>1 DEF ElementsOK
  <2> QED
    BY ONLY <1>5, <2>2
<1>8. ~(ASP < 0)
  BY ONLY AInv, <1>1, <1>2, ArraysBegin
<1>9. ASSUME NEW v, NEW k, pushv(NextIP, sp, k, v)
      PROVE  status' # "wild"
  BY ONLY <1>1, <1>6, <1>9 DEF pushv
<1> QED
  BY ONLY <1>1, <1>3, <1>4, <1>6, <1>7, <1>8, <1>9, GetIndex
     DEF GetIndex, runtime_error

(* ... and there are as many arguments to take back as were left.           *)
LEMMA ArgumentThere ==
  ASSUME AInv, status = "run", Op \in {OP_ARGSTACK_PEEK, OP_ARGSTACK_UNLOAD}
  PROVE  argsp # 0 /\ Op # OP_RETURN
<1>1. PICK args : args = View(framese).args
  OBVIOUS
<1>2. VInv /\ DInv
  BY ONLY AInv DEF AInv, VInv
<1>3. ~views[Frame.fn].blind /\ args # << >> /\ args \in Seq({0, 1})
  <2>1. /\ ArgumentsOK(image, views, Frame.fn, IP)
        /\ View(framese) = views[Frame.fn].at[IP]
        /\ OpAt(image.fns[Frame.fn], IP) = Op
    BY ONLY <1>2, InstructionViews, SameInstruction, status = "run"
  <2>2. args \in Seq({0, 1})
    BY ONLY <1>1, Current, AInv, status = "run"
  <2> QED
    BY ONLY Op \in {OP_ARGSTACK_PEEK, OP_ARGSTACK_UNLOAD}, <1>1, <2>1, <2>2
       DEF ArgumentsOK
<1>4. argsp = Len(args)
  BY ONLY <1>1, <1>3, ArgsKnown, AInv, status = "run"
<1>5. Op # OP_RETURN
  BY ONLY Op \in {OP_ARGSTACK_PEEK, OP_ARGSTACK_UNLOAD}
     DEF OP_ARGSTACK_PEEK, OP_ARGSTACK_UNLOAD, OP_RETURN
<1> QED
  BY ONLY <1>3, <1>4, <1>5

LEMMA ArgstackTame ==
  ASSUME AInv, ArgstackPeek \/ ArgstackUnload
  PROVE  status' # "wild"
<1>1. CASE ArgstackPeek
  <2>1. status = "run" /\ Op = OP_ARGSTACK_PEEK
    BY ONLY <1>1 DEF ArgstackPeek, Fetch
  <2>2. argsp # 0 /\ Op # OP_RETURN
    BY ONLY AInv, <2>1, ArgumentThere
  <2>3. ~(SP < 0)
    BY ONLY AInv, <2>1, <2>2, ArraysBegin
  <2> QED
    BY ONLY <1>1, <2>1, <2>2, <2>3 DEF ArgstackPeek, pushv
<1>2. CASE ArgstackUnload
  <2>1. status = "run" /\ Op = OP_ARGSTACK_UNLOAD
    BY ONLY <1>2 DEF ArgstackUnload, Fetch
  <2>2. argsp # 0
    BY ONLY AInv, <2>1, ArgumentThere
  <2> QED
    BY ONLY <1>2, <2>1, <2>2 DEF ArgstackUnload
<1> QED
  BY ONLY <1>1, <1>2, ArgstackPeek \/ ArgstackUnload

(* The handlers that fetch one of these four opcodes.                       *)
TameOps == VectorOps \ {OP_SET_INDEX_LOCAL_LONG, OP_SHIFT_ASTACKENT_TO_BASE,
                        OP_ARGSTACK_LOAD}

LEMMA TameHandlers ==
  ASSUME Op \in TameOps, Step \/ Read
  PROVE  PopToAstack \/ GetIndex \/ ArgstackPeek \/ ArgstackUnload \/ BadCode
<1>1. Op \in {OP_POP_TO_ASTACK, OP_GET_INDEX, OP_ARGSTACK_PEEK, OP_ARGSTACK_UNLOAD}
  BY DEF TameOps, VectorOps
<1>2. \A op : Fetch(op) => Op = op
  BY DEF Fetch
<1>3. /\ Op \notin LoadOps \cup BinaryOps
      /\ Op \notin {OP_LOC_ALINK_LONG, OP_PUSH_BYTE, OP_ZERO, OP_ONE, OP_FALSE,
                    OP_TRUE, OP_EMPTY_STRING, OP_READ, OP_NOT, OP_SKIP_LONG,
                    OP_SKIP_BACK_LONG, OP_SKIPF_LONG, OP_POPV, OP_POPA,
                    OP_ASTACK_SHIFT_UP, OP_GET_LOCAL_LONG, OP_SET_LOCAL_LONG,
                    OP_SET_INDEX_LOCAL_LONG, OP_WRITE, OP_NEWLINE, OP_CALL,
                    OP_SHIFT_ASTACKENT_TO_BASE, OP_RETURN, OP_ARGSTACK_LOAD,
                    OP_HALT}
  BY <1>1
  DEF LoadOps, BinaryOps, OP_POP_TO_ASTACK, OP_GET_INDEX, OP_ARGSTACK_PEEK,
      OP_ARGSTACK_UNLOAD, OP_LOC_ALINK_LONG, OP_PUSH_BYTE, OP_ZERO, OP_ONE,
      OP_FALSE, OP_TRUE, OP_EMPTY_STRING, OP_READ, OP_NOT, OP_SKIP_LONG,
      OP_SKIP_BACK_LONG, OP_SKIPF_LONG, OP_POPV, OP_POPA, OP_ASTACK_SHIFT_UP,
      OP_GET_LOCAL_LONG, OP_SET_LOCAL_LONG, OP_SET_INDEX_LOCAL_LONG, OP_WRITE,
      OP_NEWLINE, OP_CALL, OP_SHIFT_ASTACKENT_TO_BASE, OP_RETURN,
      OP_ARGSTACK_LOAD, OP_HALT, OP_LOCI_LONG, OP_LOCS_LONG, OP_LOCF_LONG,
      OP_ADDI, OP_SUBI, OP_MULI, OP_DIVI, OP_GRT, OP_GRTEQ, OP_LT, OP_LEQ,
      OP_EQUA
<1>4. /\ ~LoadConstant /\ ~LocAlink /\ ~PushByte /\ ~Zero /\ ~One
      /\ ~PushFalse /\ ~PushTrue /\ ~EmptyString /\ ~Read
  BY <1>2, <1>3 DEF LoadConstant, LocAlink, PushByte, Zero, One, PushFalse,
     PushTrue, EmptyString, Read, LoadOps
<1>5. ~Addi /\ ~Subi /\ ~Muli /\ ~Divi /\ ~Compare /\ ~Equa /\ ~Not
  BY <1>2, <1>3 DEF Addi, Subi, Muli, Divi, Compare, Equa, Not, BinaryOps
<1>6. /\ ~Skip /\ ~SkipBack /\ ~SkipF /\ ~Popv /\ ~Popa /\ ~AstackShiftUp
      /\ ~Newline /\ ~Halt
  BY <1>2, <1>3 DEF Skip, SkipBack, SkipF, Popv, Popa, AstackShiftUp, Newline,
     Halt
<1>7. ~GetLocal /\ ~SetLocal /\ ~SetIndexLocal /\ ~Write
  BY <1>2, <1>3 DEF GetLocal, SetLocal, SetIndexLocal, Write
<1>8. ~Call /\ ~ShiftAstackentToBase /\ ~Return /\ ~ArgstackLoad
  BY <1>2, <1>3 DEF Call, ShiftAstackentToBase, Return, ArgstackLoad
<1> QED
  BY ONLY <1>4, <1>5, <1>6, <1>7, <1>8, Step \/ Read DEF Step

(* Only these write as many cells as a vector has to where they do not know *)
(* that there is room: behind what the caller has, below the copies of      *)
(* arguments, in the vector that is assigned to.                            *)
OnlyRoomRunsOut ==
  status = "run" /\ status' = "wild" =>
    Op \in {OP_SET_INDEX_LOCAL_LONG, OP_SHIFT_ASTACKENT_TO_BASE,
            OP_ARGSTACK_LOAD}

(* Where the code agrees with the views too, vm_run leaves its arrays at    *)
(* most where it writes a whole vector: it never takes an element off an    *)
(* empty array stack, never finds fewer arguments to take back than a       *)
(* callee has left, and never indexes a vector with more indices than it    *)
(* has dimensions, though no handler checks any of this.                    *)
THEOREM VMWildOnlyForRoom ==
  Spec /\ WellFormed(image) /\ ArraysWellFormed(image, views)
    => [][OnlyRoomRunsOut]_vars
<1>1. Init /\ WellFormed(image) /\ ArraysWellFormed(image, views) => AInv
  BY InitAInv
<1>2. Spec /\ WellFormed(image) /\ ArraysWellFormed(image, views) => []AInv
  BY <1>1, NextAInv, PTL DEF Spec
<1>3. AInv /\ [Next]_vars => [OnlyRoomRunsOut]_vars
  <2> SUFFICES ASSUME AInv, [Next]_vars, status = "run", status' = "wild"
               PROVE  OnlyRoomRunsOut
    BY DEF OnlyRoomRunsOut
  <2>1. Op \in VectorOps
    BY ONLY AInv, [Next]_vars, status = "run", status' = "wild", StepContained
       DEF AInv, VInv, KeepsToArrays
  <2>2. Step \/ Read
    <3>1. status' # status
      BY ONLY status = "run", status' = "wild"
    <3>2. Next
      BY ONLY [Next]_vars, <3>1 DEF vars
    <3> QED
      BY ONLY <3>1, <3>2 DEF Next, Execute, Returned, vars
  <2>3. ~BadCode
    BY ONLY AInv, WholeInstruction, status = "run"
       DEF AInv, VInv, BadCode, LeftCode
  <2>4. Op \notin TameOps
    BY ONLY AInv, status' = "wild", <2>2, <2>3, TameHandlers, PopToAstackTame,
            GetIndexTame, ArgstackTame
  <2> QED
    BY ONLY <2>1, <2>4 DEF TameOps, OnlyRoomRunsOut
<1> QED
  BY <1>2, <1>3, PTL DEF Spec

-----------------------------------------------------------------------------
(* The copies of arguments, counted.  How many cells the first k arguments  *)
(* have is a function that is recursive over the argument stack, and has to *)
(* be followed from step to step before anything can be said of its last    *)
(* value.                                                                   *)

Size(v) == IF v.t = "vec" THEN v.n ELSE 0

(* The recursive function in ArgumentsCounted.                              *)
SizesOf(g) ==
  g = [k \in 0 .. argsp |->
         IF k = 0 THEN 0
         ELSE g[k - 1] + (IF argstack[k - 1].t = "vec"
                          THEN argstack[k - 1].n ELSE 0)]

Sums(n, a, low) ==
  \E g \in [0 .. n -> Int] :
    /\ g[0] = 0 /\ \A k \in 1 .. n : g[k] = g[k - 1] + Size(a[k - 1])
    /\ low = StackMax - g[n]

Counted == Sums(argsp, argstack, argasp)

CInv == AInv /\ Counted

(* Only two handlers change the argument stack.                             *)
LEMMA ArgumentsKept ==
  ASSUME Step \/ Read, ~ArgstackLoad, ~ArgstackUnload
  PROVE  argstack' = argstack /\ argsp' = argsp /\ argasp' = argasp
<1> DEFINE Kept3 == argstack' = argstack /\ argsp' = argsp /\ argasp' = argasp
<1>1. /\ Wild => Kept3
      /\ Abort => Kept3
      /\ \A ip, sp, asp, v : pushv(ip, sp, asp, v) => Kept3
      /\ \A ip, sp, asp : Goto(ip, sp, asp) => Kept3
      /\ \A sp : runtime_error(sp) => Kept3
  <2>1. Wild => Kept3
    BY DEF Wild
  <2>2. Abort => Kept3
    BY DEF Abort
  <2>3. \A ip, sp, asp, v : pushv(ip, sp, asp, v) => Kept3
    BY <2>1 DEF pushv
  <2>4. \A ip, sp, asp : Goto(ip, sp, asp) => Kept3
    BY DEF Goto
  <2>5. \A sp : runtime_error(sp) => Kept3
    BY DEF runtime_error
  <2> QED
    BY ONLY <2>1, <2>2, <2>3, <2>4, <2>5
<1> HIDE DEF Kept3
<1>2. LoadConstant \/ LocAlink \/ PushByte \/ Zero \/ One \/ PushFalse
        \/ PushTrue \/ EmptyString => Kept3
  BY <1>1, Zenon DEF LoadConstant, LocAlink, PushByte, Zero, One, PushFalse,
     PushTrue, EmptyString
<1>3. Addi \/ Subi \/ Muli \/ Divi \/ Compare \/ Equa \/ Not => Kept3
  BY <1>1, Zenon DEF Addi, Subi, Muli, Divi, Compare, Equa, Not
<1>4. Skip \/ SkipBack \/ SkipF \/ Popv \/ Popa => Kept3
  BY <1>1, Zenon DEF Skip, SkipBack, SkipF, Popv, Popa
<1>5. PopToAstack => Kept3
  BY <1>1 DEF PopToAstack, Kept3
<1>6. AstackShiftUp => Kept3
  BY <1>1 DEF AstackShiftUp, Kept3
<1>7. GetLocal => Kept3
  BY <1>1, Zenon DEF GetLocal
<1>8. SetLocal => Kept3
  BY <1>1 DEF SetLocal, Kept3
<1>9. GetIndex => Kept3
  BY <1>1 DEF GetIndex, Kept3
<1>10. SetIndexLocal => Kept3
  BY <1>1 DEF SetIndexLocal, Kept3
<1>11. Write => Kept3
  BY <1>1 DEF Write, Kept3
<1>12. Newline \/ Halt => Kept3
  BY <1>1 DEF Newline, Halt, Kept3
<1>13. Call => Kept3
  BY <1>1 DEF Call, Kept3
<1>14. ShiftAstackentToBase => Kept3
  BY <1>1 DEF ShiftAstackentToBase, Kept3
<1>15. Return => Kept3
  BY <1>1 DEF Return, Kept3
<1>16. ArgstackPeek => Kept3
  BY <1>1, Zenon DEF ArgstackPeek
<1>17. BadCode => Kept3
  BY <1>1, Zenon DEF BadCode
<1>18. Read => Kept3
  BY <1>1, Zenon DEF Read
<1>19. Kept3
  BY ONLY <1>2, <1>3, <1>4, <1>5, <1>6, <1>7, <1>8, <1>9, <1>10, <1>11, <1>12,
          <1>13, <1>14, <1>15, <1>16, <1>17, <1>18, Step \/ Read, ~ArgstackLoad,
          ~ArgstackUnload
     DEF Step
<1> QED
  BY <1>19 DEF Kept3

(* What a copied argument adds, ...                                         *)
LEMMA LoadCounts ==
  ASSUME AInv, ArgstackLoad, status' = "run"
  PROVE  /\ argsp \in 0 .. (MaxArity - 1) /\ argsp' = argsp + 1
         /\ \A k \in 0 .. argsp - 1 : argstack'[k] = argstack[k]
         /\ argasp' = argasp - Size(argstack'[argsp])
         /\ Size(argstack'[argsp]) \in Int
<1>1. /\ status = "run" /\ Op = OP_ARGSTACK_LOAD /\ VInv /\ DInv
      /\ Fetch(OP_ARGSTACK_LOAD)
  BY DEF ArgstackLoad, Fetch, AInv, VInv
<1>2. PICK val : val = Slot(Frame.base + Arg(1))
  OBVIOUS
<1>3. PICK vec : vec = Arg(2)
  OBVIOUS
<1>4. PICK size : size = IF vec # 0 THEN val.n ELSE 0
  OBVIOUS
<1>5. PICK low : low = argasp - size
  OBVIOUS
<1>6. PICK new : new = IF vec # 0 THEN VecV(low, size) ELSE val
  OBVIOUS
<1>7. PICK top : top = argsp
  OBVIOUS
<1>8. val \in Value /\ val.n \in Int
  BY ONLY <1>1, <1>2, HandlerFacts DEF DInv
<1>9. /\ top < MaxArity /\ argasp' = low /\ argsp' = top + 1
      /\ argstack' = [argstack EXCEPT ![top] = new]
  <2>1. top \in Int /\ MaxArity \in Int
    BY <1>1, <1>7, MaxArityAssumption DEF Byte, DInv, IInv, TypeOK
  <2> QED
    BY <1>2, <1>3, <1>4, <1>5, <1>6, <1>7, <2>1 DEF ArgstackLoad, Wild
<1>10. /\ top \in 0 .. (MaxArity - 1) /\ argasp \in Int
       /\ argstack \in [0 .. (MaxArity - 1) -> Value]
  <2>1. /\ top \in 0 .. MaxArity /\ argasp \in Int
        /\ argstack \in [0 .. (MaxArity - 1) -> Value]
    BY <1>1, <1>7 DEF DInv, IInv, TypeOK
  <2> QED
    BY ONLY <1>9, <2>1, MaxArityAssumption DEF Byte
<1>11. vec = 0 => val.t # "vec"
  <2>1. PICK kinds : kinds = View(framese).kinds
    OBVIOUS
  <2>2. PICK k : k = Arg(1) + 1
    OBVIOUS
  <2>3. /\ k <= Len(kinds) /\ (vec = 0 => IsScalar(kinds[k]))
        /\ Len(kinds) = Len(ShapeOf(framese)) /\ Len(kinds) \in Nat
        /\ Frame.base \in Nat /\ Arg(1) \in Nat
    <3>1. /\ ArgumentsOK(image, views, Frame.fn, IP)
          /\ View(framese) = views[Frame.fn].at[IP]
          /\ OpAt(image.fns[Frame.fn], IP) = Op
          /\ ArgAt(image.fns[Frame.fn], IP, 1) = Arg(1)
          /\ ArgAt(image.fns[Frame.fn], IP, 2) = Arg(2)
      BY <1>1, InstructionViews, SameInstruction
    <3>2. /\ Len(kinds) = Len(ShapeOf(framese)) /\ Len(kinds) \in Nat
          /\ Frame.base \in Nat
      BY ONLY <1>1, <2>1, Current, AInv
    <3>3. Arg(1) \in Nat
      BY ONLY <1>1, HandlerFacts, Operands DEF DInv, TwoOperandBytes
    <3> QED
      BY ONLY <1>1, <1>3, <2>1, <2>2, <3>1, <3>2, <3>3 DEF ArgumentsOK
  <2>4. k \in 1 .. Len(ShapeOf(framese)) /\ Frame.base + k - 1 = Frame.base + Arg(1)
    BY ONLY <2>2, <2>3
  <2>5. Op # OP_RETURN
    BY ONLY <1>1 DEF OP_ARGSTACK_LOAD, OP_RETURN
  <2>6. KindHeld(Slot(Frame.base + k - 1), View(framese).kinds[k])
    BY ONLY <1>1, <2>4, <2>5, TopHeld, AInv
  <2>7. KindHeld(val, kinds[k])
    BY ONLY <1>2, <2>1, <2>4, <2>6
  <2> QED
    BY ONLY <2>3, <2>7 DEF KindHeld
<1>12. size \in Int /\ Size(new) = size
  <2>1. CASE vec = 0
    BY ONLY <1>4, <1>6, <1>11, <2>1 DEF Size
  <2>2. CASE vec # 0
    BY ONLY <1>4, <1>6, <1>8, <2>2 DEF Size, VecV
  <2> QED
    BY ONLY <2>1, <2>2
<1>13. argstack'[top] = new /\ \A k \in 0 .. top - 1 : argstack'[k] = argstack[k]
  <2>1. /\ argstack'[top] = new
        /\ \A k : k # top => argstack'[k] = argstack[k]
    BY ONLY <1>9, <1>10
  <2>2. \A k \in 0 .. top - 1 : k # top
    BY ONLY <1>10
  <2> QED
    BY ONLY <2>1, <2>2
<1> QED
  BY ONLY <1>5, <1>7, <1>9, <1>10, <1>12, <1>13

(* ... and what is given up when it is taken back.                          *)
LEMMA UnloadCounts ==
  ASSUME AInv, ArgstackUnload
  PROVE  /\ argsp \in 1 .. MaxArity /\ argsp' = argsp - 1
         /\ argstack' = argstack
         /\ argasp' = argasp + Size(argstack[argsp - 1])
         /\ Size(argstack[argsp - 1]) \in Int
<1>1. /\ status = "run" /\ Op = OP_ARGSTACK_UNLOAD /\ VInv /\ DInv
      /\ Fetch(OP_ARGSTACK_UNLOAD)
  BY DEF ArgstackUnload, Fetch, AInv, VInv
<1>2. PICK vec : vec = Arg(1)
  OBVIOUS
<1>3. PICK last : last = argsp - 1
  OBVIOUS
<1>4. PICK old : old = argstack[last]
  OBVIOUS
<1>5. argsp # 0
  <2>1. Op \in {OP_ARGSTACK_PEEK, OP_ARGSTACK_UNLOAD}
    BY ONLY <1>1
  <2> QED
    BY ONLY AInv, <1>1, <2>1, ArgumentThere
<1>6. /\ argsp' = last /\ argstack' = argstack
      /\ argasp' = argasp + (IF vec # 0 THEN old.n ELSE 0)
  BY <1>2, <1>3, <1>4, <1>5 DEF ArgstackUnload
<1>7. PICK args : args = View(framese).args
  OBVIOUS
<1>8. ~views[Frame.fn].blind /\ args \in Seq({0, 1}) /\ vec = args[Len(args)]
  <2>1. /\ ArgumentsOK(image, views, Frame.fn, IP)
        /\ View(framese) = views[Frame.fn].at[IP]
        /\ OpAt(image.fns[Frame.fn], IP) = Op
        /\ ArgAt(image.fns[Frame.fn], IP, 1) = Arg(1)
    BY <1>1, InstructionViews, SameInstruction
  <2>2. args \in Seq({0, 1})
    BY ONLY <1>1, <1>7, Current, AInv
  <2> QED
    BY ONLY <1>1, <1>2, <1>7, <2>1, <2>2 DEF ArgumentsOK
<1>9. /\ argsp = Len(args) /\ argsp \in 0 .. MaxArity
      /\ \A k \in 1 .. argsp : args[k] = 1 <=> argstack[k - 1].t = "vec"
      /\ argstack \in [0 .. (MaxArity - 1) -> Value]
  BY ONLY <1>1, <1>7, <1>8, ArgsKnown, AInv
<1>10. /\ argsp \in 1 .. MaxArity /\ argsp \in 1 .. argsp
       /\ last \in 0 .. (MaxArity - 1)
  BY ONLY <1>3, <1>5, <1>9, MaxArityAssumption DEF Byte
<1>11. vec \in {0, 1} /\ (vec = 1 <=> old.t = "vec")
  <2>1. argsp \in 1 .. Len(args)
    BY ONLY <1>9, <1>10
  <2>2. vec \in {0, 1} /\ vec = args[argsp]
    BY ONLY <1>8, <1>9, <2>1, ElementOf
  <2> QED
    BY ONLY <1>3, <1>4, <1>9, <1>10, <2>2
<1>12. old.n \in Int
  BY ONLY <1>4, <1>9, <1>10, ValueFields
<1>13. (IF vec # 0 THEN old.n ELSE 0) = Size(old) /\ Size(old) \in Int
  <2>1. CASE vec = 0
    BY ONLY <1>11, <2>1 DEF Size
  <2>2. CASE vec = 1
    BY ONLY <1>11, <1>12, <2>2 DEF Size
  <2> QED
    BY ONLY <1>11, <2>1, <2>2
<1> QED
  BY ONLY <1>3, <1>4, <1>6, <1>10, <1>13

(* The sums go on with one argument more or less.                           *)
LEMMA SumsExtended ==
  ASSUME NEW n \in Nat, NEW a, NEW b, NEW low \in Int, Sums(n, a, low),
         \A k \in 0 .. n - 1 : b[k] = a[k], Size(b[n]) \in Int
  PROVE  Sums(n + 1, b, low - Size(b[n]))
<1>0. PICK g \in [0 .. n -> Int] :
        /\ g[0] = 0 /\ \A k \in 1 .. n : g[k] = g[k - 1] + Size(a[k - 1])
        /\ low = StackMax - g[n]
  BY DEF Sums
<1>1. PICK size \in Int : size = Size(b[n])
  OBVIOUS
<1>2. g[n] \in Int /\ g[n] + size \in Int
  <2>1. n \in 0 .. n
    OBVIOUS
  <2> QED
    BY <2>1
<1> DEFINE h == [k \in 0 .. n + 1 |-> IF k = n + 1 THEN g[n] + size ELSE g[k]]
<1>3. h \in [0 .. n + 1 -> Int]
  <2>1. \A k \in 0 .. n + 1 : k # n + 1 => k \in 0 .. n
    OBVIOUS
  <2> QED
    BY <1>2, <2>1
<1>4. /\ h[n + 1] = g[n] + size
      /\ \A k \in 0 .. n : h[k] = g[k]
  OBVIOUS
<1> HIDE DEF h
<1>5. h[0] = 0
  BY <1>0, <1>4
<1>6. ASSUME NEW k \in 1 .. n + 1
      PROVE  h[k] = h[k - 1] + Size(b[k - 1])
  <2>1. CASE k = n + 1
    <3>1. k - 1 = n /\ n \in 0 .. n
      BY <2>1
    <3> QED
      BY ONLY <1>1, <1>4, <2>1, <3>1
  <2>2. CASE k # n + 1
    <3>1. k \in 1 .. n /\ k \in 0 .. n /\ k - 1 \in 0 .. n /\ k - 1 \in 0 .. n - 1
      BY <2>2
    <3>2. b[k - 1] = a[k - 1] /\ g[k] = g[k - 1] + Size(a[k - 1])
      BY <1>0, <3>1
    <3> QED
      BY ONLY <1>4, <3>1, <3>2
  <2> QED
    BY ONLY <2>1, <2>2
<1>7. low - Size(b[n]) = StackMax - h[n + 1]
  <2>1. StackMax \in Int
    BY SizesAssumption
  <2>2. PICK s \in Int : s = g[n]
    BY <1>2
  <2>3. low = StackMax - s /\ h[n + 1] = s + size
    BY <1>0, <1>4, <2>2
  <2> QED
    BY ONLY <1>1, <2>1, <2>3, size \in Int, s \in Int, low \in Int
<1> QED
  BY <1>3, <1>5, <1>6, <1>7 DEF Sums

LEMMA SumsShortened ==
  ASSUME NEW n \in Nat \ {0}, NEW a, NEW low \in Int, Sums(n, a, low),
         Size(a[n - 1]) \in Int
  PROVE  Sums(n - 1, a, low + Size(a[n - 1]))
<1>0. PICK g \in [0 .. n -> Int] :
        /\ g[0] = 0 /\ \A k \in 1 .. n : g[k] = g[k - 1] + Size(a[k - 1])
        /\ low = StackMax - g[n]
  BY DEF Sums
<1> DEFINE h == [k \in 0 .. n - 1 |-> g[k]]
<1>1. \A k \in 0 .. n - 1 : k \in 0 .. n
  OBVIOUS
<1>2. h \in [0 .. n - 1 -> Int] /\ \A k \in 0 .. n - 1 : h[k] = g[k]
  BY <1>1
<1> HIDE DEF h
<1>3. h[0] = 0
  BY <1>0, <1>2
<1>4. ASSUME NEW k \in 1 .. n - 1
      PROVE  h[k] = h[k - 1] + Size(a[k - 1])
  <2>1. k \in 0 .. n - 1 /\ k - 1 \in 0 .. n - 1 /\ k \in 1 .. n
    OBVIOUS
  <2>2. g[k] = g[k - 1] + Size(a[k - 1])
    BY <1>0, <2>1
  <2> QED
    BY ONLY <1>2, <2>1, <2>2
<1>5. low + Size(a[n - 1]) = StackMax - h[n - 1]
  <2>1. StackMax \in Int
    BY SizesAssumption
  <2>2. n \in 1 .. n /\ n - 1 \in 0 .. n - 1 /\ n - 1 \in 0 .. n
    OBVIOUS
  <2>3. g[n] = g[n - 1] + Size(a[n - 1])
    BY <1>0, <2>2
  <2>4. PICK size \in Int : size = Size(a[n - 1])
    OBVIOUS
  <2>5. PICK s \in Int : s = g[n - 1]
    BY <2>2
  <2>6. h[n - 1] = s
    BY ONLY <1>2, <2>2, <2>5
  <2>7. low = StackMax - (s + size)
    BY <1>0, <2>3, <2>4, <2>5
  <2> QED
    BY ONLY <2>1, <2>4, <2>6, <2>7, size \in Int, s \in Int
<1> QED
  BY <1>2, <1>3, <1>4, <1>5 DEF Sums

LEMMA CountedNext == CInv /\ [Next]_vars => CInv'
<1> SUFFICES ASSUME CInv, [Next]_vars
             PROVE  Counted'
  BY NextAInv DEF CInv
<1>1. AInv
  BY DEF CInv
<1>2. Counted
  BY DEF CInv
<1>5. argsp \in Nat /\ argasp \in Int
  <2>1. argsp \in 0 .. MaxArity /\ argasp \in Int
    BY <1>1 DEF AInv, VInv, DInv, IInv, TypeOK
  <2> QED
    BY ONLY <2>1
<1>6. CASE ArgstackLoad /\ status' = "run"
  <2>1. /\ argsp' = argsp + 1 /\ \A k \in 0 .. argsp - 1 : argstack'[k] = argstack[k]
        /\ argasp' = argasp - Size(argstack'[argsp])
        /\ Size(argstack'[argsp]) \in Int
    BY ONLY <1>1, <1>6, LoadCounts
  <2>2. Sums(argsp + 1, argstack', argasp - Size(argstack'[argsp]))
    BY ONLY <1>2, <1>5, <2>1, SumsExtended DEF Counted
  <2> QED
    BY ONLY <2>1, <2>2 DEF Counted
<1>7. CASE ArgstackUnload
  <2>1. /\ argsp \in 1 .. MaxArity /\ argsp' = argsp - 1 /\ argstack' = argstack
        /\ argasp' = argasp + Size(argstack[argsp - 1])
        /\ Size(argstack[argsp - 1]) \in Int
    BY ONLY <1>1, <1>7, UnloadCounts
  <2>2. argsp \in Nat \ {0}
    BY ONLY <1>5, <2>1
  <2>3. Sums(argsp - 1, argstack, argasp + Size(argstack[argsp - 1]))
    BY ONLY <1>2, <1>5, <2>1, <2>2, SumsShortened DEF Counted
  <2> QED
    BY ONLY <2>1, <2>3 DEF Counted
<1>8. CASE ~(ArgstackLoad /\ status' = "run") /\ ~ArgstackUnload
  <2>1. argstack' = argstack /\ argsp' = argsp /\ argasp' = argasp
    <3>1. CASE (Step \/ Read) /\ ~ArgstackLoad
      BY ONLY <1>8, <3>1, ArgumentsKept
    <3>2. CASE ArgstackLoad
      BY ONLY <1>8, <3>2 DEF ArgstackLoad, Fetch, Wild
    <3>3. CASE ~(Step \/ Read)
      BY <3>3 DEF Next, Execute, Returned, vars
    <3> QED
      BY ONLY <3>1, <3>2, <3>3
  <2> QED
    BY <1>2, <2>1 DEF Counted
<1> QED
  BY ONLY <1>6, <1>7, <1>8

(* A function that goes on as the sums do is the recursive one.             *)
LEMMA SumsUnique ==
  ASSUME argsp \in Nat, Counted
  PROVE  LET size[k \in 0 .. argsp] ==
               IF k = 0 THEN 0
               ELSE size[k - 1] + (IF argstack[k - 1].t = "vec"
                                   THEN argstack[k - 1].n ELSE 0)
         IN  argasp = StackMax - size[argsp]
<1>1. PICK g \in [0 .. argsp -> Int] :
        /\ g[0] = 0 /\ \A k \in 1 .. argsp : g[k] = g[k - 1] + Size(argstack[k - 1])
        /\ argasp = StackMax - g[argsp]
  BY DEF Counted, Sums
<1>2. SizesOf(g)
  <2>1. ASSUME NEW k \in 0 .. argsp
        PROVE  g[k] = IF k = 0 THEN 0
                      ELSE g[k - 1] + (IF argstack[k - 1].t = "vec"
                                       THEN argstack[k - 1].n ELSE 0)
    <3>1. CASE k = 0
      BY ONLY <1>1, <3>1
    <3>2. CASE k # 0
      <4>1. k \in 1 .. argsp
        BY <3>2
      <4> QED
        BY <1>1, <3>2, <4>1 DEF Size
    <3> QED
      BY ONLY <3>1, <3>2
  <2> QED
    BY <2>1 DEF SizesOf
<1> DEFINE c == CHOOSE f : SizesOf(f)
<1>3. SizesOf(c)
  BY <1>2
<1> HIDE DEF c
<1>4. PICK d : d = c /\ SizesOf(d)
  BY <1>3
<1> DEFINE T == {k \in 0 .. argsp : d[k] = g[k]}
<1>5. 0 \in T
  BY <1>1, <1>4 DEF SizesOf
<1>6. ASSUME NEW k \in 0 .. (argsp - 1), k \in T
      PROVE  k + 1 \in T
  <2>1. k + 1 \in 0 .. argsp /\ k + 1 # 0 /\ (k + 1) - 1 = k
    OBVIOUS
  <2>2. d[k + 1] = d[k] + Size(argstack[k])
    BY <1>4, <2>1 DEF SizesOf, Size
  <2>3. g[k + 1] = g[k] + Size(argstack[k])
    BY <1>1, <2>1
  <2>4. d[k] = g[k]
    BY <1>6
  <2> QED
    BY <2>1, <2>2, <2>3, <2>4
<1>7. argsp \in T
  <2> HIDE DEF T
  <2>1. \A k \in 0 .. (argsp - 1) : k \in T => k + 1 \in T
    BY <1>6
  <2>2. \A k \in 0 .. argsp : k \in T
    BY ONLY <1>5, <2>1, argsp \in Nat, InductionUpTo
  <2> QED
    BY <2>2
<1>8. c[argsp] = g[argsp]
  BY <1>4, <1>7
<1> QED
  BY <1>1, <1>8 DEF c, SizesOf

(* What the handlers of OP_ARGSTACK_LOAD and OP_ARGSTACK_UNLOAD rely on:    *)
(* in every program whose code agrees with the views the far end of the     *)
(* array stack has as many cells as the vectors on the argument stack, so   *)
(* that what was copied for a call is given up, all of it and nothing else, *)
(* when its caller takes its arguments back, however calls are nested; and  *)
(* a program ends with no argument left.                                    *)
THEOREM VMArgumentsCounted ==
  Spec /\ WellFormed(image) /\ ArraysWellFormed(image, views)
    => []ArgumentsCounted
<1>1. Init /\ WellFormed(image) /\ ArraysWellFormed(image, views) => CInv
  <2> SUFFICES ASSUME Init
               PROVE  Counted
    BY InitAInv DEF CInv
  <2>1. argsp = 0 /\ argasp = StackMax /\ StackMax \in Int
    BY SizesAssumption DEF Init
  <2> DEFINE g == [k \in 0 .. 0 |-> 0]
  <2>2. g \in [0 .. 0 -> Int] /\ g[0] = 0 /\ StackMax = StackMax - g[0]
    BY <2>1
  <2>3. \A k \in 1 .. 0 : FALSE
    OBVIOUS
  <2> HIDE DEF g
  <2> QED
    BY <2>1, <2>2, <2>3 DEF Counted, Sums
<1>2. Spec /\ WellFormed(image) /\ ArraysWellFormed(image, views) => []CInv
  BY <1>1, CountedNext, PTL DEF Spec
<1>3. CInv => ArgumentsCounted
  <2> SUFFICES ASSUME CInv, status = "run"
               PROVE  ArgumentsCounted
    BY DEF ArgumentsCounted
  <2>1. argsp \in Nat /\ Counted /\ AInv
    <3>1. argsp \in 0 .. MaxArity
      BY DEF CInv, AInv, VInv, DInv, IInv, TypeOK
    <3> QED
      BY <3>1 DEF CInv
  <2>2. Op = OP_HALT => argsp = 0
    <3> SUFFICES ASSUME Op = OP_HALT
                 PROVE  argsp = 0
      OBVIOUS
    <3>1. VInv
      BY <2>1 DEF AInv
    <3>2. /\ ArgumentsOK(image, views, Frame.fn, IP)
          /\ View(framese) = views[Frame.fn].at[IP]
          /\ OpAt(image.fns[Frame.fn], IP) = Op
      BY ONLY <3>1, InstructionViews, SameInstruction, status = "run"
    <3>3. ~views[Frame.fn].blind /\ View(framese).args = << >>
      BY ONLY <3>2, Op = OP_HALT DEF ArgumentsOK
    <3>4. argsp = Len(View(framese).args)
      BY ONLY <2>1, <3>3, ArgsKnown, status = "run"
    <3> QED
      BY ONLY <3>3, <3>4
  <2> QED
    BY ONLY <2>1, <2>2, SumsUnique DEF ArgumentsCounted
<1> QED
  BY <1>2, <1>3, PTL

-----------------------------------------------------------------------------
(* How values are read: ReadAsWritten.                                      *)

(* What the topmost values of the frame are.                                *)
LEMMA PeekHeld ==
  ASSUME AInv, status = "run", Op # OP_RETURN,
         NEW len, len = Len(ShapeOf(framese)), NEW k \in 1 .. len
  PROVE  KindHeld(peekv(k), View(framese).kinds[len + 1 - k])
<1>1. len \in Nat /\ Frame.base \in Nat /\ SP = Frame.base + len
  BY ONLY Current, AInv, status = "run", len = Len(ShapeOf(framese))
<1>2. PICK j : j = len + 1 - k
  OBVIOUS
<1>3. j \in 1 .. len /\ SP - k = Frame.base + j - 1
  BY ONLY <1>1, <1>2, k \in 1 .. len
<1>4. KindHeld(Slot(Frame.base + j - 1), View(framese).kinds[j])
  BY ONLY <1>3, TopHeld, AInv, status = "run", Op # OP_RETURN,
          len = Len(ShapeOf(framese))
<1> QED
  BY ONLY <1>2, <1>3, <1>4 DEF peekv

LEMMA DroppedRead ==
  ASSUME AInv, status = "run", Op \in {OP_POPA, OP_POP_TO_ASTACK}
  PROVE  IF Op = OP_POPA THEN peekv(1).t = "vec" ELSE peekv(1).t # "vec"
<1>1. VInv /\ DInv
  BY DEF AInv, VInv
<1>2. /\ Op \in DropOps /\ Op \notin Peeks /\ Op # OP_RETURN
      /\ OP_POPA # OP_POP_TO_ASTACK
  BY ONLY Op \in {OP_POPA, OP_POP_TO_ASTACK}
     DEF DropOps, Peeks, OP_POPA, OP_POP_TO_ASTACK, OP_RETURN, OP_SKIPF_LONG,
         OP_SHIFT_ASTACKENT_TO_BASE
<1>3. PICK len : len = Len(ShapeOf(framese))
  OBVIOUS
<1>4. /\ len \in Nat /\ View(framese) = views[Frame.fn].at[IP]
      /\ Len(View(framese).kinds) = len
  BY ONLY <1>3, Current, AInv, status = "run"
<1>5. Effect(1, << >>) /\ Pops(Fn(framese), IP) = 1
  BY ONLY <1>2, Effects DEF Effect
<1>6. 1 <= len /\ 1 \in 1 .. len /\ len + 1 - 1 = len
  <2>1. 1 <= len
    BY ONLY <1>1, <1>2, <1>3, <1>5, EnoughThere, status = "run"
  <2> QED
    BY ONLY <1>4, <2>1
<1>7. KindHeld(peekv(1), View(framese).kinds[len])
  <2>1. KindHeld(peekv(1), View(framese).kinds[len + 1 - 1])
    BY ONLY <1>2, <1>3, <1>6, PeekHeld, AInv, status = "run"
  <2> QED
    BY ONLY <1>6, <2>1
<1>8. ElementsOK(image, views, Frame.fn, IP) /\ OpAt(image.fns[Frame.fn], IP) = Op
  BY ONLY <1>1, InstructionViews, SameInstruction, status = "run"
<1>9. CASE Op = OP_POPA
  <2>1. View(framese).kinds[len] = Temp
    BY ONLY <1>4, <1>8, <1>9 DEF ElementsOK
  <2> QED
    BY ONLY <1>7, <1>9, <2>1 DEF KindHeld
<1>10. CASE Op = OP_POP_TO_ASTACK
  <2>1. IsScalar(View(framese).kinds[len])
    BY ONLY <1>4, <1>8, <1>10 DEF ElementsOK
  <2> QED
    BY ONLY <1>2, <1>7, <1>10, <2>1 DEF KindHeld
<1> QED
  BY ONLY <1>9, <1>10, Op \in {OP_POPA, OP_POP_TO_ASTACK}

LEMMA WrittenRead ==
  ASSUME AInv, status = "run", Op = OP_WRITE, NEW k \in 1 .. Arg(1)
  PROVE  /\ peekv(3 * k - 1).i \in VAL_INTEGER .. VAL_FUNCTION
         /\ peekv(3 * k - 1).i = VAL_VECTOR => peekv(3 * k).t = "vec"
<1>1. VInv /\ DInv
  BY DEF AInv, VInv
<1>2. Op \notin Peeks /\ Op # OP_RETURN
  BY ONLY Op = OP_WRITE DEF Peeks, OP_WRITE, OP_RETURN, OP_SKIPF_LONG,
       OP_SHIFT_ASTACKENT_TO_BASE
<1>3. PICK len : len = Len(ShapeOf(framese))
  OBVIOUS
<1>4. PICK kinds : kinds = View(framese).kinds
  OBVIOUS
<1>5. PICK n : n = Arg(1)
  OBVIOUS
<1>6. /\ len \in Nat /\ View(framese) = views[Frame.fn].at[IP]
      /\ Len(kinds) = len
  BY ONLY <1>3, <1>4, Current, AInv, status = "run"
<1>7. n \in Nat /\ 3 * n \in Nat /\ k \in 1 .. n
  <2>1. Fetch(OP_WRITE)
    BY ONLY <1>1, WholeInstruction, Op = OP_WRITE, status = "run" DEF Fetch
  <2>2. n \in Nat
    BY ONLY <1>1, <1>5, <2>1, HandlerFacts, Operands DEF DInv, OneOperandByte
  <2> QED
    BY ONLY <1>5, <2>2, k \in 1 .. Arg(1)
<1>8. Effect(3 * n, << >>) /\ Pops(Fn(framese), IP) = 3 * n
  BY ONLY <1>5, Effects, Op = OP_WRITE DEF Effect
<1>9. 3 * n <= len
  BY ONLY <1>1, <1>2, <1>3, <1>7, <1>8, EnoughThere, status = "run"
<1>10. PICK below, j : below = len - 3 * n /\ j = n - k + 1
  OBVIOUS
<1>11. /\ j \in 1 .. n
       /\ 3 * k \in 1 .. len /\ 3 * k - 1 \in 1 .. len
       /\ below + 3 * j - 2 = len + 1 - 3 * k
       /\ below + 3 * j - 1 = len + 1 - (3 * k - 1)
  BY ONLY <1>6, <1>7, <1>9, <1>10
<1>12. /\ kinds[below + 3 * j - 1] \in VAL_INTEGER .. VAL_FUNCTION
       /\ kinds[below + 3 * j - 1] = VAL_VECTOR <=>
            kinds[below + 3 * j - 2] = Temp
  <2>1. ElementsOK(image, views, Frame.fn, IP)
    BY ONLY <1>1, InstructionViews, status = "run"
  <2>2. /\ OpAt(image.fns[Frame.fn], IP) = Op
        /\ ArgAt(image.fns[Frame.fn], IP, 1) = n
        /\ image.fns[Frame.fn] = Fn(framese)
    BY ONLY <1>1, <1>5, SameInstruction, InstructionViews, status = "run"
  <2> QED
    BY ONLY <1>4, <1>6, <1>8, <1>10, <1>11, <2>1, <2>2, Op = OP_WRITE
       DEF ElementsOK
<1>13. /\ KindHeld(peekv(3 * k), kinds[below + 3 * j - 2])
       /\ KindHeld(peekv(3 * k - 1), kinds[below + 3 * j - 1])
  <2>1. /\ KindHeld(peekv(3 * k), kinds[len + 1 - 3 * k])
        /\ KindHeld(peekv(3 * k - 1), kinds[len + 1 - (3 * k - 1)])
    BY ONLY <1>2, <1>3, <1>4, <1>11, PeekHeld, AInv, status = "run"
  <2> QED
    BY ONLY <1>11, <2>1
<1>14. peekv(3 * k - 1).i = kinds[below + 3 * j - 1]
  <2>1. \A q \in VAL_INTEGER .. VAL_FUNCTION : q >= 0
    BY DEF VAL_INTEGER, VAL_FUNCTION
  <2> QED
    BY ONLY <1>12, <1>13, <2>1 DEF KindHeld
<1>15. kinds[below + 3 * j - 2] = Temp => peekv(3 * k).t = "vec"
  BY ONLY <1>13 DEF KindHeld
<1> QED
  BY ONLY <1>12, <1>14, <1>15

LEMMA UnloadedRead ==
  ASSUME AInv, status = "run", Op = OP_ARGSTACK_UNLOAD, Arg(1) # 0
  PROVE  argstack[argsp - 1].t = "vec"
<1>1. VInv /\ DInv
  BY DEF AInv, VInv
<1>2. PICK args : args = View(framese).args
  OBVIOUS
<1>3. /\ ~views[Frame.fn].blind /\ args # << >> /\ args \in Seq({0, 1})
      /\ Arg(1) = args[Len(args)]
  <2>1. /\ ArgumentsOK(image, views, Frame.fn, IP)
        /\ View(framese) = views[Frame.fn].at[IP]
        /\ OpAt(image.fns[Frame.fn], IP) = Op
        /\ ArgAt(image.fns[Frame.fn], IP, 1) = Arg(1)
    BY ONLY <1>1, InstructionViews, SameInstruction, status = "run"
  <2>2. args \in Seq({0, 1})
    BY ONLY <1>2, Current, AInv, status = "run"
  <2> QED
    BY ONLY Op = OP_ARGSTACK_UNLOAD, <1>2, <2>1, <2>2 DEF ArgumentsOK
<1>4. /\ argsp = Len(args)
      /\ \A k \in 1 .. argsp : args[k] = 1 <=> argstack[k - 1].t = "vec"
  BY ONLY <1>2, <1>3, ArgsKnown, AInv, status = "run"
<1>5. argsp \in 1 .. argsp /\ args[argsp] = 1
  <2>1. Len(args) \in Nat /\ Len(args) # 0 /\ args[Len(args)] \in {0, 1}
    BY ONLY <1>3
  <2> QED
    BY ONLY <1>3, <1>4, <2>1, Arg(1) # 0
<1> QED
  BY ONLY <1>4, <1>5

LEMMA CalledRead ==
  ASSUME VInv, status = "run", Op = OP_CALL
  PROVE  peekv(Arg(1) + 1).t = "fn"
<1>1. DInv /\ Fetch(OP_CALL)
  BY WholeInstruction DEF VInv, Fetch
<1>2. PICK n : n = Len(ShapeOf(framese))
  OBVIOUS
<1>3. PICK a : a = Arg(1)
  OBVIOUS
<1>4. PICK g : g = ShapeOf(framese)[n - a]
  OBVIOUS
<1>5. Op \notin Peeks /\ Effect(a + 1, << 0 >>)
  BY <1>1, <1>3, Groups, Effects DEF Alone
<1>6. /\ framese \in 0 .. framese /\ n \in Nat /\ Frame.base \in Nat
      /\ SP = Frame.base + n
      /\ ShapeOf(framese) \in Seq({0} \cup (DOMAIN image.fns \ {1}))
  BY <1>1, <1>2, CurrentFacts
<1>7. a \in Nat
  BY <1>1, <1>3, HandlerFacts, Operands DEF DInv, OneOperandByte
<1>8. a + 1 <= n /\ a + 1 \in Nat
  BY <1>1, <1>2, <1>5, <1>7, EnoughThere DEF Effect
<1>9. /\ n - a \in 1 .. n /\ SP - a = Frame.base + (n - a)
      /\ Frame.base + (n - a) - 1 = SP - (a + 1)
  BY ONLY <1>6, <1>7, <1>8, CallArithmetic
<1>10. g # 0
  <2>1. CallOK(image, Frame.fn, IP)
    BY <1>1, CurrentFacts DEF InstructionOK
  <2>2. /\ OpAt(image.fns[Frame.fn], IP) = OP_CALL
        /\ ArgAt(image.fns[Frame.fn], IP, 1) = a
        /\ image.fns[Frame.fn] = Fn(framese)
        /\ Fn(framese).shape[IP] = ShapeOf(framese)
    BY <1>1, <1>3, SameInstruction, CurrentFacts
  <2> QED
    BY <1>2, <1>4, <2>1, <2>2 DEF CallOK
<1>11. peekv(a + 1) = FnV(g, image.fns[g].level)
  <2>1. /\ Frame.base + (n - a) - 1 \in CellIndex
        /\ stack[Frame.base + (n - a) - 1] = FnV(g, image.fns[g].level)
    BY <1>1, <1>2, <1>4, <1>6, <1>9, <1>10, FrameHolds DEF Frame
  <2>2. stack \in [CellIndex -> Value]
    BY <1>1 DEF DInv, IInv, TypeOK
  <2> QED
    BY <1>9, <2>1, <2>2 DEF peekv, Slot, Cell
<1> QED
  BY ONLY <1>3, <1>11 DEF FnV

LEMMA ElementRead ==
  ASSUME AInv, status = "run", Op = OP_SET_INDEX_LOCAL_LONG, Arg(5) = Arg(6)
  PROVE  peekv(Arg(5) + Arg(6) + 1).t # "vec"
<1>1. VInv /\ DInv
  BY DEF AInv, VInv
<1>2. Op \notin Peeks /\ Op # OP_RETURN
  BY ONLY Op = OP_SET_INDEX_LOCAL_LONG
     DEF Peeks, OP_SET_INDEX_LOCAL_LONG, OP_RETURN, OP_SKIPF_LONG,
         OP_SHIFT_ASTACKENT_TO_BASE
<1>3. PICK len : len = Len(ShapeOf(framese))
  OBVIOUS
<1>4. PICK n : n = Arg(5) + Arg(6)
  OBVIOUS
<1>5. /\ len \in Nat /\ View(framese) = views[Frame.fn].at[IP]
      /\ Len(View(framese).kinds) = len
  BY ONLY <1>3, Current, AInv, status = "run"
<1>6. n \in Nat
  <2>1. Fetch(OP_SET_INDEX_LOCAL_LONG)
    BY ONLY <1>1, WholeInstruction, Op = OP_SET_INDEX_LOCAL_LONG,
            status = "run" DEF Fetch
  <2>2. Arg(5) \in Nat /\ Arg(6) \in Nat
    BY ONLY <1>1, <2>1, HandlerFacts, Operands DEF DInv
  <2> QED
    BY ONLY <1>4, <2>2
<1>7. Effect(n + 1, << >>) /\ Pops(Fn(framese), IP) = n + 1
  BY ONLY <1>4, Effects, Op = OP_SET_INDEX_LOCAL_LONG DEF Effect
<1>8. n + 1 <= len
  BY ONLY <1>1, <1>2, <1>3, <1>6, <1>7, EnoughThere, status = "run"
<1>9. n + 1 \in 1 .. len /\ len + 1 - (n + 1) = len - (n + 1) + 1
  BY ONLY <1>5, <1>6, <1>8
<1>10. KindHeld(peekv(n + 1), View(framese).kinds[len - (n + 1) + 1])
  <2>1. KindHeld(peekv(n + 1), View(framese).kinds[len + 1 - (n + 1)])
    BY ONLY <1>2, <1>3, <1>9, PeekHeld, AInv, status = "run"
  <2> QED
    BY ONLY <1>9, <2>1
<1>11. IsScalar(View(framese).kinds[len - (n + 1) + 1])
  <2>1. ElementsOK(image, views, Frame.fn, IP)
    BY ONLY <1>1, InstructionViews, status = "run"
  <2>2. /\ OpAt(image.fns[Frame.fn], IP) = Op
        /\ ArgAt(image.fns[Frame.fn], IP, 5) = ArgAt(image.fns[Frame.fn], IP, 6)
        /\ image.fns[Frame.fn] = Fn(framese)
    BY ONLY <1>1, SameInstruction, InstructionViews, status = "run",
            Arg(5) = Arg(6)
  <2> QED
    BY ONLY <1>5, <1>7, <2>1, <2>2, Op = OP_SET_INDEX_LOCAL_LONG
       DEF ElementsOK
<1> QED
  BY ONLY <1>4, <1>10, <1>11 DEF KindHeld

(* No handler takes the size of something that is no vector for a number of *)
(* cells to give up: what popa, the write of a vector and the taking back   *)
(* of a vector argument find is a vector, in every program whose code       *)
(* agrees with the views.  Nor is there a type writev does not know (where  *)
(* the code calls exit), no vector is stored in an element, and what is     *)
(* called is a function.                                                    *)
THEOREM VMReadAsWritten ==
  Spec /\ WellFormed(image) /\ ArraysWellFormed(image, views)
    => []ReadAsWritten
<1>1. Init /\ WellFormed(image) /\ ArraysWellFormed(image, views) => AInv
  BY InitAInv
<1>2. Spec /\ WellFormed(image) /\ ArraysWellFormed(image, views) => []AInv
  BY <1>1, NextAInv, PTL DEF Spec
<1>3. AInv => ReadAsWritten
  <2> SUFFICES ASSUME AInv, status = "run"
               PROVE  ReadAsWritten
    BY DEF ReadAsWritten
  <2>1. /\ Op = OP_POPA => peekv(1).t = "vec"
        /\ Op = OP_POP_TO_ASTACK => peekv(1).t # "vec"
    BY ONLY AInv, status = "run", DroppedRead DEF OP_POPA, OP_POP_TO_ASTACK
  <2>2. Op = OP_WRITE => \A k \in 1 .. Arg(1) :
          /\ peekv(3 * k - 1).i \in VAL_INTEGER .. VAL_FUNCTION
          /\ peekv(3 * k - 1).i = VAL_VECTOR => peekv(3 * k).t = "vec"
    BY ONLY AInv, status = "run", WrittenRead
  <2>3. Op = OP_ARGSTACK_UNLOAD /\ Arg(1) # 0 => argstack[argsp - 1].t = "vec"
    BY ONLY AInv, status = "run", UnloadedRead
  <2>4. Op = OP_SET_INDEX_LOCAL_LONG /\ Arg(5) = Arg(6) =>
          peekv(Arg(5) + Arg(6) + 1).t # "vec"
    BY ONLY AInv, status = "run", ElementRead
  <2>5. Op = OP_CALL => peekv(Arg(1) + 1).t = "fn"
    BY ONLY AInv, status = "run", CalledRead DEF AInv
  <2> QED
    BY ONLY <2>1, <2>2, <2>3, <2>4, <2>5 DEF ReadAsWritten
<1> QED
  BY <1>2, <1>3, PTL
=============================================================================
