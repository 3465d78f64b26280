------------------------- MODULE TypeLabels_proofs --------------------------
(***************************************************************************)
(* Theorems about vector_type_node_to_type (semantics.c): labels of any    *)
(* number of dimensions with any number of digits, an int of any width of  *)
(* at least nine bits, and every MAX_VECTOR_DIMENSIONS.                    *)
(***************************************************************************)
EXTENDS TypeLabels, Induction, SequenceTheorems

-----------------------------------------------------------------------------
(***************************************************************************)
(* Arithmetic of int.  The two helpers divide and subtract, so they are    *)
(* themselves free of overflow; what they say of two numbers that are not  *)
(* negative is that the result is an int, and then nothing is wrapped.     *)
(***************************************************************************)
LEMMA WrapOfInt == ASSUME NEW x \in 0 .. IntMax PROVE Wrap(x) = x
<1> DEFINE width == IntMax - IntMin + 1
           z == x - IntMin
<1>1. width \in Nat \ {0} /\ z \in Int /\ 0 <= z /\ z < width
  BY IntRangeAssumption
<1>2. Wrap(x) = IntMin + (z % width)
  BY DEF Wrap
<1> HIDE DEF width
<1>3. z % width = z
  BY <1>1
<1> QED BY <1>2, <1>3, IntRangeAssumption

LEMMA Quotient ==
  ASSUME NEW x \in Nat \ {0}, NEW a \in Nat
  PROVE  /\ IntMax \in Nat
         /\ TruncDiv(IntMax, x) = IntMax \div x
         /\ (a <= IntMax \div x) => a * x <= IntMax
<1>1. IntMax \in Nat /\ IntMax >= 255
  BY IntRangeAssumption
<1>2. TruncDiv(IntMax, x) = IntMax \div x
  BY <1>1 DEF TruncDiv, Abs
<1>3. \A n, q \in Nat : q = n \div x => q * x <= n
  OBVIOUS
<1>4. (IntMax \div x) \in Nat /\ (IntMax \div x) * x <= IntMax
  BY <1>1, <1>3
<1>5. \A q \in Nat : a <= q => a * x <= q * x
  OBVIOUS
<1> QED BY <1>1, <1>2, <1>4, <1>5

(* Not an overflow: the product of two ints is the product.                 *)
LEMMA ProductFits ==
  ASSUME NEW x \in 1 .. IntMax, NEW a \in 0 .. IntMax, ~ is_mult_overflow(a, x)
  PROVE  a * x \in 0 .. IntMax /\ Wrap(a * x) = a * x
<1>1. x \in Nat \ {0} /\ a \in Nat
  BY IntRangeAssumption
<1>2. ~ (a > TruncDiv(IntMax, x))
  BY DEF is_mult_overflow
<1>3. IntMax \in Nat /\ TruncDiv(IntMax, x) = IntMax \div x
      /\ ((a <= IntMax \div x) => a * x <= IntMax)
  BY <1>1, Quotient
<1>4. a <= IntMax \div x
  BY <1>1, <1>2, <1>3
<1>5. a * x \in Nat
  BY <1>1
<1>6. a * x \in 0 .. IntMax
  BY <1>3, <1>4, <1>5
<1> QED BY <1>6, WrapOfInt

(* Not an overflow: neither is the sum.                                     *)
LEMMA SumFits ==
  ASSUME NEW x \in 0 .. 9, NEW a \in 0 .. IntMax, ~ is_add_overflow(a, x)
  PROVE  a + x \in 0 .. IntMax /\ Wrap(a + x) = a + x
<1>1. a + x \in 0 .. IntMax
  BY IntRangeAssumption DEF is_add_overflow
<1> QED BY <1>1, WrapOfInt

-----------------------------------------------------------------------------
(***************************************************************************)
(* Labels, and sequences of sizes.                                         *)
(***************************************************************************)
LEMMA LabelFacts ==
  ASSUME NEW lab \in Labels
  PROVE  /\ lab \in Seq(Seq(0 .. 9) \ {<< >>}) /\ Len(lab) \in Nat \ {0}
         /\ \A k \in 1 .. Len(lab) : lab[k] \in Seq(0 .. 9) /\ Len(lab[k]) \in Nat
<1>1. lab \in Seq(Seq(0 .. 9) \ {<< >>}) /\ lab # << >>
  BY LabelsAssumption
<1> QED BY <1>1

-----------------------------------------------------------------------------
LEMMA WithoutLast ==
  ASSUME NEW S, NEW q \in Seq(S), Len(q) \in Nat \ {0}
  PROVE  /\ SubSeq(q, 1, Len(q) - 1) \in Seq(S)
         /\ Len(SubSeq(q, 1, Len(q) - 1)) = Len(q) - 1
         /\ \A k \in 1 .. (Len(q) - 1) : SubSeq(q, 1, Len(q) - 1)[k] = q[k]
<1> DEFINE n == Len(q) - 1
<1>1. n \in Nat /\ 1 \in Int /\ \A k \in 1 .. n : q[k] \in S
  BY ElementOf
<1> HIDE DEF n
<1>2. /\ SubSeq(q, 1, n) \in Seq(S)
      /\ Len(SubSeq(q, 1, n)) = IF 1 <= n THEN n - 1 + 1 ELSE 0
      /\ \A k \in 1 .. n - 1 + 1 : SubSeq(q, 1, n)[k] = q[1 + k - 1]
  BY <1>1, SubSeqProperties
<1>3. \A k \in 1 .. n : SubSeq(q, 1, n)[k] = q[k]
  BY <1>1, <1>2
<1>4. Len(SubSeq(q, 1, n)) = n
  BY <1>1, <1>2
<1> QED BY <1>2, <1>3, <1>4 DEF n

-----------------------------------------------------------------------------
(***************************************************************************)
(* The inductive invariant: while digits are read there is a dimension to  *)
(* read, while the calls return there is a call to return, and, as long as *)
(* no error was reported, no dimension was 0.                              *)
(***************************************************************************)
Positive == ~error => inside.size > 0 /\ \A k \in DOMAIN sizes : sizes[k] > 0

LabelInv ==
  /\ label \in Labels
  /\ LabelTypeOK
  /\ step = "digits" => Len(sizes) < Len(label)
  /\ step = "return" => 0 < Len(sizes)
  /\ Positive
  /\ TrapsOnlyAfterError

LEMMA LabelInvInit == LabelInit => LabelInv
<1> SUFFICES ASSUME LabelInit PROVE LabelInv
  OBVIOUS
<1>1. Len(label) \in Nat \ {0} /\ Len(label[1]) \in Nat
  BY LabelFacts DEF LabelInit
<1>2. sizes = << >> /\ sizes \in Seq(0 .. IntMax) /\ Len(sizes) = 0 /\ DOMAIN sizes = {}
  BY DEF LabelInit
<1>3. Dimension = label[1]
  BY <1>2 DEF Dimension
<1>4. inside \in [rank : Nat, size : 0 .. IntMax] /\ inside.size > 0
  BY IntRangeAssumption DEF LabelInit, Scalar
<1>5. LabelTypeOK
  <2>1. at \in Nat /\ (step = "digits" => at <= Len(Dimension)) /\ res \in 0 .. IntMax
    BY <1>1, <1>3, IntRangeAssumption DEF LabelInit
  <2>2. error \in BOOLEAN /\ step \in {"digits", "return", "done", "trap"}
    BY DEF LabelInit
  <2>3. Len(sizes) <= Len(label)
    BY <1>1, <1>2
  <2> QED BY <1>2, <1>4, <2>1, <2>2, <2>3 DEF LabelTypeOK
<1>6. Positive /\ TrapsOnlyAfterError
  BY <1>2, <1>4 DEF Positive, TrapsOnlyAfterError, LabelInit
<1> QED BY <1>1, <1>2, <1>5, <1>6 DEF LabelInit, LabelInv

(* A digit more of a dimension.                                             *)
LEMMA DigitRead ==
  ASSUME LabelInv, ReadDigit
  PROVE  /\ Dimension \in Seq(0 .. 9) /\ Dimension[at + 1] \in 0 .. 9
         /\ \/ error' = TRUE /\ at' = Len(Dimension) /\ res' = res
            \/ /\ error' = error /\ at' = at + 1
               /\ res' = res * 10 + Dimension[at + 1] /\ res' \in 0 .. IntMax
<1> DEFINE digit == Dimension[at + 1]
           ten   == Wrap(res * 10)
<1>1. Dimension \in Seq(0 .. 9) /\ at \in Nat /\ at < Len(Dimension)
  <2>1. Len(sizes) \in Nat /\ Len(sizes) + 1 \in 1 .. Len(label)
    BY LabelFacts DEF LabelInv, LabelTypeOK, ReadDigit
  <2> QED BY <2>1, LabelFacts DEF LabelInv, LabelTypeOK, ReadDigit, Dimension
<1>2. digit \in 0 .. 9
  BY <1>1
<1>3. CASE is_mult_overflow(res, 10) \/ is_add_overflow(ten, digit)
  BY <1>1, <1>2, <1>3 DEF ReadDigit
<1>4. CASE ~ (is_mult_overflow(res, 10) \/ is_add_overflow(ten, digit))
  <2>1. res \in 0 .. IntMax /\ 10 \in 1 .. IntMax
    BY IntRangeAssumption DEF LabelInv, LabelTypeOK
  <2>2. ten = res * 10 /\ ten \in 0 .. IntMax
    BY <1>4, <2>1, ProductFits
  <2>3. ten + digit \in 0 .. IntMax /\ Wrap(ten + digit) = ten + digit
    BY <1>2, <1>4, <2>2, SumFits
  <2>4. error' = error /\ at' = at + 1 /\ res' = Wrap(ten + digit)
    BY <1>4 DEF ReadDigit
  <2> QED BY <1>1, <1>2, <2>2, <2>3, <2>4
<1> QED BY <1>3, <1>4

LEMMA LabelInvReadDigit == LabelInv /\ ReadDigit => LabelInv'
<1> SUFFICES ASSUME LabelInv, ReadDigit PROVE LabelInv'
  OBVIOUS
<1>1. /\ Dimension \in Seq(0 .. 9) /\ Dimension[at + 1] \in 0 .. 9
      /\ \/ error' = TRUE /\ at' = Len(Dimension) /\ res' = res
         \/ error' = error /\ at' = at + 1 /\ res' \in 0 .. IntMax
  BY DigitRead
<1>2. UNCHANGED << label, sizes, inside, step >> /\ step = "digits" /\ at < Len(Dimension)
  BY DEF ReadDigit
<1>3. Dimension' = Dimension /\ Len(Dimension) \in Nat /\ at \in Nat
  BY <1>1, <1>2 DEF Dimension, LabelInv, LabelTypeOK
<1>4. LabelTypeOK'
  <2>1. at' \in Nat /\ at' <= Len(Dimension')
    BY <1>1, <1>2, <1>3
  <2>2. res' \in 0 .. IntMax
    BY <1>1 DEF LabelInv, LabelTypeOK
  <2>3. error' \in BOOLEAN
    BY <1>1 DEF LabelInv, LabelTypeOK
  <2> QED BY <1>2, <2>1, <2>2, <2>3 DEF LabelInv, LabelTypeOK
<1>5. Positive' /\ TrapsOnlyAfterError'
  BY <1>1, <1>2 DEF LabelInv, Positive, TrapsOnlyAfterError
<1> QED BY <1>2, <1>4, <1>5 DEF LabelInv

(* One call deeper.                                                         *)
LEMMA DimensionPushed ==
  ASSUME LabelInv, PushDimension
  PROVE  /\ sizes \in Seq(0 .. IntMax) /\ res \in 0 .. IntMax
         /\ sizes' \in Seq(0 .. IntMax) /\ Len(sizes') = Len(sizes) + 1
         /\ sizes'[Len(sizes) + 1] = res
         /\ \A k \in 1 .. Len(sizes) : sizes'[k] = sizes[k]
<1>1. sizes \in Seq(0 .. IntMax) /\ res \in 0 .. IntMax /\ sizes' = Append(sizes, res)
  BY DEF LabelInv, LabelTypeOK, PushDimension
<1> QED BY <1>1

LEMMA LabelInvPushDimension == LabelInv /\ PushDimension => LabelInv'
<1> SUFFICES ASSUME LabelInv, PushDimension PROVE LabelInv'
  OBVIOUS
<1>1. /\ sizes \in Seq(0 .. IntMax) /\ res \in 0 .. IntMax
      /\ sizes' \in Seq(0 .. IntMax) /\ Len(sizes') = Len(sizes) + 1
      /\ sizes'[Len(sizes) + 1] = res
      /\ \A k \in 1 .. Len(sizes) : sizes'[k] = sizes[k]
  BY DimensionPushed
<1>2. /\ step = "digits" /\ at' = 0 /\ res' = 0 /\ label' = label /\ inside' = inside
      /\ error' = (error \/ res <= 0)
      /\ step' = IF Len(sizes) + 1 = Len(label) THEN "return" ELSE "digits"
  BY DEF PushDimension
<1>3. Len(sizes) < Len(label) /\ Len(label) \in Nat /\ Len(sizes) \in Nat
  BY <1>1, <1>2, LabelFacts DEF LabelInv
<1>4. step' = "digits" => Len(sizes') < Len(label')
  BY <1>1, <1>2, <1>3
<1>5. step' = "digits" => Len(Dimension') \in Nat
  BY <1>1, <1>2, <1>3, <1>4, LabelFacts DEF LabelInv, Dimension
<1>6. LabelTypeOK'
  <2>1. at' \in Nat /\ (step' = "digits" => at' <= Len(Dimension'))
    BY <1>2, <1>5
  <2>2. Len(sizes') <= Len(label')
    BY <1>1, <1>2, <1>3
  <2>3. error' \in BOOLEAN /\ step' \in {"digits", "return", "done", "trap"}
    BY <1>2
  <2> QED BY <1>1, <1>2, <2>1, <2>2, <2>3, IntRangeAssumption DEF LabelInv, LabelTypeOK
<1>7. Positive'
  <2> SUFFICES ASSUME ~ error'
               PROVE  inside'.size > 0 /\ \A k \in DOMAIN sizes' : sizes'[k] > 0
    BY DEF Positive
  <2>1. ~ error /\ ~ (res <= 0)
    BY <1>2
  <2>2. inside.size > 0 /\ \A k \in 1 .. Len(sizes) : sizes[k] > 0
    BY <1>1, <2>1 DEF LabelInv, Positive
  <2>3. \A k \in DOMAIN sizes' : k \in 1 .. Len(sizes) \/ k = Len(sizes) + 1
    BY <1>1
  <2>4. res > 0
    BY <1>1, <2>1, IntRangeAssumption
  <2> QED BY <1>1, <1>2, <2>2, <2>3, <2>4
<1>8. TrapsOnlyAfterError'
  BY <1>2 DEF TrapsOnlyAfterError
<1> QED BY <1>1, <1>2, <1>3, <1>4, <1>6, <1>7, <1>8 DEF LabelInv

(* A call returns: what is left are the calls around it.                    *)
LEMMA CallReturned ==
  ASSUME LabelInv, NEW type, CallReturnsType(type), step = "return"
  PROVE  /\ sizes \in Seq(0 .. IntMax) /\ Len(sizes) \in Nat \ {0}
         /\ Size \in 0 .. IntMax /\ (~ error => Size > 0)
         /\ sizes' \in Seq(0 .. IntMax) /\ Len(sizes') = Len(sizes) - 1
         /\ \A k \in 1 .. Len(sizes') : sizes'[k] = sizes[k]
<1>1. sizes \in Seq(0 .. IntMax) /\ 0 < Len(sizes) /\ sizes' = SubSeq(sizes, 1, Len(sizes) - 1)
  BY DEF LabelInv, LabelTypeOK, CallReturnsType
<1>2. Len(sizes) \in Nat \ {0} /\ Len(sizes) \in DOMAIN sizes
  BY <1>1
<1>3. ~ error => Size > 0
  BY <1>2 DEF LabelInv, Positive, Size
<1>4. Size \in 0 .. IntMax
  <2>1. Len(sizes) \in 1 .. Len(sizes)
    BY ONLY <1>2
  <2> QED BY ONLY <1>1, <2>1, ElementOf DEF Size
<1>5. /\ sizes' \in Seq(0 .. IntMax) /\ Len(sizes') = Len(sizes) - 1
      /\ \A k \in 1 .. Len(sizes') : sizes'[k] = sizes[k]
  BY ONLY <1>1, <1>2, WithoutLast
<1> QED BY <1>1, <1>2, <1>3, <1>4, <1>5

LEMMA LabelInvReturned ==
  ASSUME LabelInv, step = "return", error' \in BOOLEAN, error => error',
         NEW type \in [rank : Nat, size : 0 .. IntMax], CallReturnsType(type),
         ~ error' => type.size > 0
  PROVE  LabelInv'
<1>1. /\ sizes \in Seq(0 .. IntMax) /\ Len(sizes) \in Nat \ {0}
      /\ sizes' \in Seq(0 .. IntMax) /\ Len(sizes') = Len(sizes) - 1
      /\ \A k \in 1 .. Len(sizes') : sizes'[k] = sizes[k]
  BY CallReturned
<1>2. /\ inside' = type /\ label' = label /\ at' = at /\ res' = res
      /\ step' = IF Len(sizes) = 1 THEN "done" ELSE "return"
  BY DEF CallReturnsType
<1>3. LabelTypeOK'
  <2>1. Len(sizes') <= Len(label')
    BY <1>1, <1>2, LabelFacts DEF LabelInv, LabelTypeOK
  <2> QED BY <1>1, <1>2, <2>1 DEF LabelInv, LabelTypeOK
<1>4. Positive'
  <2> SUFFICES ASSUME ~ error' PROVE \A k \in 1 .. Len(sizes') : sizes'[k] > 0
    BY <1>1, <1>2 DEF Positive
  <2>1. \A k \in 1 .. Len(sizes) : sizes[k] > 0
    BY <1>1 DEF LabelInv, Positive
  <2> QED BY <1>1, <2>1
<1>5. step' = "return" => 0 < Len(sizes')
  BY <1>1, <1>2
<1>6. TrapsOnlyAfterError'
  BY <1>2 DEF TrapsOnlyAfterError
<1> QED BY <1>2, <1>3, <1>4, <1>5, <1>6 DEF LabelInv

LEMMA LabelInvReturnVectorOfScalars == LabelInv /\ ReturnVectorOfScalars => LabelInv'
<1> SUFFICES ASSUME LabelInv, ReturnVectorOfScalars PROVE LabelInv'
  OBVIOUS
<1> DEFINE type == [rank |-> 1, size |-> Size]
<1>1. step = "return" /\ CallReturnsType(type) /\ error' = error
  BY DEF ReturnVectorOfScalars
<1>2. Size \in 0 .. IntMax /\ (~ error => Size > 0)
  BY <1>1, CallReturned
<1>3. type \in [rank : Nat, size : 0 .. IntMax] /\ (~ error => type.size > 0)
  BY <1>2
<1>4. error' \in BOOLEAN /\ (error => error')
  BY <1>1 DEF LabelInv, LabelTypeOK
<1> QED BY <1>1, <1>3, <1>4, LabelInvReturned

(* The three ways a vector of vectors ends.                                 *)
VectorOfVectors ==
  \/ /\ error' = TRUE
     /\ \E type \in [rank : Nat, size : 0 .. IntMax] : CallReturnsType(type)
  \/ /\ error' = error
     /\ 1 + inside.rank < MaxVectorDimensions
     /\ Size * inside.size <= IntMax
     /\ CallReturnsType([rank |-> 1 + inside.rank, size |-> Size * inside.size])

LEMMA VectorOfVectorsReturned ==
  ASSUME LabelInv, ReturnVectorOfVectors
  PROVE  VectorOfVectors /\ Size \in 0 .. IntMax /\ inside.size \in 1 .. IntMax
<1> DEFINE n    == inside.size
           size == Wrap(Size * n)
<1>1. step = "return" /\ inside \in [rank : Nat, size : 0 .. IntMax] /\ n # 0
  BY DEF ReturnVectorOfVectors, LabelInv, LabelTypeOK
<1>2. PICK type : CallReturnsType(type)
  BY DEF ReturnVectorOfVectors
<1>3. Size \in 0 .. IntMax
  BY <1>1, <1>2, CallReturned
<1>4. n \in 1 .. IntMax /\ inside.rank \in Nat
  BY <1>1, IntRangeAssumption
<1>5. CASE is_mult_overflow(Size, n)
  <2>1. error' = TRUE /\ CallReturnsType([rank |-> 1, size |-> Size])
    BY <1>5 DEF ReturnVectorOfVectors
  <2>2. [rank |-> 1, size |-> Size] \in [rank : Nat, size : 0 .. IntMax]
    BY <1>3
  <2> QED BY <1>3, <1>4, <2>1, <2>2 DEF VectorOfVectors
<1>6. CASE ~ is_mult_overflow(Size, n)
  <2>1. Size * n \in 0 .. IntMax /\ size = Size * n
    BY <1>3, <1>4, <1>6, ProductFits
  <2>2. CASE 1 + inside.rank >= MaxVectorDimensions
    <3>1. error' = TRUE /\ CallReturnsType([rank |-> 1, size |-> size])
      BY <1>6, <2>2 DEF ReturnVectorOfVectors
    <3>2. [rank |-> 1, size |-> size] \in [rank : Nat, size : 0 .. IntMax]
      BY <2>1
    <3> QED BY <1>3, <1>4, <3>1, <3>2 DEF VectorOfVectors
  <2>3. CASE ~ (1 + inside.rank >= MaxVectorDimensions)
    <3>1. error' = error /\ CallReturnsType([rank |-> 1 + inside.rank, size |-> size])
      BY <1>6, <2>3 DEF ReturnVectorOfVectors
    <3>2. 1 + inside.rank < MaxVectorDimensions
      BY <1>4, <2>3, LabelsAssumption
    <3>3. Size * n <= IntMax
      BY <2>1
    <3> HIDE DEF size
    <3>4. CallReturnsType([rank |-> 1 + inside.rank, size |-> Size * n])
      BY <3>1, <2>1
    <3> QED BY <1>3, <1>4, <3>1, <3>2, <3>3, <3>4 DEF VectorOfVectors
  <2> QED BY <2>2, <2>3
<1> QED BY <1>5, <1>6

LEMMA LabelInvReturnVectorOfVectors == LabelInv /\ ReturnVectorOfVectors => LabelInv'
<1> SUFFICES ASSUME LabelInv, ReturnVectorOfVectors PROVE LabelInv'
  OBVIOUS
<1>1. VectorOfVectors /\ Size \in 0 .. IntMax /\ inside.size \in 1 .. IntMax
  BY VectorOfVectorsReturned
<1>2. step = "return" /\ inside.rank \in Nat /\ error \in BOOLEAN
  BY DEF ReturnVectorOfVectors, LabelInv, LabelTypeOK
<1>3. CASE /\ error' = TRUE
           /\ \E type \in [rank : Nat, size : 0 .. IntMax] : CallReturnsType(type)
  BY <1>2, <1>3, LabelInvReturned
<1>4. CASE /\ error' = error
           /\ Size * inside.size <= IntMax
           /\ CallReturnsType([rank |-> 1 + inside.rank, size |-> Size * inside.size])
  <2> DEFINE type == [rank |-> 1 + inside.rank, size |-> Size * inside.size]
  <2>1. ~ error => Size > 0
    BY <1>2, <1>4, CallReturned
  <2>2. Size * inside.size \in Int /\ Size * inside.size >= 0
        /\ (Size > 0 => Size * inside.size > 0)
    BY <1>1
  <2>3. type \in [rank : Nat, size : 0 .. IntMax] /\ (~ error => type.size > 0)
    BY <1>2, <1>4, <2>1, <2>2, IntRangeAssumption
  <2> QED BY <1>2, <1>4, <2>3, LabelInvReturned
<1> QED BY <1>1, <1>3, <1>4 DEF VectorOfVectors

LEMMA LabelInvDivideByZero == LabelInv /\ DivideByZero => LabelInv'
<1> SUFFICES ASSUME LabelInv, DivideByZero PROVE LabelInv'
  OBVIOUS
<1>1. /\ inside.size = 0 /\ step' = "trap"
      /\ UNCHANGED << label, at, res, sizes, inside, error >>
  BY DEF DivideByZero
<1>2. error
  BY <1>1 DEF LabelInv, Positive
<1>3. LabelTypeOK'
  BY <1>1 DEF LabelInv, LabelTypeOK
<1>4. Positive' /\ TrapsOnlyAfterError'
  BY <1>1, <1>2 DEF Positive, TrapsOnlyAfterError
<1> QED BY <1>1, <1>3, <1>4 DEF LabelInv

LEMMA LabelInvStep == LabelInv /\ [LabelNext]_labelVars => LabelInv'
<1> SUFFICES ASSUME LabelInv, [LabelNext]_labelVars PROVE LabelInv'
  OBVIOUS
<1>1. CASE UNCHANGED labelVars
  BY <1>1 DEF labelVars, LabelInv, LabelTypeOK, Positive, TrapsOnlyAfterError, Dimension
<1> QED BY <1>1, LabelInvReadDigit, LabelInvPushDimension, LabelInvReturnVectorOfScalars,
           LabelInvReturnVectorOfVectors, LabelInvDivideByZero DEF LabelNext

LEMMA LabelInvAlways == LabelSpec => []LabelInv
<1> QED BY LabelInvInit, LabelInvStep, PTL DEF LabelSpec

(* Type correctness: whatever the digits of a label, no number leaves the   *)
(* range of int on the way and none is negative.                            *)
THEOREM LabelTypeCorrect == LabelSpec => []LabelTypeOK
<1>1. LabelInv => LabelTypeOK
  BY DEF LabelInv
<1> QED BY <1>1, LabelInvAlways, PTL

(* The division by 0 in is_mult_overflow is reached by no label without an  *)
(* error reported before.                                                   *)
THEOREM NoTrapWithoutError == LabelSpec => []TrapsOnlyAfterError
<1>1. LabelInv => TrapsOnlyAfterError
  BY DEF LabelInv
<1> QED BY <1>1, LabelInvAlways, PTL

-----------------------------------------------------------------------------
(***************************************************************************)
(* What the digits stand for.  The function Decimal is defined by exists:  *)
(* each prefix of the digits has one, by induction on its length.          *)
(***************************************************************************)
ValueUpTo(d, k, g) ==
  g = [j \in 0 .. k |-> IF j = 0 THEN 0 ELSE g[j - 1] * 10 + d[j]]

LEMMA DecimalExists ==
  ASSUME NEW d \in Seq(0 .. 9)
  PROVE  \E g : ValueUpTo(d, Len(d), g)
<1> DEFINE T == {k \in 0 .. Len(d) : \E g : ValueUpTo(d, k, g)}
<1>1. 0 \in T
  <2>1. ValueUpTo(d, 0, [j \in 0 .. 0 |-> 0])
    BY DEF ValueUpTo
  <2>2. 0 \in 0 .. Len(d)
    OBVIOUS
  <2> QED BY <2>1, <2>2
<1>2. ASSUME NEW k \in 0 .. (Len(d) - 1), k \in T
      PROVE  k + 1 \in T
  <2>1. PICK g : ValueUpTo(d, k, g)
    BY <1>2
  <2> DEFINE h == [j \in 0 .. (k + 1) |-> IF j = k + 1 THEN g[k] * 10 + d[k + 1] ELSE g[j]]
  <2>2. \A j \in 0 .. k : g[j] = IF j = 0 THEN 0 ELSE g[j - 1] * 10 + d[j]
    BY <2>1 DEF ValueUpTo
  <2>3. \A j \in 0 .. (k + 1) : h[j] = IF j = 0 THEN 0 ELSE h[j - 1] * 10 + d[j]
    <3> SUFFICES ASSUME NEW j \in 0 .. (k + 1)
                 PROVE  h[j] = IF j = 0 THEN 0 ELSE h[j - 1] * 10 + d[j]
      OBVIOUS
    <3>1. CASE j = k + 1
      <4>1. h[j - 1] = g[k] /\ h[j] = g[k] * 10 + d[k + 1] /\ j # 0
        BY <3>1
      <4> QED BY <3>1, <4>1
    <3>2. CASE j # k + 1 /\ j # 0
      <4>1. j \in 0 .. k /\ h[j] = g[j] /\ h[j - 1] = g[j - 1]
        BY <3>2
      <4> QED BY <2>2, <3>2, <4>1
    <3>3. CASE j # k + 1 /\ j = 0
      BY <2>2, <3>3
    <3> QED BY <3>1, <3>2, <3>3
  <2>4. h = [j \in 0 .. (k + 1) |-> h[j]]
    OBVIOUS
  <2> HIDE DEF h
  <2>5. ValueUpTo(d, k + 1, h)
    BY <2>3, <2>4 DEF ValueUpTo
  <2> QED BY <2>5
<1> HIDE DEF T
<1>3. Len(d) \in Nat
  OBVIOUS
<1>4. \A k \in 0 .. (Len(d) - 1) : k \in T => k + 1 \in T
  BY <1>2
<1>5. \A k \in 0 .. Len(d) : k \in T
  BY ONLY <1>1, <1>3, <1>4, InductionUpTo
<1>6. Len(d) \in T
  BY <1>3, <1>5
<1> QED BY <1>6 DEF T

LEMMA DecimalOfDigits ==
  ASSUME NEW d \in Seq(0 .. 9)
  PROVE  /\ Decimal(d, 0) = 0
         /\ \A k \in 0 .. (Len(d) - 1) : Decimal(d, k + 1) = Decimal(d, k) * 10 + d[k + 1]
<1> DEFINE value == CHOOSE g : ValueUpTo(d, Len(d), g)
<1>1. ValueUpTo(d, Len(d), value)
  BY DecimalExists
<1>2. \A k : Decimal(d, k) = value[k]
  BY DEF Decimal, ValueUpTo
<1> HIDE DEF value
<1>3. \A j \in 0 .. Len(d) : value[j] = IF j = 0 THEN 0 ELSE value[j - 1] * 10 + d[j]
  BY <1>1 DEF ValueUpTo
<1>4. value[0] = 0
  BY <1>3
<1>5. ASSUME NEW k \in 0 .. (Len(d) - 1) PROVE value[k + 1] = value[k] * 10 + d[k + 1]
  BY <1>3
<1> QED BY <1>2, <1>4, <1>5

-----------------------------------------------------------------------------
(***************************************************************************)
(* DimensionsRead is inductive next to LabelInv: each turn of the loop     *)
(* takes the number a digit further, a dimension that is complete moves to *)
(* sizes, and the calls that return only drop sizes from the end.          *)
(***************************************************************************)
LEMMA DimensionIsOne ==
  ASSUME LabelInv, step = "digits"
  PROVE  /\ Len(sizes) \in Nat /\ Len(sizes) + 1 \in 1 .. Len(label)
         /\ Dimension \in Seq(0 .. 9) /\ Len(Dimension) \in Nat
<1>1. Len(sizes) \in Nat /\ Len(sizes) + 1 \in 1 .. Len(label)
  BY LabelFacts DEF LabelInv, LabelTypeOK
<1> QED BY <1>1, LabelFacts DEF LabelInv, Dimension

LEMMA ReadReadDigit == LabelInv /\ DimensionsRead /\ ReadDigit => DimensionsRead'
<1> SUFFICES ASSUME LabelInv, DimensionsRead, ReadDigit, ~ error' PROVE
             /\ \A k \in DOMAIN sizes' : sizes'[k] = Decimal(label'[k], Len(label'[k]))
             /\ step' = "digits" => res' = Decimal(Dimension', at')
  BY DEF DimensionsRead
<1>1. /\ UNCHANGED << label, sizes, inside, step >> /\ Dimension' = Dimension
      /\ step = "digits" /\ at < Len(Dimension)
  BY DEF ReadDigit, Dimension
<1>2. /\ ~ error /\ at' = at + 1 /\ res' = res * 10 + Dimension[at + 1]
  <2>1. error' # TRUE
    OBVIOUS
  <2>2. error' = error /\ at' = at + 1 /\ res' = res * 10 + Dimension[at + 1]
    BY <2>1, DigitRead
  <2>3. ~ error
    BY <2>2
  <2> QED BY <2>2, <2>3
<1>3. Dimension \in Seq(0 .. 9) /\ at \in 0 .. (Len(Dimension) - 1)
  BY <1>1, DimensionIsOne DEF LabelInv, LabelTypeOK
<1>4. Decimal(Dimension, at + 1) = Decimal(Dimension, at) * 10 + Dimension[at + 1]
  BY <1>3, DecimalOfDigits
<1>5. /\ \A k \in DOMAIN sizes : sizes[k] = Decimal(label[k], Len(label[k]))
      /\ res = Decimal(Dimension, at)
  BY <1>1, <1>2 DEF DimensionsRead
<1>6. res' = Decimal(Dimension', at')
  BY <1>1, <1>2, <1>4, <1>5
<1> QED BY <1>1, <1>5, <1>6

LEMMA ReadPushDimension == LabelInv /\ DimensionsRead /\ PushDimension => DimensionsRead'
<1> SUFFICES ASSUME LabelInv, DimensionsRead, PushDimension, ~ error' PROVE
             /\ \A k \in DOMAIN sizes' : sizes'[k] = Decimal(label'[k], Len(label'[k]))
             /\ step' = "digits" => res' = Decimal(Dimension', at')
  BY DEF DimensionsRead
<1>1. /\ label' = label /\ step = "digits" /\ at = Len(Dimension) /\ ~ error
      /\ at' = 0 /\ res' = 0
  BY DEF PushDimension
<1>2. /\ sizes \in Seq(0 .. IntMax) /\ sizes' \in Seq(0 .. IntMax)
      /\ Len(sizes') = Len(sizes) + 1 /\ sizes'[Len(sizes) + 1] = res
      /\ \A k \in 1 .. Len(sizes) : sizes'[k] = sizes[k]
  BY DimensionPushed
<1>3. /\ \A k \in 1 .. Len(sizes) : sizes[k] = Decimal(label[k], Len(label[k]))
      /\ res = Decimal(label[Len(sizes) + 1], Len(label[Len(sizes) + 1]))
  BY <1>1, <1>2 DEF DimensionsRead, Dimension
<1>4. \A k \in DOMAIN sizes' : k \in 1 .. Len(sizes) \/ k = Len(sizes) + 1
  BY <1>2
<1>5. \A k \in DOMAIN sizes' : sizes'[k] = Decimal(label'[k], Len(label'[k]))
  BY <1>1, <1>2, <1>3, <1>4, Zenon
<1>6. ASSUME step' = "digits" PROVE Decimal(Dimension', 0) = 0
  <2>1. LabelInv'
    BY LabelInvPushDimension
  <2>2. label' \in Labels /\ Len(sizes') \in Nat /\ Len(sizes') + 1 \in 1 .. Len(label')
    <3>1. label' \in Labels /\ Len(sizes') < Len(label') /\ sizes' \in Seq(0 .. IntMax)
      BY ONLY <1>2, <1>6, <2>1 DEF LabelInv
    <3>2. Len(label') \in Nat
      BY ONLY <3>1, LabelFacts
    <3>3. Len(sizes') \in Nat
      BY ONLY <3>1
    <3> QED
      BY ONLY <3>1, <3>2, <3>3
  <2>3. Dimension' \in Seq(0 .. 9)
    BY <2>2, LabelFacts DEF Dimension
  <2> QED BY <2>3, DecimalOfDigits
<1> QED BY <1>1, <1>5, <1>6

LEMMA ReadReturned ==
  ASSUME LabelInv, DimensionsRead, step = "return", error => error',
         NEW type, CallReturnsType(type)
  PROVE  DimensionsRead'
<1> SUFFICES ASSUME ~ error' PROVE
             /\ \A k \in DOMAIN sizes' : sizes'[k] = Decimal(label'[k], Len(label'[k]))
             /\ step' # "digits"
  BY DEF DimensionsRead
<1>1. /\ sizes \in Seq(0 .. IntMax) /\ Len(sizes) \in Nat \ {0}
      /\ sizes' \in Seq(0 .. IntMax) /\ Len(sizes') = Len(sizes) - 1
      /\ \A k \in 1 .. Len(sizes') : sizes'[k] = sizes[k]
  BY CallReturned
<1>2. \A k \in 1 .. Len(sizes) : sizes[k] = Decimal(label[k], Len(label[k]))
  BY <1>1 DEF DimensionsRead
<1>3. \A k \in DOMAIN sizes' : k \in 1 .. Len(sizes') /\ k \in 1 .. Len(sizes)
  BY <1>1
<1>4. label' = label /\ step' # "digits"
  BY DEF CallReturnsType
<1> QED BY <1>1, <1>2, <1>3, <1>4, Zenon

(* Every dimension is read as the number its digits stand for, and no int   *)
(* wraps on the way, or there is an error.                                  *)
THEOREM DimensionsAsWritten == LabelSpec => []DimensionsRead
<1>1. LabelInit => DimensionsRead
  <2> SUFFICES ASSUME LabelInit PROVE
               (\A k \in DOMAIN sizes : sizes[k] = Decimal(label[k], Len(label[k])))
               /\ res = Decimal(Dimension, at)
    BY DEF DimensionsRead
  <2>1. sizes = << >> /\ DOMAIN sizes = {} /\ Dimension = label[1]
    BY DEF LabelInit, Dimension
  <2>2. label[1] \in Seq(0 .. 9)
    BY LabelFacts DEF LabelInit
  <2>3. Decimal(label[1], 0) = 0
    BY <2>2, DecimalOfDigits
  <2> QED BY <2>1, <2>3 DEF LabelInit
<1>2. LabelInv /\ DimensionsRead /\ [LabelNext]_labelVars => DimensionsRead'
  <2> SUFFICES ASSUME LabelInv, DimensionsRead, [LabelNext]_labelVars
               PROVE  DimensionsRead'
    OBVIOUS
  <2>1. CASE ReadDigit
    BY <2>1, ReadReadDigit
  <2>2. CASE PushDimension
    BY <2>2, ReadPushDimension
  <2>3. CASE ReturnVectorOfScalars
    BY <2>3, ReadReturned DEF ReturnVectorOfScalars
  <2>4. CASE ReturnVectorOfVectors
    <3>1. step = "return" /\ (error => error')
      BY <2>4 DEF ReturnVectorOfVectors
    <3>2. \E type : CallReturnsType(type)
      BY <2>4 DEF ReturnVectorOfVectors
    <3> QED BY <3>1, <3>2, ReadReturned
  <2>5. CASE DivideByZero
    BY <2>5 DEF DivideByZero, DimensionsRead
  <2>6. CASE UNCHANGED labelVars
    BY <2>6 DEF labelVars, DimensionsRead, Dimension
  <2> QED BY <2>1, <2>2, <2>3, <2>4, <2>5, <2>6 DEF LabelNext
<1> QED BY <1>1, <1>2, LabelInvAlways, PTL DEF LabelSpec

-----------------------------------------------------------------------------
(***************************************************************************)
(* Which labels are accepted.  What the helpers of value.c let through is  *)
(* an int (above); what they do not let through is none.                   *)
(***************************************************************************)
LEMMA ProductTooLarge ==
  ASSUME NEW x \in 1 .. IntMax, NEW a \in 0 .. IntMax, is_mult_overflow(a, x)
  PROVE  a * x > IntMax
<1>1. x \in Nat \ {0} /\ a \in Nat /\ IntMax \in Nat /\ IntMin \in Int /\ IntMin <= 0
  BY IntRangeAssumption
<1>2. TruncDiv(IntMax, x) = IntMax \div x
  BY <1>1, Quotient
<1>3. ~ (a < TruncDiv(IntMin, x))
  <2>1. TruncDiv(IntMin, x) <= 0
    <3>1. Abs(IntMin) \in Nat /\ Abs(x) = x /\ ~ (x < 0)
      BY <1>1 DEF Abs
    <3>2. PICK q : q = Abs(IntMin) \div x
      OBVIOUS
    <3>3. q \in Nat
      <4>1. \A n \in Nat : n \div x \in Nat
        BY <1>1
      <4> QED BY <3>1, <3>2, <4>1
    <3>4. CASE IntMin < 0
      BY <1>1, <3>1, <3>2, <3>3, <3>4 DEF TruncDiv
    <3>5. CASE IntMin = 0
      <4>1. Abs(IntMin) = 0
        BY <3>5 DEF Abs
      <4>2. 0 \div x = 0
        BY <1>1
      <4> QED BY <1>1, <3>1, <3>5, <4>1, <4>2 DEF TruncDiv
    <3> QED BY <1>1, <3>4, <3>5
  <2>2. TruncDiv(IntMin, x) \in Int
    <3>1. Abs(IntMin) \in Nat /\ Abs(x) = x
      BY <1>1 DEF Abs
    <3>2. PICK q : q = Abs(IntMin) \div x
      OBVIOUS
    <3>3. q \in Nat
      <4>1. \A n \in Nat : n \div x \in Nat
        BY <1>1
      <4> QED BY <3>1, <3>2, <4>1
    <3> QED BY <3>1, <3>2, <3>3 DEF TruncDiv
  <2> QED BY <1>1, <2>1, <2>2
<1>4. a > IntMax \div x
  BY <1>1, <1>2, <1>3 DEF is_mult_overflow
<1>5. PICK q : q = IntMax \div x
  OBVIOUS
<1>6. q \in Nat /\ IntMax < (q + 1) * x
  <2>1. \A n \in Nat : n \div x \in Nat /\ n < ((n \div x) + 1) * x
    BY <1>1
  <2> QED BY <1>1, <1>5, <2>1
<1>7. (q + 1) * x <= a * x
  <2>1. q + 1 <= a /\ q + 1 \in Nat
    BY <1>1, <1>4, <1>5, <1>6
  <2>2. \A y, z \in Nat : y <= z => y * x <= z * x
    BY <1>1
  <2> QED BY <1>1, <2>1, <2>2
<1>8. a * x \in Nat /\ (q + 1) * x \in Nat
  <2>1. \A y \in Nat : y * x \in Nat
    BY <1>1
  <2> QED BY <1>1, <1>6, <2>1
<1> QED BY <1>1, <1>6, <1>7, <1>8

(* More digits make no smaller number.                                      *)
LEMMA DecimalGrows ==
  ASSUME NEW d \in Seq(0 .. 9)
  PROVE  \A k \in 0 .. Len(d) : Decimal(d, k) \in Nat /\ Decimal(d, k) <= Number(d)
<1> DEFINE value == [k \in 0 .. Len(d) |-> Decimal(d, k)]
           T == {k \in 0 .. Len(d) :
                   \A i \in 0 .. k : value[i] \in Nat /\ value[i] <= value[k]}
<1>1. Len(d) \in Nat
  OBVIOUS
<1>2. /\ value[0] = 0
      /\ \A k \in 0 .. (Len(d) - 1) :
           d[k + 1] \in Nat /\ value[k + 1] = value[k] * 10 + d[k + 1]
  <2>1. \A k \in 0 .. (Len(d) - 1) : d[k + 1] \in Nat
    <3> SUFFICES ASSUME NEW k \in 0 .. (Len(d) - 1) PROVE d[k + 1] \in Nat
      OBVIOUS
    <3>1. k + 1 \in 1 .. Len(d)
      BY ONLY <1>1
    <3>2. d[k + 1] \in 0 .. 9
      BY ONLY <3>1, ElementOf, d \in Seq(0 .. 9)
    <3> QED BY ONLY <3>2
  <2>2. \A k \in 0 .. (Len(d) - 1) : k \in 0 .. Len(d) /\ k + 1 \in 0 .. Len(d)
    BY ONLY <1>1
  <2>3. 0 \in 0 .. Len(d)
    BY ONLY <1>1
  <2> QED BY <2>1, <2>2, <2>3, DecimalOfDigits
<1> HIDE DEF value
<1>3. 0 \in T
  <2>1. 0 \in 0 .. Len(d) /\ \A i \in 0 .. 0 : i = 0
    BY ONLY <1>1
  <2> QED BY <1>2, <2>1
<1>4. ASSUME NEW k \in 0 .. (Len(d) - 1), k \in T PROVE k + 1 \in T
  <2>1. \A i \in 0 .. k : value[i] \in Nat /\ value[i] <= value[k]
    BY <1>4
  <2>2. k \in 0 .. k /\ k + 1 \in 0 .. Len(d)
        /\ \A i \in 0 .. (k + 1) : i \in 0 .. k \/ i = k + 1
    BY ONLY <1>1, k \in 0 .. (Len(d) - 1)
  <2>3. value[k + 1] \in Nat /\ value[k] <= value[k + 1] /\ value[k] \in Nat
    <3>1. PICK x, y, z : x = value[k] /\ y = value[k + 1] /\ z = d[k + 1]
      OBVIOUS
    <3>2. x \in Nat /\ z \in Nat /\ y = x * 10 + z
      BY <1>2, <2>1, <2>2, <3>1
    <3>3. y \in Nat /\ x <= y
      BY ONLY <3>2
    <3> QED BY ONLY <3>1, <3>2, <3>3
  <2>4. ASSUME NEW i \in 0 .. (k + 1)
        PROVE  value[i] \in Nat /\ value[i] <= value[k + 1]
    <3>1. CASE i = k + 1
      BY <2>3, <3>1
    <3>2. CASE i \in 0 .. k
      BY <2>1, <2>3, <3>2
    <3> QED BY <2>2, <3>1, <3>2
  <2> QED BY <2>2, <2>4
<1> HIDE DEF T
<1>5. \A k \in 0 .. Len(d) : k \in T
  <2>1. \A k \in 0 .. (Len(d) - 1) : k \in T => k + 1 \in T
    BY <1>4
  <2> QED BY ONLY <1>1, <1>3, <2>1, InductionUpTo
<1>6. Len(d) \in T /\ Len(d) \in 0 .. Len(d)
  BY <1>1, <1>5
<1>7. \A k \in 0 .. Len(d) : value[k] \in Nat /\ value[k] <= value[Len(d)]
  BY <1>6 DEF T
<1> QED BY <1>6, <1>7 DEF value, Number

(* The cells of the innermost dimensions, from those of one less.           *)
CellsUpTo(l, k, g) ==
  g = [j \in 0 .. k |-> IF j = 0 THEN 1 ELSE Number(l[Len(l) + 1 - j]) * g[j - 1]]

LEMMA NumbersOfLabel ==
  ASSUME NEW l \in Labels
  PROVE  \A k \in 1 .. Len(l) : Number(l[k]) \in Nat
<1> SUFFICES ASSUME NEW k \in 1 .. Len(l) PROVE Number(l[k]) \in Nat
  OBVIOUS
<1>1. l[k] \in Seq(0 .. 9) /\ Len(l[k]) \in 0 .. Len(l[k])
  BY LabelFacts
<1> QED BY <1>1, DecimalGrows DEF Number

LEMMA CellsExist ==
  ASSUME NEW l \in Labels
  PROVE  \E g : CellsUpTo(l, Len(l), g) /\ g \in [0 .. Len(l) -> Nat]
<1> DEFINE times == [j \in 1 .. Len(l) |-> [x \in Nat |-> Number(l[Len(l) + 1 - j]) * x]]
<1>1. Len(l) \in Nat
  BY LabelFacts
<1>2. \A j \in 1 .. Len(l) : Number(l[Len(l) + 1 - j]) \in Nat
  <2> SUFFICES ASSUME NEW j \in 1 .. Len(l) PROVE Number(l[Len(l) + 1 - j]) \in Nat
    OBVIOUS
  <2>1. Len(l) + 1 - j \in 1 .. Len(l)
    BY ONLY <1>1
  <2> QED BY <2>1, NumbersOfLabel
<1>3. times \in [1 .. Len(l) -> [Nat -> Nat]]
  <2> SUFFICES ASSUME NEW j \in 1 .. Len(l), NEW x \in Nat
               PROVE  Number(l[Len(l) + 1 - j]) * x \in Nat
    OBVIOUS
  <2>1. \A y \in Nat : y * x \in Nat
    OBVIOUS
  <2> QED BY <1>2, <2>1
<1>4. PICK g \in [0 .. Len(l) -> Nat] :
        g[0] = 1 /\ \A j \in 1 .. Len(l) : g[j] = times[j][g[j - 1]]
  <2> HIDE DEF times
  <2>1. 1 \in Nat
    OBVIOUS
  <2> QED BY ONLY <1>1, <1>3, <2>1, Recursion
<1>5. \A j \in 0 .. Len(l) :
        g[j] = IF j = 0 THEN 1 ELSE Number(l[Len(l) + 1 - j]) * g[j - 1]
  <2> SUFFICES ASSUME NEW j \in 0 .. Len(l), j # 0
               PROVE  g[j] = Number(l[Len(l) + 1 - j]) * g[j - 1]
    BY <1>4
  <2>1. j \in 1 .. Len(l) /\ j - 1 \in 0 .. Len(l)
    BY ONLY <1>1, j \in 0 .. Len(l), j # 0
  <2>2. g[j - 1] \in Nat
    BY <2>1
  <2> QED BY <1>4, <2>1, <2>2
<1> HIDE DEF times
<1>6. g = [j \in 0 .. Len(l) |-> g[j]]
  OBVIOUS
<1>7. CellsUpTo(l, Len(l), g)
  BY <1>5, <1>6 DEF CellsUpTo
<1> QED BY <1>7

LEMMA CellsOfLabel ==
  ASSUME NEW l \in Labels
  PROVE  /\ Cells(l, 0) = 1
         /\ \A k \in 0 .. (Len(l) - 1) : /\ Cells(l, k) \in Nat
              /\ Cells(l, k + 1) = Number(l[Len(l) - k]) * Cells(l, k)
<1> DEFINE cells == CHOOSE g : CellsUpTo(l, Len(l), g)
<1>1. CellsUpTo(l, Len(l), cells)
  BY CellsExist
<1>2. \A k : Cells(l, k) = cells[k]
  BY DEF Cells, CellsUpTo
<1> HIDE DEF cells
<1>3. \A j \in 0 .. Len(l) :
        cells[j] = IF j = 0 THEN 1 ELSE Number(l[Len(l) + 1 - j]) * cells[j - 1]
  BY <1>1 DEF CellsUpTo
<1>4. Len(l) \in Nat
  BY LabelFacts
<1>5. cells[0] = 1
  BY <1>3, <1>4
<1>6. ASSUME NEW k \in 0 .. (Len(l) - 1)
      PROVE  cells[k + 1] = Number(l[Len(l) - k]) * cells[k]
  <2>1. k + 1 \in 0 .. Len(l) /\ k + 1 # 0 /\ Len(l) + 1 - (k + 1) = Len(l) - k
        /\ k + 1 - 1 = k
    BY ONLY <1>4, k \in 0 .. (Len(l) - 1)
  <2> QED BY <1>3, <2>1
<1>7. \A k \in 0 .. Len(l) : cells[k] \in Nat
  <2> DEFINE T == {k \in 0 .. Len(l) : cells[k] \in Nat}
  <2>1. 0 \in T
    BY <1>4, <1>5
  <2>2. ASSUME NEW k \in 0 .. (Len(l) - 1), k \in T PROVE k + 1 \in T
    <3>1. Len(l) - k \in 1 .. Len(l) /\ k + 1 \in 0 .. Len(l)
      BY ONLY <1>4, k \in 0 .. (Len(l) - 1)
    <3>2. Number(l[Len(l) - k]) \in Nat /\ cells[k] \in Nat
      BY <2>2, <3>1, NumbersOfLabel
    <3>3. \A x, y \in Nat : x * y \in Nat
      OBVIOUS
    <3>4. cells[k + 1] \in Nat
      BY <1>6, <3>2, <3>3
    <3> QED BY <3>1, <3>4
  <2> HIDE DEF T
  <2>3. \A k \in 0 .. (Len(l) - 1) : k \in T => k + 1 \in T
    BY <2>2
  <2>4. \A k \in 0 .. Len(l) : k \in T
    BY ONLY <1>4, <2>1, <2>3, InductionUpTo
  <2> QED BY <2>4 DEF T
<1>8. \A k \in 0 .. (Len(l) - 1) : k \in 0 .. Len(l)
  BY ONLY <1>4
<1> QED BY <1>2, <1>5, <1>6, <1>7, <1>8

(***************************************************************************)
(* The invariant: an error means a label that does not fit; without one,   *)
(* the calls that returned have multiplied as many of the innermost        *)
(* dimensions as there are fewer calls open.                               *)
(***************************************************************************)
Spans(r) ==
  /\ \A k \in 1 .. Len(label) : Number(label[k]) \in 1 .. IntMax
  /\ inside = [rank |-> r, size |-> Cells(label, r)]
  /\ \A j \in 0 .. r : Cells(label, j) <= IntMax
  /\ r > 1 => r < MaxVectorDimensions

AcceptInv ==
  /\ error => ~LabelFits(label)
  /\ step = "done" => Len(sizes) = 0
  /\ ~error /\ step = "digits" => inside = Scalar
  /\ ~error /\ step \in {"return", "done"} => Spans(Len(label) - Len(sizes))

(* A number that is not the int it is read into.                            *)
LEMMA DigitTooMuch ==
  ASSUME LabelInv, DimensionsRead, ReadDigit, ~error, error'
  PROVE  ~LabelFits(label)
<1>1. /\ step = "digits" /\ at < Len(Dimension)
      /\ Len(sizes) \in Nat /\ Len(sizes) + 1 \in 1 .. Len(label)
      /\ Dimension \in Seq(0 .. 9) /\ Len(Dimension) \in Nat
      /\ at \in Nat /\ res \in 0 .. IntMax
  BY DimensionIsOne DEF ReadDigit, LabelInv, LabelTypeOK
<1>2. PICK digit : digit = Dimension[at + 1]
  OBVIOUS
<1>3. at + 1 \in 1 .. Len(Dimension) /\ digit \in 0 .. 9
      /\ at \in 0 .. (Len(Dimension) - 1) /\ at + 1 \in 0 .. Len(Dimension)
  BY ONLY <1>1, <1>2
<1>4. Decimal(Dimension, at + 1) = res * 10 + digit
  BY <1>1, <1>2, <1>3, DecimalOfDigits DEF DimensionsRead
<1>5. is_mult_overflow(res, 10) \/ is_add_overflow(Wrap(res * 10), digit)
  BY <1>2 DEF ReadDigit
<1>6. res * 10 + digit > IntMax
  <2>1. 10 \in 1 .. IntMax /\ IntMax \in Int
    BY IntRangeAssumption
  <2>2. CASE is_mult_overflow(res, 10)
    <3>1. res * 10 > IntMax
      BY ONLY <1>1, <2>1, <2>2, ProductTooLarge
    <3> QED BY ONLY <1>1, <1>3, <2>1, <3>1
  <2>3. CASE ~ is_mult_overflow(res, 10)
    <3>1. res * 10 \in 0 .. IntMax /\ Wrap(res * 10) = res * 10
      BY ONLY <1>1, <2>1, <2>3, ProductFits
    <3>2. is_add_overflow(res * 10, digit)
      BY ONLY <1>5, <2>3, <3>1
    <3> QED BY ONLY <1>1, <1>3, <2>1, <3>1, <3>2 DEF is_add_overflow
  <2> QED BY ONLY <2>2, <2>3
<1>7. PICK n, m : n = Number(Dimension) /\ m = Decimal(Dimension, at + 1)
  OBVIOUS
<1>8. m <= n /\ m \in Nat /\ n \in Nat
  <2>1. Len(Dimension) \in 0 .. Len(Dimension)
    BY ONLY <1>1
  <2> QED BY <1>1, <1>3, <1>7, <2>1, DecimalGrows DEF Number
<1>9. ~ (n \in 1 .. IntMax)
  BY ONLY <1>4, <1>6, <1>7, <1>8, IntRangeAssumption
<1>10. n = Number(label[Len(sizes) + 1]) /\ Len(sizes) + 1 \in DOMAIN label
  <2>1. label \in Seq(Seq(0 .. 9) \ {<< >>})
    BY LabelFacts DEF LabelInv
  <2> QED BY <1>1, <1>7, <2>1 DEF Dimension
<1> QED BY <1>9, <1>10 DEF LabelFits

LEMMA AcceptReadDigit ==
  LabelInv /\ DimensionsRead /\ AcceptInv /\ ReadDigit => AcceptInv'
<1> SUFFICES ASSUME LabelInv, DimensionsRead, AcceptInv, ReadDigit
             PROVE  AcceptInv'
  OBVIOUS
<1>1. /\ UNCHANGED << label, sizes, inside, step >> /\ step = "digits"
      /\ error => error'
  BY DEF ReadDigit
<1>2. error' => ~LabelFits(label)
  BY DigitTooMuch DEF AcceptInv
<1>3. ~error' => inside = Scalar
  BY <1>1 DEF AcceptInv
<1> QED BY <1>1, <1>2, <1>3 DEF AcceptInv

LEMMA AcceptPushDimension ==
  LabelInv /\ DimensionsRead /\ AcceptInv /\ PushDimension => AcceptInv'
<1> SUFFICES ASSUME LabelInv, DimensionsRead, AcceptInv, PushDimension
             PROVE  AcceptInv'
  OBVIOUS
<1>1. /\ UNCHANGED << label, inside >> /\ step = "digits" /\ at = Len(Dimension)
      /\ error' = (error \/ res <= 0)
      /\ step' = IF Len(sizes) + 1 = Len(label) THEN "return" ELSE "digits"
  BY DEF PushDimension
<1>2. /\ Len(sizes) \in Nat /\ Len(sizes) + 1 \in 1 .. Len(label)
      /\ Len(sizes') = Len(sizes) + 1 /\ res \in 0 .. IntMax
  BY <1>1, DimensionIsOne, DimensionPushed
<1>3. label \in Labels /\ label \in Seq(Seq(0 .. 9) \ {<< >>})
      /\ Len(label) \in Nat \ {0}
  BY LabelFacts DEF LabelInv
<1>4. ASSUME error' PROVE ~LabelFits(label)
  <2>1. CASE error
    BY <2>1 DEF AcceptInv
  <2>2. CASE ~error
    <3>1. res = 0
      <4>1. res <= 0
        BY ONLY <1>1, <1>4, <2>2, Zenon
      <4> QED BY ONLY <1>2, <4>1, IntRangeAssumption
    <3>2. Number(label[Len(sizes) + 1]) = 0
      BY <1>1, <2>2, <3>1 DEF DimensionsRead, Number, Dimension
    <3>3. Len(sizes) + 1 \in DOMAIN label
      BY <1>2, <1>3
    <3>4. ~ (0 \in 1 .. IntMax)
      BY IntRangeAssumption
    <3> QED BY <3>2, <3>3, <3>4 DEF LabelFits
  <2> QED BY <2>1, <2>2
<1>5. ~error' => inside = Scalar
  BY <1>1 DEF AcceptInv
<1>6. ASSUME ~error', step' = "return" PROVE Spans(0)' /\ Len(label') - Len(sizes') = 0
  <2>1. Len(sizes') = Len(label)
    BY <1>1, <1>2, <1>6
  <2>2. LabelInv' /\ DimensionsRead'
    BY LabelInvPushDimension, ReadPushDimension
  <2>3. ASSUME NEW k \in 1 .. Len(label) PROVE Number(label[k]) \in 1 .. IntMax
    <3>1. sizes' \in Seq(0 .. IntMax)
      BY <2>2 DEF LabelInv, LabelTypeOK
    <3>2. k \in 1 .. Len(sizes') /\ k \in DOMAIN sizes'
      BY ONLY <2>1, <3>1, k \in 1 .. Len(label)
    <3>3. sizes'[k] \in 0 .. IntMax
      BY ONLY <3>1, <3>2, ElementOf
    <3>4. sizes'[k] > 0
      BY <1>6, <2>2, <3>2 DEF LabelInv, Positive
    <3>5. sizes'[k] = Number(label[k])
      BY <1>1, <1>6, <2>2, <3>2 DEF DimensionsRead, Number
    <3> QED BY ONLY <3>3, <3>4, <3>5, IntRangeAssumption
  <2>4. Cells(label, 0) = 1 /\ 1 <= IntMax
    BY <1>3, CellsOfLabel, IntRangeAssumption
  <2>5. inside' = [rank |-> 0, size |-> Cells(label, 0)]
    BY <1>1, <1>5, <1>6, <2>4 DEF Scalar
  <2>6. \A j \in 0 .. 0 : Cells(label, j) <= IntMax
    <3>1. \A j \in 0 .. 0 : j = 0
      OBVIOUS
    <3> QED BY <2>4, <3>1
  <2>7. ~ (0 > 1)
    OBVIOUS
  <2>8. Len(label') - Len(sizes') = 0
    BY <1>1, <1>3, <2>1
  <2> QED BY <1>1, <2>3, <2>5, <2>6, <2>7, <2>8 DEF Spans
<1>7. step' \in {"digits", "return"}
  BY <1>1
<1> QED BY <1>1, <1>4, <1>5, <1>6, <1>7 DEF AcceptInv

(* Where a call returns, and the dimension it multiplies with.              *)
LEMMA DimensionReturned ==
  ASSUME LabelInv, DimensionsRead, step = "return", ~error,
         NEW r, r = Len(label) - Len(sizes), Spans(r)
  PROVE  /\ Len(sizes) \in 1 .. Len(label) /\ r \in 0 .. (Len(label) - 1)
         /\ Size = Number(label[Len(label) - r]) /\ Size \in 1 .. IntMax
         /\ Cells(label, r) \in 0 .. IntMax
         /\ Cells(label, r + 1) = Size * Cells(label, r)
<1>1. sizes \in Seq(0 .. IntMax) /\ Len(sizes) <= Len(label) /\ 0 < Len(sizes)
  BY DEF LabelInv, LabelTypeOK
<1>2. label \in Labels /\ Len(label) \in Nat \ {0}
  BY LabelFacts DEF LabelInv
<1>3. /\ Len(sizes) \in 1 .. Len(label) /\ r \in 0 .. (Len(label) - 1)
      /\ Len(label) - r = Len(sizes) /\ r \in 0 .. r
  BY ONLY <1>1, <1>2, r = Len(label) - Len(sizes)
<1>4. Size = Number(label[Len(label) - r])
  <2>1. Len(sizes) \in DOMAIN sizes
    BY ONLY <1>1, <1>3
  <2> QED BY <1>3, <2>1 DEF DimensionsRead, Number, Size
<1>5. Size \in 1 .. IntMax
  BY <1>3, <1>4 DEF Spans
<1>6. /\ Cells(label, r) \in Nat
      /\ Cells(label, r + 1) = Size * Cells(label, r)
  BY <1>2, <1>3, <1>4, CellsOfLabel
<1>7. Cells(label, r) <= IntMax
  BY <1>3 DEF Spans
<1>8. Cells(label, r) \in 0 .. IntMax
  BY ONLY <1>6, <1>7, IntRangeAssumption
<1> QED BY <1>3, <1>4, <1>5, <1>6, <1>8

(* A call that returns one dimension more.                                  *)
LEMMA AcceptReturned ==
  ASSUME LabelInv, DimensionsRead, step = "return", ~error, error' = error,
         NEW r, r = Len(label) - Len(sizes), Spans(r),
         CallReturnsType([rank |-> r + 1, size |-> Cells(label, r + 1)]),
         Cells(label, r + 1) <= IntMax,
         r > 0 => r + 1 < MaxVectorDimensions
  PROVE  AcceptInv'
<1>1. Len(sizes) \in 1 .. Len(label) /\ r \in 0 .. (Len(label) - 1)
  BY DimensionReturned
<1>2. Len(label) \in Nat
  BY LabelFacts DEF LabelInv
<1>3. /\ label' = label /\ inside' = [rank |-> r + 1, size |-> Cells(label, r + 1)]
      /\ step' = IF Len(sizes) = 1 THEN "done" ELSE "return"
  BY DEF CallReturnsType
<1>4. Len(sizes') = Len(sizes) - 1
  BY CallReturned
<1>5. Len(label') - Len(sizes') = r + 1 /\ (step' = "done" => Len(sizes') = 0)
      /\ step' # "digits"
  BY ONLY <1>1, <1>2, <1>3, <1>4, r = Len(label) - Len(sizes)
<1>6. Spans(r + 1)'
  <2>1. \A j \in 0 .. (r + 1) : j \in 0 .. r \/ j = r + 1
    BY ONLY <1>1, <1>2
  <2>2. \A j \in 0 .. (r + 1) : Cells(label, j) <= IntMax
    BY <2>1 DEF Spans
  <2>3. r + 1 > 1 => r + 1 < MaxVectorDimensions
    BY <1>1, <1>2
  <2> QED BY <1>3, <2>2, <2>3 DEF Spans
<1> QED BY <1>5, <1>6 DEF AcceptInv

(* With an error, the calls return whatever they return.                    *)
LEMMA RejectedReturned ==
  ASSUME LabelInv, step = "return", error', ~LabelFits(label),
         NEW type, CallReturnsType(type)
  PROVE  AcceptInv'
<1>1. label' = label /\ step' = IF Len(sizes) = 1 THEN "done" ELSE "return"
  BY DEF CallReturnsType
<1>2. Len(sizes') = Len(sizes) - 1 /\ Len(sizes) \in Nat
  BY CallReturned
<1> QED BY <1>1, <1>2 DEF AcceptInv

LEMMA AcceptReturnVectorOfScalars ==
  LabelInv /\ DimensionsRead /\ AcceptInv /\ ReturnVectorOfScalars => AcceptInv'
<1> SUFFICES ASSUME LabelInv, DimensionsRead, AcceptInv, ReturnVectorOfScalars
             PROVE  AcceptInv'
  OBVIOUS
<1>1. /\ step = "return" /\ inside.rank = 0 /\ error' = error
      /\ CallReturnsType([rank |-> 1, size |-> Size])
  BY DEF ReturnVectorOfScalars
<1>2. CASE error
  BY <1>1, <1>2, RejectedReturned DEF AcceptInv
<1>3. CASE ~error
  <2>1. PICK r : r = Len(label) - Len(sizes)
    OBVIOUS
  <2>2. Spans(r)
    BY <1>1, <1>3, <2>1 DEF AcceptInv
  <2>3. r = 0
    BY <1>1, <2>2 DEF Spans
  <2>4. Size \in 1 .. IntMax /\ Cells(label, r + 1) = Size * Cells(label, r)
    BY <1>1, <1>3, <2>1, <2>2, DimensionReturned
  <2>5. Cells(label, 0) = 1
    BY CellsOfLabel DEF LabelInv
  <2>6. Cells(label, r + 1) = Size /\ Size <= IntMax /\ r + 1 = 1 /\ ~ (r > 0)
    <3>1. Cells(label, r + 1) = Size * 1
      BY ONLY <2>3, <2>4, <2>5
    <3> QED BY ONLY <2>3, <2>4, <3>1, IntRangeAssumption
  <2>7. CallReturnsType([rank |-> r + 1, size |-> Cells(label, r + 1)])
    BY ONLY <1>1, <2>6
  <2> QED BY <1>1, <1>3, <2>1, <2>2, <2>6, <2>7, AcceptReturned
<1> QED BY <1>2, <1>3

LEMMA AcceptReturnVectorOfVectors ==
  LabelInv /\ DimensionsRead /\ AcceptInv /\ ReturnVectorOfVectors => AcceptInv'
<1> SUFFICES ASSUME LabelInv, DimensionsRead, AcceptInv, ReturnVectorOfVectors
             PROVE  AcceptInv'
  OBVIOUS
<1>1. /\ step = "return" /\ inside.rank > 0 /\ inside.size # 0
      /\ (error => error') /\ error \in BOOLEAN /\ error' \in BOOLEAN
  <2>1. error \in BOOLEAN
    BY DEF LabelInv, LabelTypeOK
  <2> QED BY <2>1 DEF ReturnVectorOfVectors
<1>2. PICK type : CallReturnsType(type)
  BY DEF ReturnVectorOfVectors
<1>3. CASE error
  BY <1>1, <1>2, <1>3, RejectedReturned DEF AcceptInv
<1>4. CASE ~error
  <2>1. PICK r : r = Len(label) - Len(sizes)
    OBVIOUS
  <2>2. Spans(r)
    BY <1>1, <1>4, <2>1 DEF AcceptInv
  <2>3. PICK n : n = Cells(label, r)
    OBVIOUS
  <2>4. inside.rank = r /\ inside.size = n
    BY <2>2, <2>3 DEF Spans
  <2>5. /\ r \in 0 .. (Len(label) - 1) /\ Size \in 1 .. IntMax /\ n \in 0 .. IntMax
        /\ Cells(label, r + 1) = Size * n
    BY <1>1, <1>4, <2>1, <2>2, <2>3, DimensionReturned
  <2>6. /\ label \in Labels /\ label \in Seq(Seq(0 .. 9) \ {<< >>})
        /\ Len(label) \in Nat \ {0}
    BY LabelFacts DEF LabelInv
  <2>7. /\ n \in 1 .. IntMax /\ Size \in 0 .. IntMax /\ r > 0 /\ r \in Nat
        /\ r + 1 \in DOMAIN label /\ r + 1 <= Len(label) /\ Len(label) > 1
    BY ONLY <1>1, <2>4, <2>5, <2>6, IntRangeAssumption
  <2>8. CASE is_mult_overflow(Size, n)
    <3>1. Size * n > IntMax
      BY ONLY <2>7, <2>8, ProductTooLarge
    <3>2. Size * n \in Int /\ IntMax \in Int
      <4>1. \A x, y \in Int : x * y \in Int
        OBVIOUS
      <4> QED BY ONLY <2>5, <4>1, IntRangeAssumption
    <3>3. ~ (Cells(label, r + 1) <= IntMax)
      BY ONLY <2>5, <3>1, <3>2
    <3>4. ~LabelFits(label)
      BY ONLY <2>7, <3>3 DEF LabelFits
    <3>5. error'
      BY <2>4, <2>8 DEF ReturnVectorOfVectors
    <3> QED BY <1>1, <1>2, <3>4, <3>5, RejectedReturned
  <2>9. CASE ~is_mult_overflow(Size, n) /\ 1 + r >= MaxVectorDimensions
    <3>1. ~LabelFits(label)
      BY ONLY <2>6, <2>7, <2>9, LabelsAssumption DEF LabelFits
    <3>2. error'
      BY <2>4, <2>9 DEF ReturnVectorOfVectors
    <3> QED BY <1>1, <1>2, <3>1, <3>2, RejectedReturned
  <2>10. CASE ~is_mult_overflow(Size, n) /\ ~ (1 + r >= MaxVectorDimensions)
    <3>1. Size * n \in 0 .. IntMax /\ Wrap(Size * n) = Size * n
      BY ONLY <2>7, <2>10, ProductFits
    <3>2. /\ CallReturnsType([rank |-> 1 + r, size |-> Wrap(Size * n)])
          /\ error' = error
      BY <2>4, <2>10 DEF ReturnVectorOfVectors
    <3>3. 1 + r = r + 1 /\ r + 1 < MaxVectorDimensions
      BY ONLY <2>7, <2>10, LabelsAssumption
    <3>4. CallReturnsType([rank |-> r + 1, size |-> Cells(label, r + 1)])
      BY ONLY <2>5, <3>1, <3>2, <3>3
    <3>5. Cells(label, r + 1) <= IntMax
      BY ONLY <2>5, <3>1, IntRangeAssumption
    <3> QED BY <1>1, <1>4, <2>1, <2>2, <3>2, <3>3, <3>4, <3>5, AcceptReturned
  <2> QED BY <2>8, <2>9, <2>10
<1> QED BY <1>3, <1>4

(* vector_type_node_to_type accepts a label exactly if no dimension is 0 or *)
(* more than an int can hold, no product on the way out is more, and there  *)
(* are fewer dimensions than there may be; the type then has the rank and   *)
(* the number of cells that the label says.  No overflow makes it accept a  *)
(* label, and none that would fit is refused.                               *)
THEOREM LabelAcceptedIfFits == LabelSpec => []AcceptedIfFits
<1>1. LabelInit => AcceptInv
  BY DEF LabelInit, AcceptInv
<1>2. LabelInv /\ DimensionsRead /\ AcceptInv /\ [LabelNext]_labelVars => AcceptInv'
  <2> SUFFICES ASSUME LabelInv, DimensionsRead, AcceptInv, [LabelNext]_labelVars
               PROVE  AcceptInv'
    OBVIOUS
  <2>1. CASE DivideByZero
    BY <2>1 DEF DivideByZero, AcceptInv
  <2>2. CASE UNCHANGED labelVars
    BY <2>2 DEF labelVars, AcceptInv, Spans
  <2> QED BY <2>1, <2>2, AcceptReadDigit, AcceptPushDimension,
             AcceptReturnVectorOfScalars, AcceptReturnVectorOfVectors DEF LabelNext
<1>3. LabelInv /\ AcceptInv => AcceptedIfFits
  <2> SUFFICES ASSUME LabelInv, AcceptInv, step = "done" PROVE
               /\ error <=> ~LabelFits(label)
               /\ ~error => inside = [rank |-> Len(label),
                                      size |-> Cells(label, Len(label))]
    BY DEF AcceptedIfFits
  <2>1. label \in Seq(Seq(0 .. 9) \ {<< >>}) /\ Len(label) \in Nat /\ Len(sizes) = 0
    BY LabelFacts DEF LabelInv, AcceptInv
  <2>2. Len(label) - Len(sizes) = Len(label)
    BY ONLY <2>1
  <2>3. ~error => Spans(Len(label))
    BY <2>2 DEF AcceptInv
  <2>4. DOMAIN label = 1 .. Len(label) /\ \A k \in 1 .. Len(label) : k \in 0 .. Len(label)
    BY ONLY <2>1
  <2>5. ~error => LabelFits(label)
    BY <2>3, <2>4 DEF Spans, LabelFits
  <2> QED BY <2>3, <2>5 DEF AcceptInv, Spans
<1> QED BY <1>1, <1>2, <1>3, LabelInvAlways, DimensionsAsWritten, PTL DEF LabelSpec
=============================================================================
