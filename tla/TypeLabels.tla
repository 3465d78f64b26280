----------------------------- MODULE TypeLabels -----------------------------
(***************************************************************************)
(* vector_type_node_to_type (semantics/semantics.c): a label               *)
(*   vector [d1] of vector [d2] of ... of scalar                           *)
(* becomes the rank and the number of cells of a type.  The dimensions are *)
(* read digit by digit and multiplied on the way out of the recursion, all *)
(* of it in int, and two helpers of value.c tell beforehand whether the    *)
(* next operation overflows.  Module Semantics takes the outcome from      *)
(* BadTypeLabel and Product; here is how the code comes to it.             *)
(***************************************************************************)
EXTENDS Values

CONSTANTS
  Labels,               \* labels: the dimensions, each a sequence of digits
  MaxVectorDimensions   \* MAX_VECTOR_DIMENSIONS

ASSUME LabelsAssumption ==
  /\ Labels \subseteq Seq(Seq(0 .. 9) \ {<< >>}) \ {<< >>}
  /\ MaxVectorDimensions \in Nat

VARIABLES
  label,    \* the label that is read (never changes)
  at,       \* digits read of the current dimension
  res,      \* what they come to
  sizes,    \* open calls of vector_type_node_to_type: type.size of each
  inside,   \* the type the last call returned
  error,    \* env->error
  step      \* "digits", "return", "done", or "trap": the compiler is killed

labelVars == << label, at, res, sizes, inside, error, step >>

Scalar == [rank |-> 0, size |-> 1]
Dimension == label[Len(sizes) + 1]
Size      == sizes[Len(sizes)]

LabelInit ==
  /\ label \in Labels
  /\ at = 0 /\ res = 0
  /\ sizes = << >> /\ inside = Scalar
  /\ error = FALSE
  /\ step = "digits"

-----------------------------------------------------------------------------
is_add_overflow(a, x) ==
  \/ x > 0 /\ a > IntMax - x
  \/ x < 0 /\ a < IntMin - x

(* A slip in is_mult_overflow: an int more than there is.                   *)
is_mult_overflow_OneMore(a, x) ==
  a > TruncDiv(IntMax, x) + 1 \/ a < TruncDiv(IntMin, x)

(* For x # 0, which nobody checks: the division by 0 is a signal.           *)
is_mult_overflow(a, x) ==
  \/ a = -1 /\ x = IntMin
  \/ x = -1 /\ a = IntMin
  \/ a > TruncDiv(IntMax, x)
  \/ a < TruncDiv(IntMin, x)

(* A turn of the loop of parse_integer_token, which an overflow ends.       *)
ReadDigit ==
  /\ step = "digits" /\ at < Len(Dimension)
  /\ LET digit == Dimension[at + 1]
         ten   == Wrap(res * 10)
     IN  IF is_mult_overflow(res, 10) \/ is_add_overflow(ten, digit)
         THEN error' = TRUE /\ at' = Len(Dimension) /\ UNCHANGED res
         ELSE res' = Wrap(ten + digit) /\ at' = at + 1 /\ UNCHANGED error
  /\ UNCHANGED << label, sizes, inside, step >>

(* A slip in PushDimension: 0 is let through.                              *)
PushDimension_Zero ==
  /\ step = "digits" /\ at = Len(Dimension)
  /\ error' = (error \/ res < 0)
  /\ sizes' = Append(sizes, res)
  /\ at' = 0 /\ res' = 0
  /\ step' = IF Len(sizes) + 1 = Len(label) THEN "return" ELSE "digits"
  /\ UNCHANGED << label, inside >>

(* A slip in PushDimension: the next dimension goes on where this one ends. *)
PushDimension_KeepsRes ==
  /\ step = "digits" /\ at = Len(Dimension)
  /\ error' = (error \/ res <= 0)
  /\ sizes' = Append(sizes, res)
  /\ at' = 0 /\ UNCHANGED res
  /\ step' = IF Len(sizes) + 1 = Len(label) THEN "return" ELSE "digits"
  /\ UNCHANGED << label, inside >>

(* The dimension is known; next comes the label inside.                     *)
PushDimension ==
  /\ step = "digits" /\ at = Len(Dimension)
  /\ error' = (error \/ res <= 0)
  /\ sizes' = Append(sizes, res)
  /\ at' = 0 /\ res' = 0
  /\ step' = IF Len(sizes) + 1 = Len(label) THEN "return" ELSE "digits"
  /\ UNCHANGED << label, inside >>

(* The call returns type.                                                  *)
CallReturnsType(type) ==
  /\ sizes' = SubSeq(sizes, 1, Len(sizes) - 1)
  /\ inside' = type
  /\ step' = IF Len(sizes) = 1 THEN "done" ELSE "return"
  /\ UNCHANGED << label, at, res >>

ReturnVectorOfScalars ==
  /\ step = "return" /\ inside.rank = 0
  /\ CallReturnsType([rank |-> 1, size |-> Size])
  /\ UNCHANGED error

ReturnVectorOfVectors ==
  /\ step = "return" /\ inside.rank > 0 /\ inside.size # 0
  /\ LET size == Wrap(Size * inside.size)
     IN  IF is_mult_overflow(Size, inside.size)
         THEN error' = TRUE /\ CallReturnsType([rank |-> 1, size |-> Size])
         ELSE IF 1 + inside.rank >= MaxVectorDimensions
         THEN error' = TRUE /\ CallReturnsType([rank |-> 1, size |-> size])
         ELSE /\ CallReturnsType([rank |-> 1 + inside.rank, size |-> size])
              /\ UNCHANGED error

(* A dimension of 0 was reported, and is divided by all the same.           *)
DivideByZero ==
  /\ step = "return" /\ inside.rank > 0 /\ inside.size = 0
  /\ step' = "trap"
  /\ UNCHANGED << label, at, res, sizes, inside, error >>

LabelNext ==
  \/ ReadDigit \/ PushDimension
  \/ ReturnVectorOfScalars \/ ReturnVectorOfVectors \/ DivideByZero

LabelSpec == LabelInit /\ [][LabelNext]_labelVars

-----------------------------------------------------------------------------
(* Types: whatever the digits, no number leaves the range of int, and none  *)
(* is negative.                                                             *)
LabelTypeOK ==
  /\ at \in Nat /\ (step = "digits" => at <= Len(Dimension))
  /\ res \in 0 .. IntMax
  /\ sizes \in Seq(0 .. IntMax) /\ Len(sizes) <= Len(label)
  /\ inside \in [rank : Nat, size : 0 .. IntMax]
  /\ error \in BOOLEAN
  /\ step \in {"digits", "return", "done", "trap"}

(* The number that the first k digits stand for.                            *)
Decimal(digits, k) ==
  LET value[j \in 0 .. Len(digits)] ==
        IF j = 0 THEN 0 ELSE value[j - 1] * 10 + digits[j]
  IN  value[k]

(* Without an error, the digits read so far were read as the number they    *)
(* stand for, and so was every dimension before: an int never wraps.        *)
DimensionsRead ==
  ~error =>
    /\ \A k \in DOMAIN sizes : sizes[k] = Decimal(label[k], Len(label[k]))
    /\ step = "digits" => res = Decimal(Dimension, at)

(* The cells that the k innermost dimensions span.                          *)
Number(digits) == Decimal(digits, Len(digits))

Cells(dims, k) ==
  LET cells[j \in 0 .. Len(dims)] ==
        IF j = 0 THEN 1 ELSE Number(dims[Len(dims) + 1 - j]) * cells[j - 1]
  IN  cells[k]

(* What an int can hold, and fewer dimensions than there may be.            *)
LabelFits(dims) ==
  /\ \A k \in DOMAIN dims : Number(dims[k]) \in 1 .. IntMax
  /\ \A k \in DOMAIN dims : Cells(dims, k) <= IntMax
  /\ Len(dims) > 1 => Len(dims) < MaxVectorDimensions

(* A label is accepted exactly if it fits, and then its type has the rank   *)
(* and the size that it says.                                               *)
AcceptedIfFits ==
  step = "done" =>
    /\ error <=> ~LabelFits(label)
    /\ ~error => inside = [rank |-> Len(label), size |-> Cells(label, Len(label))]

(* The compiler dies of no label whose error it has not reported before.    *)
TrapsOnlyAfterError == step = "trap" => error
=============================================================================
