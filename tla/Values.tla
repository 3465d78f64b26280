------------------------------- MODULE Values -------------------------------
(***************************************************************************)
(* The values a stack cell holds and the helpers of semantics/value.c the  *)
(* virtual machine calls on them.                                          *)
(*                                                                         *)
(* union value has no tag at run time.  A cell is modelled as a record     *)
(*   t  what was last written to the cell (ghost: no handler reads it),    *)
(*   i  the integer or Boolean, the index of the string in Strings, the    *)
(*      cell of the array stack where a vector starts (astackent), or the  *)
(*      index of a function's bytecode,                                    *)
(*   n  the size of a vector or the envindex of a function.                *)
(* A handler that reads the wrong member of the union therefore reads      *)
(* whatever i and n happen to hold, as the program does.                   *)
(***************************************************************************)
EXTENDS Bytecode, Integers, Sequences

CONSTANTS
  IntMin, IntMax,   \* the range of int, 32 bits in the program
  MaxArity,         \* MAX_ARITY: parameters of a function, cells of argstack
  Strings           \* every string a run can hold, each a sequence of bytes

ASSUME IntRangeAssumption ==
  IntMin \in Int /\ IntMax \in Int /\ IntMin <= 0 /\ 255 <= IntMax

ASSUME MaxArityAssumption == MaxArity \in Byte

ASSUME StringsAssumption ==
  Strings \in Seq(Seq(Nat)) /\ Len(Strings) > 0 /\ Strings[1] = << >>

Value == [t : {"junk", "int", "str", "vec", "fn"}, i : Int, n : Int]

IntV(x)        == [t |-> "int", i |-> x, n |-> 0]
BoolV(b)       == IntV(IF b THEN 1 ELSE 0)
StrV(s)        == [t |-> "str", i |-> s, n |-> 0]
VecV(ent, sz)  == [t |-> "vec", i |-> ent, n |-> sz]
FnV(code, env) == [t |-> "fn", i |-> code, n |-> env]

(* A cell that nothing has written yet: struct vm is an automatic variable.*)
Junk == [t |-> "junk", i |-> 0, n |-> 0]

(* value_void: the value every procedure returns.                          *)
value_void == IntV(0)

(***************************************************************************)
(* Signed arithmetic of the build (no optimisation): the result is reduced *)
(* to the width of int; division truncates towards zero.                   *)
(***************************************************************************)
Wrap(x) == IntMin + ((x - IntMin) % (IntMax - IntMin + 1))

Abs(x) == IF x < 0 THEN -x ELSE x

TruncDiv(a, b) == LET q == Abs(a) \div Abs(b)
                  IN  IF (a < 0) = (b < 0) THEN q ELSE -q

Sign(x) == IF x < 0 THEN -1 ELSE IF x > 0 THEN 1 ELSE 0

(***************************************************************************)
(* memcmp over the first Len(a) bytes: where b is shorter and agrees so    *)
(* far, the bytes after b are not the string's, so any sign can come back. *)
(***************************************************************************)
MemCmp(a, b) ==
  LET differ == {k \in DOMAIN a : k > Len(b) \/ a[k] # b[k]}
      first  == CHOOSE k \in differ : \A m \in differ : k <= m
  IN  IF differ = {} THEN {0}
      ELSE IF first > Len(b) THEN {-1, 0, 1}
      ELSE {Sign(a[first] - b[first])}

(***************************************************************************)
(* compare_values: the signs the comparison can return.  Integers are      *)
(* compared by the sign of their (wrapped) difference.  The two other      *)
(* operands the compiler can emit do not occur: exit(100) is left to the   *)
(* caller, which checks Comparable(type) first.                            *)
(***************************************************************************)
Comparable(type) == type \in {VAL_INTEGER, VAL_STRING}

compare_values(val0, val1, type) ==
  IF type = VAL_STRING
  THEN MemCmp(Strings[val0.i], Strings[val1.i])
  ELSE {Sign(Wrap(val0.i - val1.i))}

(***************************************************************************)
(* values_equal on two scalars: the answers it can give.  A cell that was  *)
(* never written may hold any word.                                        *)
(***************************************************************************)
ScalarsEqual(val0, val1, type) ==
  IF "junk" \in {val0.t, val1.t} THEN {TRUE, FALSE}
  ELSE {type # VAL_FUNCTION /\ val0.i = val1.i}

(* Cell a of a region of memory; outside of it, what is there is unknown.  *)
Cell(mem, a) == IF a \in DOMAIN mem THEN mem[a] ELSE Junk

(* values_equal; mem is the array stack.  Vectors are compared over the     *)
(* size of the left one, cell by cell, up to the first difference.          *)
values_equal(mem, val0, val1, type, base) ==
  IF type # VAL_VECTOR THEN ScalarsEqual(val0, val1, type)
  ELSE LET eq(k) == ScalarsEqual(Cell(mem, val0.i + k), Cell(mem, val1.i + k), base)
           ks    == 0 .. (val0.n - 1)
       IN  {b \in BOOLEAN : IF b THEN \A k \in ks : TRUE \in eq(k)
                                 ELSE \E k \in ks : FALSE \in eq(k)}

(* value_print, up to wording: the type that is printed and the scalars.    *)
value_print(mem, val, type) ==
  [type |-> type,
   vals |-> IF type # VAL_VECTOR THEN << val >>
            ELSE [k \in 1 .. (IF val.n > 0 THEN val.n ELSE 0) |->
                    Cell(mem, val.i + k - 1)]]

(* n cells from src copied to dst in ascending order, as the loops of the   *)
(* virtual machine do: where dst lies inside the source, the cells between  *)
(* src and dst are what is copied, again and again.                         *)
CopyCells(mem, dst, src, n) ==
  LET from(k) == src + (IF dst > src THEN k % (dst - src) ELSE k)
  IN  [c \in DOMAIN mem |-> IF dst <= c /\ c < dst + n
                            THEN Cell(mem, from(c - dst)) ELSE mem[c]]

(***************************************************************************)
(* index_flattened: each index times the dimensions to its right.          *)
(***************************************************************************)
index_flattened(dimensions, indices) ==
  LET n == Len(indices)
      stride[k \in 1 .. n] ==
        IF k = n THEN 1 ELSE dimensions[k + 1] * stride[k + 1]
      sum[k \in 0 .. n] ==
        IF k = 0 THEN 0 ELSE sum[k - 1] + indices[k] * stride[k]
  IN  sum[n]
=============================================================================
