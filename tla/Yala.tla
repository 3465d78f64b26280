-------------------------------- MODULE Yala --------------------------------
(***************************************************************************)
(* yala.c: a source is compiled and, unless the compiler reports an error, *)
(* the virtual machine runs the result.  The images are compiled programs, *)
(* which carry their source; this module states what compiler and machine  *)
(* promise together.                                                       *)
(***************************************************************************)
EXTENDS StackDiscipline, Reference, Shapes

-----------------------------------------------------------------------------
(* The machine on the compiled program implements the source: it prints,    *)
(* reads and ends as the source says, in that order.                        *)
Abstract == INSTANCE Language WITH source <- image.source

ImplementsSource == Abstract!Spec

(* The same where the stacks may be too small for the program.              *)
ImplementsUpToLimit == Abstract!SpecUpToLimit

(* What the compiler emits is well formed, and its code agrees with what    *)
(* the types of the source say of the vectors in it: which values are       *)
(* vectors, whose cells lie where, and what a call leaves behind.  (The     *)
(* image never changes: it is looked at where the machine starts.)          *)
CompilesToWellFormed ==
  (framese = 0 /\ IP = 0) =>
    /\ WellFormed(image)
    /\ LET views == ViewsOf(image) IN ArraysWellFormed(image, views)

(* A cell is read as the member of union value that was last written to it: *)
(* no instruction takes a string for an integer or an integer for a vector. *)
(* Only what the compiler checks of types keeps the machine from that.      *)
TagOf(type) == CASE type \in {VAL_INTEGER, VAL_BOOLEAN} -> "int"
                 [] type = VAL_STRING   -> "str"
                 [] type = VAL_VECTOR   -> "vec"
                 [] type = VAL_FUNCTION -> "fn"

Tagged(k, tag) == peekv(k).t = tag

UnionsReadAsWritten ==
  /\ ReadAsWritten
  /\ status = "run" =>
    /\ Op \in BinaryOps \ {OP_EQUA, OP_LT, OP_LEQ, OP_GRT, OP_GRTEQ} =>
         Tagged(1, "int") /\ Tagged(2, "int")
    /\ Op \in {OP_EQUA, OP_LT, OP_LEQ, OP_GRT, OP_GRTEQ} =>
         Tagged(1, TagOf(Arg(1))) /\ Tagged(2, TagOf(Arg(1)))
    /\ Op \in {OP_NOT, OP_SKIPF_LONG, OP_ASTACK_SHIFT_UP} => Tagged(1, "int")
    /\ Op = OP_SHIFT_ASTACKENT_TO_BASE => Tagged(1, "vec")
    /\ Op = OP_GET_INDEX =>
         /\ \A k \in 1 .. (Arg(1) + Arg(2)) : Tagged(k, "int")
         /\ Tagged(Arg(1) + Arg(2) + 1, "vec")
    /\ Op = OP_SET_INDEX_LOCAL_LONG =>
         /\ \A k \in 1 .. (Arg(5) + Arg(6)) : Tagged(k, "int")
         /\ Arg(5) # Arg(6) => Tagged(Arg(5) + Arg(6) + 1, "vec")
    /\ Op = OP_WRITE =>
         \A k \in 1 .. Arg(1) : Tagged(3 * k, TagOf(peekv(3 * k - 1).i))

(* Every run comes to its end: the loops of the program are left.           *)
Terminates == <>(status # "run")
=============================================================================
