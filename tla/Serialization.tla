--------------------------- MODULE Serialization ---------------------------
(***************************************************************************)
(* Compiled programs as text and back (serialization/serialization.c).     *)
(*                                                                         *)
(* The file is modelled as its lines.  The code of a function takes one    *)
(* line, each constant another; a function constant is the line of its     *)
(* code followed by the lines of its own constants, down to a line that    *)
(* ends it.  The lists of constants are not headed by a length and a       *)
(* constant does not say which address it belongs to: writer and reader    *)
(* agree on that only because the writer walks the code and the compiler   *)
(* emits one load for each constant, in order.                             *)
(*                                                                         *)
(* Writer and reader recurse over functions; their calls are explicit      *)
(* stacks here.  Line information is left out.                             *)
(***************************************************************************)
EXTENDS ImageFormat

(* Strings that differ in the blanks they begin with have the same rest.    *)
Blanks == {9, 32}

skip_spaces(s) ==
  LET first == CHOOSE k \in 1 .. (Len(s) + 1) :
                 /\ \A j \in 1 .. (k - 1) : s[j] \in Blanks
                 /\ k <= Len(s) => s[k] \notin Blanks
  IN  SubSeq(s, first, Len(s))

ASSUME StringsReadAssumption ==
  \A s \in DOMAIN Strings :
    \E r \in DOMAIN Strings : Strings[r] = skip_spaces(Strings[s])

VARIABLES
  object,   \* the image that is written (never changes)
  file,     \* the lines of the file
  torn,     \* the kind of the line cut off at the end of file, or "none"
  writer,   \* calls of serialize_bytecode: object and ip of each
  reader,   \* calls of deserialize_bytecode: object and the word of val
  loaded,   \* the objects that were read: code and constants of each
  pos,      \* lines read
  phase     \* what goes on, or what came of it; Toolchain adds "execute"

serialVars == << object, file, torn, writer, reader, loaded, pos, phase >>

Phases == {"write", "read", "loaded", "panic", "wild", "execute"}
Kinds  == {"code", "integer", "string", "vector", "function", "end"}

Line(k, n, code) == [k |-> k, n |-> n, code |-> code]

Top(s)  == s[Len(s)]
Rest(s) == SubSeq(s, 1, Len(s) - 1)

SerialInit ==
  /\ \E p \in Programs : object \in Images(p)
  /\ file = << >> /\ torn = "none"
  /\ writer = << >> /\ reader = << >> /\ loaded = << >>
  /\ pos = 0
  /\ phase = "write"

-----------------------------------------------------------------------------
(* The writer.                                                             *)

Writing == object.fns[Top(writer).fn]
WIP     == Top(writer).ip
Walking == writer # << >> /\ WIP < Len(Writing.code)
WOp     == Writing.code[WIP + 1]

(* The constant the instruction loads: read_address, then LIST_AT.          *)
AddressAt(fn, ip) == join_bytes(fn.code[ip + 2], fn.code[ip + 3])
WConstant == Writing.constants[AddressAt(Writing, WIP) + 1]

(* ip after the instruction and its operands.                              *)
Advanced == [writer EXCEPT ![Len(writer)].ip = @ + 1 + OperandBytes(WOp)]

(* serialize_loc: the opcode, not the constant, says what to write.         *)
serialize_loc(op, val) ==
  CASE op = OP_LOCI_LONG      -> Line("integer", val.i, << >>)
    [] op = OP_LOCS_LONG      -> Line("string", val.i, << >>)
    [] op = OP_LOC_ALINK_LONG -> Line("vector", val.n, << >>)
    [] op = OP_LOCF_LONG      -> Line("function", 0, object.fns[val.i].code)

(* The line that is written next; none while the walk skips instructions.   *)
NextLine ==
  IF writer = << >> THEN {Line("code", 0, object.fns[1].code)}
  ELSE IF ~Walking THEN {Line("end", 0, << >>)}
  ELSE IF WOp \in LocOpcodes THEN {serialize_loc(WOp, WConstant)}
  ELSE {}

Puts == /\ \E line \in NextLine : file' = Append(file, line)
        /\ UNCHANGED << object, torn, reader, loaded, pos >>

(* yala compile opens the file: what it held before is gone.               *)
WriteRoot ==
  /\ phase = "write" /\ writer = << >>
  /\ Puts
  /\ writer' = << [fn |-> 1, ip |-> 0] >>
  /\ UNCHANGED phase

SkipInstruction ==
  /\ phase = "write" /\ Walking /\ WOp \notin LocOpcodes
  /\ writer' = Advanced
  /\ UNCHANGED << object, file, torn, reader, loaded, pos, phase >>

WriteConstant ==
  /\ phase = "write" /\ Walking /\ WOp \in LocOpcodes \ {OP_LOCF_LONG}
  /\ Puts
  /\ writer' = Advanced
  /\ UNCHANGED phase

WriteFunction ==
  /\ phase = "write" /\ Walking /\ WOp = OP_LOCF_LONG
  /\ Puts
  /\ writer' = Append(Advanced, [fn |-> WConstant.i, ip |-> 0])
  /\ UNCHANGED phase

(* A slip in WriteEnd: only a list of constants inside another is ended.    *)
WriteEnd_InnerOnly ==
  /\ phase = "write" /\ writer # << >> /\ ~Walking
  /\ IF Len(writer) = 1 THEN UNCHANGED << object, file, torn, reader, loaded, pos >>
     ELSE Puts
  /\ writer' = Rest(writer)
  /\ phase' = IF Len(writer) = 1 THEN "read" ELSE "write"

WriteEnd ==
  /\ phase = "write" /\ writer # << >> /\ ~Walking
  /\ Puts
  /\ writer' = Rest(writer)
  /\ phase' = IF Len(writer) = 1 THEN "read" ELSE "write"

(* The process is killed, or the disk is full, which nothing checks for:    *)
(* the file ends between two lines or within one.                           *)
Crash ==
  /\ phase = "write"
  /\ torn' \in {"none"} \cup {line.k : line \in NextLine}
  /\ phase' = "read"
  /\ UNCHANGED << object, file, writer, reader, loaded, pos >>

WriterStep ==
  \/ WriteRoot \/ SkipInstruction \/ WriteConstant \/ WriteFunction \/ WriteEnd

-----------------------------------------------------------------------------
(* The reader.                                                             *)

(* skip_spaces also takes the blanks a string begins with.                  *)
StringRead(n) == CHOOSE j \in DOMAIN Strings : Strings[j] = skip_spaces(Strings[n])

(* The digits of an int, added up in an int, times the sign.                *)
read_integer(n) == Wrap(Sign(n) * Wrap(Abs(n)))

Reading == phase = "read" /\ pos < Len(file)
Current == file[pos + 1]

(* A slip in Push: the constant becomes the first one.                      *)
Push_Front(val) ==
  loaded' = [loaded EXCEPT ![Top(reader).fn].constants = << val >> \o @]

Push(val) ==
  loaded' = [loaded EXCEPT ![Top(reader).fn].constants = Append(@, val)]

(* A call of deserialize_bytecode has read its code.  Its val is an         *)
(* automatic variable; word is the part of it a function keeps envindex in. *)
Opens(code) ==
  /\ loaded' = Append(loaded, [code |-> code, constants |-> << >>])
  /\ \E word \in AnyInt :
       reader' = Append(reader, [fn |-> Len(loaded) + 1, word |-> word])

Reads == pos' = pos + 1 /\ UNCHANGED << object, file, torn, writer >>

ReadRoot ==
  /\ Reading /\ reader = << >>
  /\ Reads /\ Opens(Current.code)
  /\ UNCHANGED phase

ReadInteger ==
  /\ Reading /\ reader # << >> /\ Current.k = "integer"
  /\ Reads /\ Push(IntV(read_integer(Current.n)))
  /\ UNCHANGED << reader, phase >>

(* The length of a string and the size of a vector share a word of the      *)
(* union with envindex.                                                     *)
ReadString ==
  /\ Reading /\ reader # << >> /\ Current.k = "string"
  /\ LET s == StringRead(Current.n)
     IN  /\ Push(StrV(s))
         /\ reader' = [reader EXCEPT ![Len(reader)].word = Len(Strings[s])]
  /\ Reads
  /\ UNCHANGED phase

(* A slip in ReadVector: the number is taken for the address.               *)
ReadVector_Address ==
  /\ Reading /\ reader # << >> /\ Current.k = "vector"
  /\ LET size == read_integer(Current.n)
     IN  /\ Push(VecV(size, 0))
         /\ reader' = [reader EXCEPT ![Len(reader)].word = size]
  /\ Reads
  /\ UNCHANGED phase

ReadVector ==
  /\ Reading /\ reader # << >> /\ Current.k = "vector"
  /\ LET size == read_integer(Current.n)
     IN  /\ Push(VecV(0, size))
         /\ reader' = [reader EXCEPT ![Len(reader)].word = size]
  /\ Reads
  /\ UNCHANGED phase

ReadFunction ==
  /\ Reading /\ reader # << >> /\ Current.k = "function"
  /\ Reads /\ Opens(Current.code)
  /\ UNCHANGED phase

(* The end of a list of constants.  The function that was read becomes a    *)
(* constant of the function around it: nothing assigns its envindex.        *)
CallReturns ==
  LET caller == Len(reader) - 1
      fn     == FnV(Top(reader).fn, reader[caller].word)
  IN  /\ reader' = Rest(reader)
      /\ IF caller = 0 THEN UNCHANGED loaded
         ELSE loaded' = [loaded EXCEPT ![reader[caller].fn].constants =
                           Append(@, fn)]
      /\ phase' = IF caller = 0 THEN "loaded" ELSE phase

ReadEnd ==
  /\ Reading /\ reader # << >> /\ Current.k = "end"
  /\ Reads /\ CallReturns

(* A slip in link_panic: a constant of no known type is skipped.            *)
link_panic_Lenient ==
  /\ phase = "read" /\ pos = Len(file) /\ (reader = << >> \/ torn \notin {"none", "end"})
  /\ phase' = "panic"
  /\ UNCHANGED << object, file, torn, writer, reader, loaded, pos >>

(* The file ends too early.  Past its end the reader finds '\0': no number, *)
(* hence a constant of type 0, and no newline after it.  Only a string that *)
(* is cut off is read past the end of the buffer, since '\0' ends it too.   *)
link_panic ==
  /\ phase = "read" /\ pos = Len(file)
  /\ phase' = "panic"
  /\ UNCHANGED << object, file, torn, writer, reader, loaded, pos >>

ReadPastEnd ==
  /\ phase = "read" /\ pos = Len(file) /\ torn = "string" /\ reader # << >>
  /\ phase' = "wild"
  /\ UNCHANGED << object, file, torn, writer, reader, loaded, pos >>

(* A slip in ReadTornEnd: the missing newline is stepped over.              *)
ReadTornEnd_PastEnd ==
  /\ phase = "read" /\ pos = Len(file) /\ torn = "end" /\ Len(reader) = 1
  /\ CallReturns
  /\ pos' = pos + 1
  /\ UNCHANGED << object, file, torn, writer >>

(* All that is missing is the last newline, which nothing looks for.        *)
ReadTornEnd ==
  /\ phase = "read" /\ pos = Len(file) /\ torn = "end" /\ Len(reader) = 1
  /\ CallReturns
  /\ UNCHANGED << object, file, torn, writer, pos >>

ReaderStep ==
  \/ ReadRoot \/ ReadInteger \/ ReadString \/ ReadVector \/ ReadFunction
  \/ ReadEnd \/ link_panic \/ ReadPastEnd \/ ReadTornEnd

SerialNext == WriterStep \/ Crash \/ ReaderStep

SerialSpec == SerialInit /\ [][SerialNext]_serialVars

-----------------------------------------------------------------------------
(* Types: the reader is never past the end of the file, and each of its     *)
(* calls is filling an object that was begun.                               *)
SerialTypeOK ==
  /\ file \in Seq([k : Kinds, n : Int, code : Seq(Byte)])
  /\ torn \in Kinds \cup {"none"}
  /\ writer \in Seq([fn : DOMAIN object.fns, ip : Nat])
  /\ reader \in Seq([fn : DOMAIN loaded, word : Int])
  /\ loaded \in Seq([code : Seq(Byte), constants : Seq(Value)])
  /\ pos \in 0 .. Len(file)
  /\ phase \in Phases

-----------------------------------------------------------------------------
(***************************************************************************)
(* What the serializer takes for granted of the code of a function:        *)
(* walk is defined on the ips its walk comes to and counts the constants   *)
(* that were loaded before.  Each constant is loaded once, in the order of *)
(* the addresses, by the opcode of its type, and the walk ends at the end  *)
(* of the code.                                                            *)
(***************************************************************************)
Loads(op, val) ==
  CASE op = OP_LOCI_LONG      -> val.t = "int"
    [] op = OP_LOCS_LONG      -> val.t = "str"
    [] op = OP_LOC_ALINK_LONG -> val.t = "vec"
    [] op = OP_LOCF_LONG      -> val.t = "fn"

WalkOK(fn) ==
  /\ 0 \in DOMAIN fn.walk /\ fn.walk[0] = 0
  /\ \A ip \in DOMAIN fn.walk :
       LET op   == fn.code[ip + 1]
           next == ip + 1 + OperandBytes(op)
           done == fn.walk[ip]
       IN  /\ ip \in Nat /\ done \in Nat
           /\ ip >= Len(fn.code) => done = Len(fn.constants)
           /\ ip < Len(fn.code) =>
                IF op \in LocOpcodes
                THEN /\ next <= Len(fn.code) /\ AddressAt(fn, ip) = done
                     /\ done < Len(fn.constants) /\ Loads(op, fn.constants[done + 1])
                     /\ next \in DOMAIN fn.walk /\ fn.walk[next] = done + 1
                ELSE next \in DOMAIN fn.walk /\ fn.walk[next] = done

(* The constant is something the text can express: no number is negative,    *)
(* no string begins with a blank.                                           *)
Expressible(img, val) ==
  /\ val.t = "int" => val.i \in 0 .. IntMax
  /\ val.t = "vec" => val.n \in 0 .. IntMax
  /\ val.t = "str" => /\ val.i \in DOMAIN Strings
                      /\ skip_spaces(Strings[val.i]) = Strings[val.i]
  /\ val.t = "fn"  => val.i \in DOMAIN img.fns

Serializable(img) ==
  \A f \in DOMAIN img.fns :
    LET fn == img.fns[f]
    IN  /\ fn.code # << >> /\ WalkOK(fn)
        /\ \A k \in DOMAIN fn.constants : Expressible(img, fn.constants[k])

-----------------------------------------------------------------------------
(* The constant c that was read is the constant d that was written, but for *)
(* the envindex of a function.                                              *)
SameConstant(c, d, from) ==
  /\ c.t = d.t
  /\ c.t = "int" => c.i = d.i
  /\ c.t = "str" => Strings[c.i] = Strings[d.i]
  /\ c.t = "vec" => c.n = d.n
  /\ c.t = "fn"  => from[c.i] = d.i

SameObject(new, old, from) ==
  /\ new.code = old.code
  /\ Len(new.constants) = Len(old.constants)
  /\ \A k \in DOMAIN new.constants :
       SameConstant(new.constants[k], old.constants[k], from)

(* What execute is given is the program that was compiled: each object that *)
(* was read is one that was written, under the same constants.  Nothing     *)
(* else comes of a file that is cut off.                                    *)
LoadedAsCompiled ==
  phase = "loaded" =>
    \E from \in [DOMAIN loaded -> DOMAIN object.fns] :
      /\ from[1] = 1
      /\ \A f \in DOMAIN loaded : SameObject(loaded[f], object.fns[from[f]], from)

(* The reader takes every file that the writer has finished.                *)
Finished == writer = << >> /\ file # << >>

WholeFileAccepted == Finished => phase \in {"write", "read", "loaded", "execute"}
=============================================================================
