------------------------ MODULE Serialization_proofs ------------------------
(***************************************************************************)
(* Theorems about the serialized form, for every image that is fit for it, *)
(* every width of integers and every set of strings: what the reader       *)
(* accepts is what was compiled, wherever the file may be cut off, and it  *)
(* accepts every file that is finished.                                    *)
(***************************************************************************)
EXTENDS Serialization, SequenceTheorems, TLAPS

-----------------------------------------------------------------------------
(* Values.                                                                 *)

(* What the reader makes of a line is a value.                              *)
LEMMA ReadingValues ==
  \A m, n \in Int : IntV(m) \in Value /\ StrV(m) \in Value
                    /\ VecV(m, n) \in Value /\ FnV(m, n) \in Value
BY DEF IntV, StrV, VecV, FnV, Value

(* A number is read as an int ...                                           *)
LEMMA ReadIntegerType == \A n \in Int : read_integer(n) \in Int
<1>1. \A n \in Int : Wrap(n) \in Int
  BY IntRangeAssumption DEF Wrap
<1>2. \A n \in Int : Abs(n) \in Int
  BY DEF Abs
<1> SUFFICES ASSUME NEW n \in Int
             PROVE  read_integer(n) \in Int
  OBVIOUS
<1>3. Wrap(Abs(n)) \in Int
  BY <1>1, <1>2
<1>4. Sign(n) * Wrap(Abs(n)) \in Int
  BY <1>3 DEF Sign
<1> QED
  BY <1>1, <1>4 DEF read_integer

(* ... and one that an int holds and that is not negative as itself.        *)
LEMMA ReadIntegerExact == \A n \in 0 .. IntMax : read_integer(n) = n
<1> SUFFICES ASSUME NEW n \in 0 .. IntMax
             PROVE  read_integer(n) = n
  OBVIOUS
<1>1. n \in Int /\ 0 <= n /\ n <= IntMax
  BY IntRangeAssumption
<1>2. Wrap(n) = n
  <2>1. n - IntMin \in 0 .. (IntMax - IntMin)
    BY <1>1, IntRangeAssumption
  <2>2. (n - IntMin) % (IntMax - IntMin + 1) = n - IntMin
    BY <2>1, IntRangeAssumption
  <2> QED
    BY <1>1, <2>2, IntRangeAssumption DEF Wrap
<1>3. Abs(n) = n
  BY <1>1 DEF Abs
<1>4. CASE n = 0
  <2>1. Sign(n) * Wrap(Abs(n)) = n
    BY <1>2, <1>3, <1>4 DEF Sign
  <2> QED
    BY <1>2, <2>1 DEF read_integer
<1>5. CASE n # 0
  <2>1. Sign(n) * Wrap(Abs(n)) = n
    BY <1>1, <1>2, <1>3, <1>5 DEF Sign
  <2> QED
    BY <1>2, <2>1 DEF read_integer
<1> QED
  BY <1>4, <1>5

(* A string is read as a string, and as the same one if it does not begin   *)
(* with a blank.                                                            *)
LEMMA StringReadFacts ==
  ASSUME NEW n \in DOMAIN Strings
  PROVE  /\ StringRead(n) \in DOMAIN Strings
         /\ Strings[StringRead(n)] = skip_spaces(Strings[n])
BY StringsReadAssumption DEF StringRead

LEMMA StringNumbers ==
  \A n \in DOMAIN Strings : n \in Int /\ Len(Strings[n]) \in Int
BY StringsAssumption

(* The elements of a sequence.                                              *)
LEMMA ElementIn ==
  ASSUME NEW S, NEW s \in Seq(S)
  PROVE  /\ Len(s) \in Nat /\ DOMAIN s = 1 .. Len(s)
         /\ \A i \in 1 .. Len(s) : s[i] \in S
OBVIOUS

(* One of them replaced.                                                    *)
LEMMA ReplacedIn ==
  ASSUME NEW S, NEW s \in Seq(S), NEW i \in 1 .. Len(s), NEW e \in S,
         NEW t, t = [s EXCEPT ![i] = e]
  PROVE  /\ t \in Seq(S) /\ Len(t) = Len(s) /\ t[i] = e
         /\ \A j \in 1 .. Len(s) : j # i => t[j] = s[j]
OBVIOUS

(* All but the last of them.                                                *)
LEMMA RestFacts ==
  ASSUME NEW S, NEW s \in Seq(S), s # << >>
  PROVE  /\ Rest(s) \in Seq(S) /\ Len(Rest(s)) = Len(s) - 1
         /\ Len(s) \in Nat \ {0}
         /\ \A i \in 1 .. (Len(s) - 1) : Rest(s)[i] = s[i]
<1>1. Len(s) \in Nat \ {0}
  OBVIOUS
<1> DEFINE n == Len(s) - 1
<1>2. n \in Nat /\ Len(s) = n + 1
  BY <1>1, Z3
<1>3. \A i \in 1 .. n : s[i] \in S
  BY <1>2, ElementIn
<1> HIDE DEF n
<1>4. Rest(s) = SubSeq(s, 1, n)
  BY DEF Rest, n
<1>5. /\ Rest(s) \in Seq(S) /\ Len(Rest(s)) = n
      /\ \A i \in 1 .. n : Rest(s)[i] = s[i]
  BY <1>2, <1>3, <1>4, SubSeqProperties
<1> QED
  BY <1>1, <1>2, <1>5

-----------------------------------------------------------------------------
(* Types.                                                                  *)

(* What the images are like that the theorems are about.                    *)
Fit == IsImage(object) /\ Serializable(object)

(* Each call of the writer is at an instruction.                            *)
OnWalk ==
  \A i \in DOMAIN writer : writer[i].ip \in DOMAIN object.fns[writer[i].fn].walk

(* A line of the file: one that holds a string holds one there is.           *)
LineType ==
  {line \in [k : Kinds, n : Int, code : Seq(Byte)] :
     line.k = "string" => line.n \in DOMAIN Strings}

ObjectType == [code : Seq(Byte), constants : Seq(Value)]

TInv == Fit /\ SerialTypeOK /\ OnWalk /\ file \in Seq(LineType)

(* A function of the image.                                                 *)
LEMMA FunctionFacts ==
  ASSUME Fit, NEW f \in DOMAIN object.fns
  PROVE  /\ object.fns[f].code \in Seq(Byte)
         /\ object.fns[f].constants \in Seq(Value)
         /\ f \in Int
         /\ WalkOK(object.fns[f])
         /\ \A k \in DOMAIN object.fns[f].constants :
              Expressible(object, object.fns[f].constants[k])
<1>1. f \in Int
  BY DEF Fit, IsImage
<1> QED
  BY <1>1 DEF Fit, IsImage, Serializable

(* The innermost call of the writer.                                        *)
LEMMA WritingFacts ==
  ASSUME TInv, writer # << >>
  PROVE  /\ Len(writer) \in Nat \ {0}
         /\ Len(writer) \in DOMAIN writer
         /\ Top(writer) = writer[Len(writer)]
         /\ Top(writer).fn \in DOMAIN object.fns
         /\ Writing = object.fns[Top(writer).fn]
         /\ WIP \in Nat /\ WIP \in DOMAIN Writing.walk
         /\ Writing.code \in Seq(Byte) /\ Writing.constants \in Seq(Value)
         /\ WalkOK(Writing)
<1>1. writer \in Seq([fn : DOMAIN object.fns, ip : Nat])
  BY DEF TInv, SerialTypeOK
<1>2. Len(writer) \in Nat \ {0} /\ Len(writer) \in DOMAIN writer
  BY <1>1
<1>3. Top(writer) \in [fn : DOMAIN object.fns, ip : Nat]
  BY <1>1, <1>2, ElementIn DEF Top
<1>4. WIP \in DOMAIN Writing.walk
  BY <1>2 DEF TInv, OnWalk, Top, Writing, WIP
<1> QED
  BY <1>2, <1>3, <1>4, FunctionFacts DEF TInv, Top, Writing, WIP

(* Where it is, and how many constants it has loaded.                       *)
Done == Writing.walk[WIP]

(* The instruction there loads the next constant, or none.                  *)
LEMMA WalkFacts ==
  ASSUME TInv, Walking
  PROVE  LET next == WIP + 1 + OperandBytes(WOp)
         IN  /\ Done \in Nat
             /\ next \in Nat
             /\ next \in DOMAIN Writing.walk
             /\ WOp \notin LocOpcodes => Writing.walk[next] = Done
             /\ WOp \in LocOpcodes =>
                  /\ Done < Len(Writing.constants)
                  /\ WConstant = Writing.constants[Done + 1]
                  /\ Loads(WOp, WConstant)
                  /\ Expressible(object, WConstant)
                  /\ WConstant \in Value
                  /\ Writing.walk[next] = Done + 1
<1> DEFINE next == WIP + 1 + OperandBytes(WOp)
<1>1. writer # << >> /\ WIP < Len(Writing.code)
  BY DEF Walking
<1>2. /\ WIP \in Nat /\ WIP \in DOMAIN Writing.walk
      /\ Writing.constants \in Seq(Value) /\ WalkOK(Writing)
      /\ Top(writer).fn \in DOMAIN object.fns
      /\ Writing = object.fns[Top(writer).fn]
  BY <1>1, WritingFacts
<1>3. OperandBytes(WOp) \in Nat
  BY DEF OperandBytes
<1>4. /\ Done \in Nat
      /\ IF WOp \in LocOpcodes
         THEN /\ next <= Len(Writing.code) /\ AddressAt(Writing, WIP) = Done
              /\ Done < Len(Writing.constants) /\ Loads(WOp, Writing.constants[Done + 1])
              /\ next \in DOMAIN Writing.walk /\ Writing.walk[next] = Done + 1
         ELSE next \in DOMAIN Writing.walk /\ Writing.walk[next] = Done
  BY <1>1, <1>2 DEF WalkOK, Done, WOp
<1>5. ASSUME WOp \in LocOpcodes
      PROVE  /\ WConstant = Writing.constants[Done + 1]
             /\ Expressible(object, WConstant)
             /\ WConstant \in Value
  <2>1. Done + 1 \in DOMAIN Writing.constants
    BY <1>2, <1>4, <1>5
  <2>2. WConstant = Writing.constants[Done + 1]
    BY <1>4, <1>5 DEF WConstant
  <2> QED
    BY <1>2, <2>1, <2>2, FunctionFacts DEF TInv
<1> QED
  BY <1>2, <1>3, <1>4, <1>5

(* At the end of its code a function has loaded all its constants.          *)
LEMMA EndOfWalk ==
  ASSUME TInv, writer # << >>, ~Walking
  PROVE  Done = Len(Writing.constants)
<1>1. WIP \in Nat /\ WIP \in DOMAIN Writing.walk /\ Len(Writing.code) \in Nat
  BY WritingFacts
<1>2. WIP >= Len(Writing.code)
  BY <1>1 DEF Walking
<1> QED
  BY <1>1, <1>2, WritingFacts DEF WalkOK, Done

(* The writer's calls after the instruction.                                *)
LEMMA AdvancedFacts ==
  ASSUME TInv, Walking
  PROVE  /\ Advanced \in Seq([fn : DOMAIN object.fns, ip : Nat])
         /\ Len(Advanced) = Len(writer)
         /\ \A i \in 1 .. Len(writer) :
              /\ Advanced[i].fn = writer[i].fn
              /\ i # Len(writer) => Advanced[i].ip = writer[i].ip
         /\ Advanced[Len(writer)].ip = WIP + 1 + OperandBytes(WOp)
<1> DEFINE next == WIP + 1 + OperandBytes(WOp)
           n    == Len(writer)
<1>1. /\ writer \in Seq([fn : DOMAIN object.fns, ip : Nat])
      /\ n \in Nat \ {0} /\ n \in DOMAIN writer /\ Top(writer) = writer[n]
      /\ next \in Nat
  BY WritingFacts, WalkFacts DEF TInv, SerialTypeOK, Walking
<1>2. Advanced = [writer EXCEPT ![n] = [writer[n] EXCEPT !.ip = next]]
  BY <1>1 DEF Advanced, WIP, Top
<1>3. writer[n] \in [fn : DOMAIN object.fns, ip : Nat]
  BY <1>1, ElementIn
<1>4. [writer[n] EXCEPT !.ip = next] \in [fn : DOMAIN object.fns, ip : Nat]
      /\ [writer[n] EXCEPT !.ip = next].ip = next
      /\ [writer[n] EXCEPT !.ip = next].fn = writer[n].fn
  BY <1>1, <1>3
<1> HIDE DEF next
<1> QED
  BY <1>1, <1>2, <1>4 DEF next

LEMMA LineMaking ==
  \A k \in Kinds, n \in Int, code \in Seq(Byte) :
    (k = "string" => n \in DOMAIN Strings) => Line(k, n, code) \in LineType
BY DEF Line, LineType

(* What the writer puts into the file is a line.                            *)
LEMMA NextLineType ==
  ASSUME TInv, NEW line \in NextLine
  PROVE  line \in LineType
<1>1. CASE writer = << >>
  <2>1. line = Line("code", 0, object.fns[1].code) /\ 1 \in DOMAIN object.fns
    BY <1>1 DEF NextLine, TInv, Fit, IsImage
  <2> QED
    BY <2>1, FunctionFacts DEF TInv, Line, LineType, Kinds
<1>2. CASE writer # << >> /\ ~Walking
  <2>1. line = Line("end", 0, << >>) /\ << >> \in Seq(Byte)
    BY <1>2 DEF NextLine
  <2> QED
    BY <2>1 DEF Line, LineType, Kinds
<1>3. CASE Walking
  <2>1. WOp \in LocOpcodes /\ line = serialize_loc(WOp, WConstant)
    BY <1>3 DEF NextLine, Walking
  <2>2. /\ WConstant \in Value /\ Loads(WOp, WConstant)
        /\ WConstant.t = "fn" => WConstant.i \in DOMAIN object.fns
        /\ WConstant.t = "str" => WConstant.i \in DOMAIN Strings
    BY <1>3, <2>1, WalkFacts DEF Expressible
  <2>3. WConstant.i \in Int /\ WConstant.n \in Int
    BY <2>2 DEF Value
  <2>4. CASE WOp = OP_LOCF_LONG
    <3>1. line = Line("function", 0, object.fns[WConstant.i].code)
      BY <2>1, <2>4 DEF serialize_loc, OP_LOCI_LONG, OP_LOCS_LONG, OP_LOC_ALINK_LONG,
                        OP_LOCF_LONG
    <3>2. WConstant.i \in DOMAIN object.fns
      BY <2>2, <2>4 DEF Loads, OP_LOCI_LONG, OP_LOCS_LONG, OP_LOC_ALINK_LONG, OP_LOCF_LONG
    <3> QED
      BY <3>1, <3>2, FunctionFacts DEF TInv, Line, LineType, Kinds
  <2>5. CASE WOp # OP_LOCF_LONG
    <3>1. \/ line = Line("integer", WConstant.i, << >>)
          \/ line = Line("string", WConstant.i, << >>) /\ WConstant.i \in DOMAIN Strings
          \/ line = Line("vector", WConstant.n, << >>)
      <4> USE DEF OP_LOCI_LONG, OP_LOCS_LONG, OP_LOC_ALINK_LONG, OP_LOCF_LONG
      <4>1. CASE WOp = OP_LOCI_LONG
        BY <2>1, <4>1 DEF serialize_loc
      <4>2. CASE WOp = OP_LOCS_LONG
        <5>1. line = Line("string", WConstant.i, << >>)
          BY <2>1, <4>2 DEF serialize_loc
        <5>2. WConstant.t = "str"
          BY <2>2, <4>2 DEF Loads
        <5> QED
          BY <2>2, <5>1, <5>2
      <4>3. CASE WOp = OP_LOC_ALINK_LONG
        BY <2>1, <4>3 DEF serialize_loc
      <4> QED
        BY <2>1, <2>5, <4>1, <4>2, <4>3 DEF LocOpcodes
    <3>2. << >> \in Seq(Byte) /\ {"integer", "string", "vector"} \subseteq Kinds
      BY DEF Kinds
    <3> QED
      BY <2>3, <3>1, <3>2, LineMaking
  <2> QED
    BY <2>4, <2>5
<1> QED
  BY <1>1, <1>2, <1>3 DEF Walking

(* A constant more in one of the objects that were read.                    *)
LEMMA PushFacts ==
  ASSUME NEW objects \in Seq(ObjectType), NEW f \in DOMAIN objects, NEW val \in Value,
         NEW more, more = [objects EXCEPT ![f].constants = Append(@, val)]
  PROVE  /\ more \in Seq(ObjectType) /\ Len(more) = Len(objects)
         /\ DOMAIN more = DOMAIN objects
         /\ \A g \in DOMAIN objects : g # f => more[g] = objects[g]
         /\ more[f].code = objects[f].code
         /\ more[f].constants = Append(objects[f].constants, val)
<1> DEFINE new == [objects[f] EXCEPT !.constants = Append(objects[f].constants, val)]
<1>1. objects[f] \in ObjectType
  BY ElementIn
<1>2. Append(objects[f].constants, val) \in Seq(Value)
  BY <1>1 DEF ObjectType
<1>3. /\ new \in ObjectType /\ new.code = objects[f].code
      /\ new.constants = Append(objects[f].constants, val)
  BY <1>1, <1>2 DEF ObjectType
<1>4. more = [objects EXCEPT ![f] = new]
  OBVIOUS
<1>5. f \in 1 .. Len(objects) /\ DOMAIN objects = 1 .. Len(objects)
  OBVIOUS
<1>6. /\ more \in Seq(ObjectType) /\ Len(more) = Len(objects)
      /\ more[f] = new
      /\ \A g \in 1 .. Len(objects) : g # f => more[g] = objects[g]
  <2> HIDE DEF new
  <2> QED
    BY ONLY <1>3, <1>4, <1>5, ReplacedIn, objects \in Seq(ObjectType)
<1> HIDE DEF new
<1> QED
  BY <1>3, <1>5, <1>6, ElementIn

(* The innermost call of the reader, and the one around it.                 *)
LEMMA ReaderFacts ==
  ASSUME SerialTypeOK, reader # << >>
  PROVE  /\ Len(reader) \in Nat \ {0} /\ DOMAIN reader = 1 .. Len(reader)
         /\ Top(reader) = reader[Len(reader)]
         /\ \A i \in 1 .. Len(reader) :
              reader[i].fn \in DOMAIN loaded /\ reader[i].fn \in Int /\ reader[i].word \in Int
         /\ Top(reader).fn \in DOMAIN loaded /\ Top(reader).fn \in Int
<1>1. reader \in Seq([fn : DOMAIN loaded, word : Int]) /\ loaded \in Seq(ObjectType)
  BY DEF SerialTypeOK, ObjectType
<1>2. Len(reader) \in Nat \ {0} /\ DOMAIN reader = 1 .. Len(reader)
  BY <1>1
<1>3. \A i \in 1 .. Len(reader) : reader[i] \in [fn : DOMAIN loaded, word : Int]
  BY <1>1, ElementIn
<1> QED
  BY <1>1, <1>2, <1>3 DEF Top

(* The line that is read.                                                   *)
LEMMA CurrentFacts ==
  ASSUME TInv, Reading
  PROVE  /\ Current \in LineType /\ Current.n \in Int /\ Current.code \in Seq(Byte)
         /\ Current.k = "string" => Current.n \in DOMAIN Strings
         /\ pos \in Nat /\ pos < Len(file) /\ Len(file) \in Nat
         /\ pos + 1 \in 0 .. Len(file)
<1>1. file \in Seq(LineType) /\ pos \in Nat /\ pos < Len(file)
  BY DEF TInv, SerialTypeOK, Reading
<1>2. Current \in LineType
  BY <1>1, ElementIn DEF Current
<1> QED
  BY <1>1, <1>2 DEF LineType

(* TInv in a step that changes nothing of the writer.                       *)
LEMMA ReaderTypes ==
  ASSUME TInv, UNCHANGED << object, file, torn, writer >>,
         reader' \in Seq([fn : DOMAIN loaded', word : Int]),
         loaded' \in Seq(ObjectType),
         pos' \in 0 .. Len(file), phase' \in Phases
  PROVE  TInv'
BY DEF TInv, Fit, SerialTypeOK, OnWalk, ObjectType

(* The steps of the reader.                                                 *)
LEMMA OpensTypes ==
  ASSUME SerialTypeOK, NEW code \in Seq(Byte), Opens(code)
  PROVE  /\ loaded' \in Seq(ObjectType)
         /\ reader' \in Seq([fn : DOMAIN loaded', word : Int])
<1> DEFINE new == [code |-> code, constants |-> << >>]
<1>1. loaded \in Seq(ObjectType) /\ reader \in Seq([fn : DOMAIN loaded, word : Int])
  BY DEF SerialTypeOK, ObjectType
<1>2. new \in ObjectType /\ loaded' = Append(loaded, new)
  BY DEF ObjectType, Opens
<1> HIDE DEF new
<1>3. loaded' \in Seq(ObjectType) /\ DOMAIN loaded' = 1 .. (Len(loaded) + 1)
      /\ DOMAIN loaded = 1 .. Len(loaded) /\ Len(loaded) \in Nat
  BY <1>1, <1>2
<1>4. PICK word \in AnyInt : reader' = Append(reader, [fn |-> Len(loaded) + 1, word |-> word])
  BY DEF Opens
<1> DEFINE Type == [fn : DOMAIN loaded', word : Int]
           call == [fn |-> Len(loaded) + 1, word |-> word]
<1>5. call \in Type
  BY <1>3, AnyIntAssumption
<1>6. [fn : DOMAIN loaded, word : Int] \subseteq Type
  BY <1>3
<1> HIDE DEF Type, call
<1>7. reader \in Seq(Type)
  BY <1>1, <1>6, SeqMonotonic
<1>8. reader' \in Seq(Type)
  BY <1>4, <1>5, <1>7 DEF call
<1> QED
  BY <1>3, <1>8 DEF Type

LEMMA PushTypes ==
  ASSUME SerialTypeOK, reader # << >>, NEW val \in Value, Push(val)
  PROVE  /\ loaded' \in Seq(ObjectType) /\ DOMAIN loaded' = DOMAIN loaded
         /\ reader \in Seq([fn : DOMAIN loaded', word : Int])
<1>1. loaded \in Seq(ObjectType) /\ reader \in Seq([fn : DOMAIN loaded, word : Int])
  BY DEF SerialTypeOK, ObjectType
<1>2. loaded' = [loaded EXCEPT ![Top(reader).fn].constants = Append(@, val)]
  BY DEF Push
<1>3. Top(reader).fn \in DOMAIN loaded
  BY ReaderFacts
<1>4. loaded' \in Seq(ObjectType) /\ DOMAIN loaded' = DOMAIN loaded
  BY <1>1, <1>2, <1>3, PushFacts
<1> QED
  BY <1>1, <1>4

LEMMA WordTypes ==
  ASSUME SerialTypeOK, reader # << >>, NEW word \in Int,
         reader' = [reader EXCEPT ![Len(reader)].word = word]
  PROVE  /\ reader' \in Seq([fn : DOMAIN loaded, word : Int])
         /\ Len(reader') = Len(reader)
         /\ \A i \in 1 .. Len(reader) : reader'[i].fn = reader[i].fn
<1> DEFINE Type == [fn : DOMAIN loaded, word : Int]
           new  == [reader[Len(reader)] EXCEPT !.word = word]
<1>1. reader \in Seq(Type) /\ Len(reader) \in 1 .. Len(reader)
  BY ReaderFacts DEF SerialTypeOK
<1>2. reader[Len(reader)] \in Type
  BY <1>1, ElementIn
<1>3. new \in Type /\ new.fn = reader[Len(reader)].fn
  BY <1>2
<1>4. reader' = [reader EXCEPT ![Len(reader)] = new]
  OBVIOUS
<1> HIDE DEF Type, new
<1>5. reader' \in Seq(Type) /\ Len(reader') = Len(reader)
  BY <1>1, <1>3, <1>4
<1>6. \A i \in 1 .. Len(reader) : reader'[i].fn = reader[i].fn
  BY <1>1, <1>3, <1>4
<1> QED
  BY <1>5, <1>6 DEF Type

LEMMA ReturnTypes ==
  ASSUME SerialTypeOK, reader # << >>, CallReturns
  PROVE  /\ loaded' \in Seq(ObjectType)
         /\ reader' \in Seq([fn : DOMAIN loaded', word : Int])
         /\ phase' \in Phases
<1> DEFINE caller == Len(reader) - 1
           fn     == FnV(Top(reader).fn, reader[caller].word)
<1>1. loaded \in Seq(ObjectType) /\ reader \in Seq([fn : DOMAIN loaded, word : Int])
  BY DEF SerialTypeOK, ObjectType
<1>2. Rest(reader) \in Seq([fn : DOMAIN loaded, word : Int])
  BY <1>1, RestFacts
<1>3. phase' \in Phases
  BY DEF CallReturns, SerialTypeOK, Phases
<1>4. CASE caller = 0
  BY <1>1, <1>2, <1>3, <1>4 DEF CallReturns
<1>5. CASE caller # 0
  <2>1. caller \in 1 .. Len(reader)
    BY <1>5, ReaderFacts
  <2>2. fn \in Value
    BY <2>1, ReaderFacts, ReadingValues
  <2>3. loaded' = [loaded EXCEPT ![reader[caller].fn].constants = Append(@, fn)]
    BY <1>5 DEF CallReturns
  <2>4. loaded' \in Seq(ObjectType) /\ DOMAIN loaded' = DOMAIN loaded
    <3>1. reader[caller].fn \in DOMAIN loaded
      BY <2>1, ReaderFacts
    <3> QED
      BY <1>1, <2>2, <2>3, <3>1, PushFacts
  <2>5. reader' = Rest(reader)
    BY DEF CallReturns
  <2> QED
    BY <1>2, <1>3, <2>4, <2>5
<1> QED
  BY <1>4, <1>5

(* The steps of the writer.                                                 *)
LEMMA PutsTypes ==
  ASSUME TInv, Puts
  PROVE  /\ file' \in Seq(LineType)
         /\ \E line \in NextLine : file' = Append(file, line)
<1>1. file \in Seq(LineType)
  BY DEF TInv
<1>2. PICK line \in NextLine : file' = Append(file, line)
  BY DEF Puts
<1> QED
  BY <1>1, <1>2, NextLineType

(* A call that has gone on stays on its walk; so does one that begins.      *)
LEMMA AdvancedOnWalk ==
  ASSUME TInv, Walking, NEW i \in 1 .. Len(writer)
  PROVE  Advanced[i].ip \in DOMAIN object.fns[Advanced[i].fn].walk
<1>1. writer # << >>
  BY DEF Walking
<1>2. /\ Writing = object.fns[writer[Len(writer)].fn]
      /\ \A j \in 1 .. Len(writer) : j \in DOMAIN writer
  BY <1>1, WritingFacts DEF TInv, SerialTypeOK
<1>3. /\ Advanced[i].fn = writer[i].fn
      /\ i # Len(writer) => Advanced[i].ip = writer[i].ip
      /\ Advanced[Len(writer)].ip = WIP + 1 + OperandBytes(WOp)
      /\ WIP + 1 + OperandBytes(WOp) \in DOMAIN Writing.walk
  BY AdvancedFacts, WalkFacts
<1>4. CASE i = Len(writer)
  BY ONLY <1>2, <1>3, <1>4
<1>5. CASE i # Len(writer)
  <2>1. writer[i].ip \in DOMAIN object.fns[writer[i].fn].walk
    BY <1>2 DEF TInv, OnWalk
  <2> QED
    BY ONLY <1>3, <1>5, <2>1
<1> QED
  BY <1>4, <1>5

LEMMA BeginsOnWalk ==
  ASSUME Fit, NEW f \in DOMAIN object.fns
  PROVE  0 \in DOMAIN object.fns[f].walk /\ object.fns[f].walk[0] = 0
BY FunctionFacts DEF WalkOK

(* TInv in a step that changes nothing of the reader.                       *)
LEMMA WriterTypes ==
  ASSUME TInv, UNCHANGED << object, torn, reader, loaded, pos >>,
         file' \in Seq(LineType), Len(file) <= Len(file'), phase' \in Phases,
         writer' \in Seq([fn : DOMAIN object.fns, ip : Nat]),
         \A i \in 1 .. Len(writer') :
           writer'[i].ip \in DOMAIN object.fns[writer'[i].fn].walk
  PROVE  TInv'
<1>1. Fit'
  BY DEF TInv, Fit
<1>2. DOMAIN writer' = 1 .. Len(writer')
  OBVIOUS
<1>3. OnWalk'
  BY <1>2 DEF OnWalk
<1>4. file \in Seq(LineType) /\ Len(file) \in Nat /\ Len(file') \in Nat
  BY DEF TInv
<1>5. pos' \in 0 .. Len(file')
  BY <1>4 DEF TInv, SerialTypeOK
<1>6. file' \in Seq([k : Kinds, n : Int, code : Seq(Byte)])
  <2>1. LineType \subseteq [k : Kinds, n : Int, code : Seq(Byte)]
    BY DEF LineType
  <2> QED
    BY ONLY <2>1, SeqMonotonic, file' \in Seq(LineType)
<1>7. SerialTypeOK'
  BY <1>5, <1>6 DEF TInv, SerialTypeOK
<1> QED
  BY <1>1, <1>3, <1>7 DEF TInv

LEMMA WriterStepTypes == TInv /\ WriterStep => TInv'
<1> DEFINE Type == [fn : DOMAIN object.fns, ip : Nat]
<1> SUFFICES ASSUME TInv, WriterStep
             PROVE  TInv'
  OBVIOUS
<1>1. /\ file \in Seq(LineType) /\ writer \in Seq(Type)
      /\ phase \in Phases /\ "write" \in Phases /\ "read" \in Phases
  BY DEF TInv, SerialTypeOK, Phases
<1>2. ASSUME Puts
      PROVE  file' \in Seq(LineType) /\ Len(file) <= Len(file')
             /\ UNCHANGED << object, torn, reader, loaded, pos >>
  <2>1. PICK line \in NextLine : file' = Append(file, line)
    BY <1>2, PutsTypes
  <2>2. Len(file') = Len(file) + 1 /\ Len(file) \in Nat
    BY <1>1, <2>1
  <2> QED
    BY <1>2, <2>2, PutsTypes DEF Puts
<1>3. CASE WriteRoot
  <2>1. 1 \in DOMAIN object.fns /\ 0 \in DOMAIN object.fns[1].walk
    BY BeginsOnWalk DEF TInv, Fit, IsImage
  <2>2. /\ writer' \in Seq(Type) /\ Len(writer') = 1
        /\ writer'[1].fn = 1 /\ writer'[1].ip = 0
    BY <1>3, <2>1 DEF WriteRoot
  <2> QED
    BY <1>1, <1>2, <1>3, <2>1, <2>2, WriterTypes DEF WriteRoot
<1>4. CASE SkipInstruction
  BY <1>1, <1>4, AdvancedFacts, AdvancedOnWalk, WriterTypes DEF SkipInstruction
<1>5. CASE WriteConstant
  BY <1>1, <1>2, <1>5, AdvancedFacts, AdvancedOnWalk, WriterTypes DEF WriteConstant
<1>6. CASE WriteFunction
  <2> DEFINE call == [fn |-> WConstant.i, ip |-> 0]
  <2>1. WOp \in LocOpcodes /\ WOp = OP_LOCF_LONG /\ Walking
    BY <1>6 DEF WriteFunction, LocOpcodes
  <2>2. Loads(WOp, WConstant) /\ Expressible(object, WConstant)
    BY <2>1, WalkFacts
  <2>3. WConstant.i \in DOMAIN object.fns
    BY <2>1, <2>2 DEF Loads, Expressible, OP_LOCI_LONG, OP_LOCS_LONG, OP_LOC_ALINK_LONG,
                      OP_LOCF_LONG
  <2>4. call \in Type /\ call.ip \in DOMAIN object.fns[call.fn].walk
    BY <2>3, BeginsOnWalk DEF TInv
  <2>5. Advanced \in Seq(Type) /\ writer' = Append(Advanced, call)
    BY <1>6, <2>1, AdvancedFacts DEF WriteFunction
  <2> HIDE DEF call, Type
  <2>6. /\ writer' \in Seq(Type) /\ Len(writer') = Len(Advanced) + 1
        /\ Len(Advanced) \in Nat /\ writer'[Len(Advanced) + 1] = call
        /\ \A i \in 1 .. Len(Advanced) : writer'[i] = Advanced[i]
    BY <2>4, <2>5
  <2>7. \A i \in 1 .. Len(writer') :
          writer'[i].ip \in DOMAIN object.fns[writer'[i].fn].walk
    <3> SUFFICES ASSUME NEW i \in 1 .. Len(writer')
                 PROVE  writer'[i].ip \in DOMAIN object.fns[writer'[i].fn].walk
      OBVIOUS
    <3>1. i \in 1 .. Len(Advanced) \/ i = Len(Advanced) + 1
      BY <2>6
    <3> QED
      BY <2>1, <2>4, <2>6, <3>1, AdvancedFacts, AdvancedOnWalk
  <2> QED
    BY <1>1, <1>2, <1>6, <2>6, <2>7, WriterTypes DEF WriteFunction, Type
<1>7. CASE WriteEnd
  <2>1. writer # << >> /\ writer' = Rest(writer) /\ phase' \in Phases
    BY <1>1, <1>7 DEF WriteEnd
  <2>2. /\ writer' \in Seq(Type) /\ Len(writer') = Len(writer) - 1
        /\ Len(writer) \in Nat \ {0}
        /\ \A i \in 1 .. (Len(writer) - 1) : writer'[i] = writer[i]
    BY <1>1, <2>1, RestFacts
  <2>3. \A i \in 1 .. Len(writer') : i \in DOMAIN writer /\ writer'[i] = writer[i]
    BY <1>1, <2>2
  <2>4. \A i \in 1 .. Len(writer') :
          writer'[i].ip \in DOMAIN object.fns[writer'[i].fn].walk
    BY <2>3 DEF TInv, OnWalk
  <2> QED
    BY <1>2, <1>7, <2>1, <2>2, <2>4, WriterTypes DEF WriteEnd
<1> QED
  BY <1>3, <1>4, <1>5, <1>6, <1>7 DEF WriterStep

LEMMA CrashTypes == TInv /\ Crash => TInv'
<1> SUFFICES ASSUME TInv, Crash
             PROVE  TInv'
  OBVIOUS
<1>1. torn' \in Kinds \cup {"none"}
  <2>1. \A line \in NextLine : line.k \in Kinds
    BY NextLineType DEF LineType
  <2> QED
    BY <2>1 DEF Crash
<1> QED
  BY <1>1 DEF Crash, TInv, Fit, SerialTypeOK, OnWalk, Phases

LEMMA ReaderStepTypes == TInv /\ ReaderStep => TInv'
<1> SUFFICES ASSUME TInv, ReaderStep
             PROVE  TInv'
  OBVIOUS
<1>1. /\ SerialTypeOK /\ pos \in 0 .. Len(file)
      /\ phase \in Phases /\ "wild" \in Phases /\ "panic" \in Phases
      /\ loaded \in Seq(ObjectType)
      /\ reader \in Seq([fn : DOMAIN loaded, word : Int])
  BY DEF TInv, SerialTypeOK, Phases, ObjectType
<1>2. ASSUME Reading, Reads
      PROVE  /\ pos' \in 0 .. Len(file) /\ UNCHANGED << object, file, torn, writer >>
             /\ Current.n \in Int /\ Current.code \in Seq(Byte)
             /\ Current.k = "string" => Current.n \in DOMAIN Strings
  BY <1>1, <1>2, CurrentFacts DEF Reads
<1>3. CASE ReadRoot \/ ReadFunction
  BY <1>1, <1>2, <1>3, OpensTypes, ReaderTypes DEF ReadRoot, ReadFunction
<1>4. CASE ReadInteger
  <2>1. IntV(read_integer(Current.n)) \in Value
    BY <1>2, <1>4, ReadIntegerType, ReadingValues DEF ReadInteger
  <2> QED
    BY <1>1, <1>2, <1>4, <2>1, PushTypes, ReaderTypes DEF ReadInteger
<1>5. CASE ReadString
  <2> DEFINE str  == StringRead(Current.n)
             size == Len(Strings[str])
  <2>1. str \in DOMAIN Strings
    BY <1>2, <1>5, StringReadFacts DEF ReadString
  <2>2. size \in Int /\ StrV(str) \in Value
    BY <2>1, StringNumbers, ReadingValues
  <2>3. /\ reader # << >> /\ Push(StrV(str)) /\ UNCHANGED phase
        /\ reader' = [reader EXCEPT ![Len(reader)].word = size]
    BY <1>5 DEF ReadString
  <2> HIDE DEF str, size
  <2>4. /\ loaded' \in Seq(ObjectType)
        /\ reader' \in Seq([fn : DOMAIN loaded', word : Int])
    BY <1>1, <2>2, <2>3, PushTypes, WordTypes
  <2> QED
    BY <1>1, <1>2, <1>5, <2>3, <2>4, ReaderTypes DEF ReadString
<1>6. CASE ReadVector
  <2> DEFINE size == read_integer(Current.n)
  <2>1. size \in Int /\ VecV(0, size) \in Value
    <3>1. size \in Int /\ 0 \in Int
      BY <1>2, <1>6, ReadIntegerType DEF ReadVector
    <3> QED
      BY <3>1, ReadingValues
  <2>2. /\ reader # << >> /\ Push(VecV(0, size)) /\ UNCHANGED phase
        /\ reader' = [reader EXCEPT ![Len(reader)].word = size]
    BY <1>6 DEF ReadVector
  <2> HIDE DEF size
  <2>3. /\ loaded' \in Seq(ObjectType)
        /\ reader' \in Seq([fn : DOMAIN loaded', word : Int])
    BY <1>1, <2>1, <2>2, PushTypes, WordTypes
  <2> QED
    BY <1>1, <1>2, <1>6, <2>2, <2>3, ReaderTypes DEF ReadVector
<1>7. CASE ReadEnd
  BY <1>1, <1>2, <1>7, ReturnTypes, ReaderTypes DEF ReadEnd
<1>8. CASE link_panic \/ ReadPastEnd
  BY <1>1, <1>8, ReaderTypes DEF link_panic, ReadPastEnd
<1>9. CASE ReadTornEnd
  <2>1. reader # << >> /\ CallReturns /\ UNCHANGED << object, file, torn, writer, pos >>
    <3>1. Len(reader) = 1 /\ Len(<< >>) = 0
      BY <1>9 DEF ReadTornEnd
    <3> QED
      BY <1>9, <3>1 DEF ReadTornEnd
  <2> QED
    BY <1>1, <2>1, ReturnTypes, ReaderTypes
<1> QED
  BY <1>3, <1>4, <1>5, <1>6, <1>7, <1>8, <1>9 DEF ReaderStep

LEMMA InitTInv == SerialInit /\ Serializable(object) => TInv
<1> SUFFICES ASSUME SerialInit, Serializable(object)
             PROVE  TInv
  OBVIOUS
<1>1. Fit
  BY ImagesAssumption DEF SerialInit, Fit
<1> QED
  BY <1>1 DEF SerialInit, TInv, SerialTypeOK, OnWalk, Phases

LEMMA NextTInv == TInv /\ [SerialNext]_serialVars => TInv'
<1>1. ASSUME TInv, UNCHANGED serialVars
      PROVE  TInv'
  BY <1>1 DEF serialVars, TInv, Fit, SerialTypeOK, OnWalk
<1> QED
  BY <1>1, WriterStepTypes, CrashTypes, ReaderStepTypes DEF SerialNext

(* Of an image that is fit for it the writer makes lines, and whatever the  *)
(* reader finds, it fills objects it has begun with values                  *)
(* (serialize_bytecode, deserialize_bytecode).                              *)
THEOREM SerialTypes == SerialSpec /\ Serializable(object) => []SerialTypeOK
<1>1. TInv => SerialTypeOK
  BY DEF TInv
<1> QED
  BY <1>1, InitTInv, NextTInv, PTL DEF SerialSpec

-----------------------------------------------------------------------------
(***************************************************************************)
(* The file.  A call in the text is a function and the number of its       *)
(* constants that were begun; the calls that are open after each line are  *)
(* a history h, which the writer walks through and the reader repeats.     *)
(***************************************************************************)
CallType == [fn : DOMAIN object.fns, done : Nat]

ConstantsOf(call) == object.fns[call.fn].constants

(* Without a constant that is still open.                                   *)
Counted(calls) == [calls EXCEPT ![Len(calls)].done = @ + 1]

(* The line leads from calls to next.                                       *)
TakesLine(line, calls, next) ==
  \/ /\ calls = << >> /\ line.k = "code" /\ line.code = object.fns[1].code
     /\ next = << [fn |-> 1, done |-> 0] >>
  \/ /\ calls # << >> /\ Top(calls).done < Len(ConstantsOf(Top(calls)))
     /\ LET val == ConstantsOf(Top(calls))[Top(calls).done + 1]
        IN  \/ /\ \/ val.t = "int" /\ line.k = "integer" /\ line.n = val.i
                  \/ val.t = "str" /\ line.k = "string" /\ line.n = val.i
                  \/ val.t = "vec" /\ line.k = "vector" /\ line.n = val.n
               /\ next = Counted(calls)
            \/ /\ val.t = "fn" /\ line.k = "function"
               /\ line.code = object.fns[val.i].code
               /\ next = Append(Counted(calls), [fn |-> val.i, done |-> 0])
  \/ /\ calls # << >> /\ Top(calls).done = Len(ConstantsOf(Top(calls)))
     /\ line.k = "end" /\ next = Rest(calls)

(* A call inside another is of the constant that was begun there last.      *)
Nested(calls) ==
  \A i \in 1 .. Len(calls) :
    /\ calls[i].done <= Len(ConstantsOf(calls[i]))
    /\ i < Len(calls) =>
         /\ 1 <= calls[i].done
         /\ ConstantsOf(calls[i])[calls[i].done].t = "fn"
         /\ ConstantsOf(calls[i])[calls[i].done].i = calls[i + 1].fn

(* The writer is where the calls are.                                       *)
WriterAt(calls) ==
  /\ Len(writer) = Len(calls)
  /\ \A i \in 1 .. Len(calls) :
       /\ writer[i].fn = calls[i].fn
       /\ object.fns[calls[i].fn].walk[writer[i].ip] = calls[i].done

(* h is the history of the file.                                            *)
HistoryOf(h) ==
  /\ h \in [0 .. Len(file) -> Seq(CallType)]
  /\ h[0] = << >>
  /\ \A k \in 1 .. Len(file) : TakesLine(file[k], h[k - 1], h[k])
  /\ \A k \in 0 .. Len(file) : Nested(h[k])
  /\ \A k \in 1 .. (Len(file) - 1) : h[k] # << >>
  /\ WriterAt(h[Len(file)])

(* What the phases say of the writer.                                       *)
WriterPhases ==
  /\ phase = "write" =>
       /\ torn = "none" /\ reader = << >> /\ loaded = << >> /\ pos = 0
       /\ file # << >> => writer # << >>
  /\ torn = "end" => writer # << >> /\ ~Walking
  /\ phase \in {"panic", "wild"} => ~Finished

(***************************************************************************)
(* What was read.  from names the object of the image that each object     *)
(* read is a copy of.                                                      *)
(***************************************************************************)
Same(c, d, from) == SameConstant(c, d, from) /\ (c.t = "fn" => c.i \in DOMAIN from)

(* The first constants of the object new are those of old.                  *)
Begun(new, old, from) ==
  /\ new.code = old.code
  /\ Len(new.constants) <= Len(old.constants)
  /\ \A k \in 1 .. Len(new.constants) : Same(new.constants[k], old.constants[k], from)

CopiesOf(from) ==
  /\ from \in Seq(DOMAIN object.fns) /\ Len(from) = Len(loaded)
  /\ loaded # << >> => from[1] = 1
  /\ (loaded = << >>) = (pos = 0)
  /\ \A f \in 1 .. Len(loaded) :
       /\ Begun(loaded[f], object.fns[from[f]], from)
       /\ (\A i \in 1 .. Len(reader) : reader[i].fn # f) =>
            Len(loaded[f].constants) = Len(object.fns[from[f]].constants)

(* The reader is where the calls are; a constant that is open it has not    *)
(* put down yet.                                                            *)
ReaderAt(calls, from) ==
  /\ Len(reader) = Len(calls)
  /\ \A i \in 1 .. Len(calls) :
       /\ from[reader[i].fn] = calls[i].fn
       /\ Len(loaded[reader[i].fn].constants) =
            IF i < Len(calls) THEN calls[i].done - 1 ELSE calls[i].done
  /\ \A i, j \in 1 .. Len(calls) : reader[i].fn = reader[j].fn => i = j

ReaderPhases ==
  /\ phase = "read" /\ pos # 0 => reader # << >>
  /\ phase = "loaded" => reader = << >> /\ pos # 0
  /\ phase # "execute"

SInv ==
  /\ TInv /\ WriterPhases /\ ReaderPhases
  /\ \E h, from : /\ HistoryOf(h) /\ CopiesOf(from)
                  /\ phase = "read" => ReaderAt(h[pos], from)

-----------------------------------------------------------------------------
(* The writer walks through a history.                                      *)

(* Facts about the calls that are open.                                     *)
LEMMA CallFacts ==
  ASSUME Fit, NEW calls \in Seq(CallType)
  PROVE  /\ Len(calls) \in Nat /\ DOMAIN calls = 1 .. Len(calls)
         /\ \A i \in 1 .. Len(calls) :
              /\ calls[i] \in CallType
              /\ calls[i].fn \in DOMAIN object.fns /\ calls[i].done \in Nat
              /\ ConstantsOf(calls[i]) \in Seq(Value)
         /\ calls # << >> =>
              /\ Len(calls) \in 1 .. Len(calls)
              /\ Top(calls) = calls[Len(calls)]
<1>1. Len(calls) \in Nat /\ DOMAIN calls = 1 .. Len(calls)
  BY ElementIn
<1>2. ASSUME NEW i \in 1 .. Len(calls)
      PROVE  /\ calls[i] \in CallType
             /\ calls[i].fn \in DOMAIN object.fns /\ calls[i].done \in Nat
             /\ ConstantsOf(calls[i]) \in Seq(Value)
  <2>1. calls[i] \in CallType
    BY <1>1, ElementIn
  <2>2. calls[i].fn \in DOMAIN object.fns /\ calls[i].done \in Nat
    BY <2>1 DEF CallType
  <2> QED
    BY <2>1, <2>2, FunctionFacts DEF ConstantsOf
<1>3. calls # << >> => Len(calls) \in 1 .. Len(calls)
  BY <1>1
<1> QED
  BY <1>1, <1>2, <1>3 DEF Top

(* One constant more.                                                       *)
LEMMA CountedFacts ==
  ASSUME Fit, NEW calls \in Seq(CallType), calls # << >>
  PROVE  /\ Counted(calls) \in Seq(CallType)
         /\ Len(Counted(calls)) = Len(calls)
         /\ \A i \in 1 .. Len(calls) : Counted(calls)[i].fn = calls[i].fn
         /\ \A i \in 1 .. Len(calls) :
              i # Len(calls) => Counted(calls)[i] = calls[i]
         /\ Counted(calls)[Len(calls)].done = Top(calls).done + 1
<1> DEFINE n   == Len(calls)
           new == [calls[n] EXCEPT !.done = calls[n].done + 1]
<1>1. n \in 1 .. n /\ calls[n] \in CallType /\ Top(calls) = calls[n]
  BY CallFacts
<1>2. new \in CallType /\ new.fn = calls[n].fn /\ new.done = calls[n].done + 1
  BY <1>1 DEF CallType
<1>3. Counted(calls) = [calls EXCEPT ![n] = new]
  BY DEF Counted
<1> HIDE DEF new
<1>4. /\ Counted(calls) \in Seq(CallType) /\ Len(Counted(calls)) = n
      /\ Counted(calls)[n] = new
      /\ \A i \in 1 .. n : i # n => Counted(calls)[i] = calls[i]
  BY ONLY <1>1, <1>2, <1>3, ReplacedIn, calls \in Seq(CallType)
<1> QED
  BY <1>1, <1>2, <1>4

(* They stay nested when a constant is counted ...                          *)
LEMMA CountedNested ==
  ASSUME Fit, NEW calls \in Seq(CallType), calls # << >>, Nested(calls),
         Top(calls).done < Len(ConstantsOf(Top(calls)))
  PROVE  Nested(Counted(calls))
<1> DEFINE next == Counted(calls)
<1> SUFFICES ASSUME NEW i \in 1 .. Len(next)
             PROVE  /\ next[i].done <= Len(ConstantsOf(next[i]))
                    /\ i < Len(next) =>
                         /\ 1 <= next[i].done
                         /\ ConstantsOf(next[i])[next[i].done].t = "fn"
                         /\ ConstantsOf(next[i])[next[i].done].i = next[i + 1].fn
  BY DEF Nested
<1>1. /\ Len(next) = Len(calls) /\ Len(calls) \in Nat /\ Len(calls) \in 1 .. Len(calls)
      /\ \A j \in 1 .. Len(calls) : next[j].fn = calls[j].fn
      /\ \A j \in 1 .. Len(calls) : j # Len(calls) => next[j] = calls[j]
      /\ next[Len(calls)].done = Top(calls).done + 1
      /\ Top(calls) = calls[Len(calls)]
  BY CountedFacts, CallFacts
<1> HIDE DEF next
<1>2. CASE i = Len(calls)
  <2>1. ConstantsOf(next[i]) = ConstantsOf(Top(calls))
    BY <1>1, <1>2 DEF ConstantsOf
  <2>2. Len(ConstantsOf(Top(calls))) \in Nat /\ Top(calls).done \in Nat
    BY <1>1, CallFacts
  <2> QED
    BY <1>1, <1>2, <2>1, <2>2
<1>3. CASE i # Len(calls)
  <2>1. i < Len(calls) /\ i + 1 \in 1 .. Len(calls)
    BY <1>1, <1>3
  <2>2. next[i] = calls[i] /\ next[i + 1].fn = calls[i + 1].fn
    BY <1>1, <1>3, <2>1
  <2> QED
    BY <1>1, <2>1, <2>2 DEF Nested
<1> QED
  BY <1>2, <1>3

(* ... when the function it is begins ...                                   *)
LEMMA BegunNested ==
  ASSUME Fit, NEW calls \in Seq(CallType), calls # << >>, Nested(Counted(calls)),
         Top(calls).done < Len(ConstantsOf(Top(calls))),
         NEW f \in DOMAIN object.fns,
         ConstantsOf(Top(calls))[Top(calls).done + 1].t = "fn",
         ConstantsOf(Top(calls))[Top(calls).done + 1].i = f
  PROVE  LET next == Append(Counted(calls), [fn |-> f, done |-> 0])
         IN  next \in Seq(CallType) /\ Nested(next)
<1> DEFINE mid  == Counted(calls)
           call == [fn |-> f, done |-> 0]
           next == Append(mid, call)
           n    == Len(calls)
<1>1. /\ mid \in Seq(CallType) /\ Len(mid) = n /\ n \in 1 .. n /\ n \in Nat
      /\ mid[n].fn = Top(calls).fn /\ mid[n].done = Top(calls).done + 1
      /\ Top(calls).done \in Nat
  BY CountedFacts, CallFacts
<1>2. call \in CallType /\ call.fn = f /\ call.done = 0
  BY DEF CallType
<1> HIDE DEF mid, call
<1>3. /\ next \in Seq(CallType) /\ Len(next) = n + 1 /\ next[n + 1] = call
      /\ \A i \in 1 .. n : next[i] = mid[i]
  BY ONLY <1>1, <1>2, AppendProperties
<1> HIDE DEF next, n
<1>4. ASSUME NEW i \in 1 .. Len(next)
      PROVE  /\ next[i].done <= Len(ConstantsOf(next[i]))
             /\ i < Len(next) =>
                  /\ 1 <= next[i].done
                  /\ ConstantsOf(next[i])[next[i].done].t = "fn"
                  /\ ConstantsOf(next[i])[next[i].done].i = next[i + 1].fn
  <2>1. CASE i = n + 1
    <3>1. Len(ConstantsOf(next[i])) \in Nat
      BY <1>3, CallFacts
    <3> QED
      BY <1>1, <1>2, <1>3, <2>1, <3>1
  <2>2. CASE i = n
    <3>1. next[i] = mid[n] /\ ConstantsOf(mid[n]) = ConstantsOf(Top(calls))
      BY <1>1, <1>3, <2>2 DEF ConstantsOf
    <3>2. Len(ConstantsOf(Top(calls))) \in Nat
      BY CallFacts
    <3> QED
      BY <1>1, <1>2, <1>3, <2>2, <3>1, <3>2
  <2>3. CASE i < n
    <3>1. i \in 1 .. n /\ i + 1 \in 1 .. n
      BY <1>1, <1>3, <2>3
    <3>2. next[i] = mid[i] /\ next[i + 1] = mid[i + 1]
      BY <1>3, <3>1
    <3> QED
      BY <1>1, <2>3, <3>1, <3>2 DEF Nested, mid
  <2> QED
    BY <1>1, <1>3, <2>1, <2>2, <2>3
<1> QED
  BY <1>3, <1>4 DEF Nested, next, mid, call

(* ... and when a call ends.                                                *)
LEMMA RestNested ==
  ASSUME Fit, NEW calls \in Seq(CallType), calls # << >>, Nested(calls)
  PROVE  Rest(calls) \in Seq(CallType) /\ Nested(Rest(calls))
<1>1. /\ Rest(calls) \in Seq(CallType) /\ Len(Rest(calls)) = Len(calls) - 1
      /\ Len(calls) \in Nat \ {0}
      /\ \A i \in 1 .. (Len(calls) - 1) : Rest(calls)[i] = calls[i]
  BY RestFacts
<1> DEFINE next == Rest(calls)
<1>2. ASSUME NEW i \in 1 .. Len(next)
      PROVE  /\ next[i].done <= Len(ConstantsOf(next[i]))
             /\ i < Len(next) =>
                  /\ 1 <= next[i].done
                  /\ ConstantsOf(next[i])[next[i].done].t = "fn"
                  /\ ConstantsOf(next[i])[next[i].done].i = next[i + 1].fn
  <2>1. i \in 1 .. Len(calls) /\ next[i] = calls[i]
    BY <1>1
  <2>2. i < Len(next) => i < Len(calls) /\ next[i + 1] = calls[i + 1]
    BY <1>1
  <2> QED
    BY <2>1, <2>2 DEF Nested
<1> QED
  BY <1>1, <1>2 DEF Nested

(* A line leads from nested calls to nested calls.                          *)
LEMMA TakesNested ==
  ASSUME Fit, NEW calls \in Seq(CallType), Nested(calls), NEW line, NEW next,
         TakesLine(line, calls, next)
  PROVE  next \in Seq(CallType) /\ Nested(next)
<1>1. CASE calls = << >> /\ next = << [fn |-> 1, done |-> 0] >>
  <2> DEFINE call == [fn |-> 1, done |-> 0]
  <2>1. 1 \in DOMAIN object.fns
    BY DEF Fit, IsImage
  <2>2. call \in CallType /\ call.done = 0
    BY <2>1 DEF CallType
  <2> HIDE DEF call
  <2>3. next \in Seq(CallType) /\ Len(next) = 1 /\ next[1] = call
    BY <1>1, <2>2 DEF call
  <2>4. Len(ConstantsOf(call)) \in Nat
    BY <2>3, CallFacts
  <2> QED
    BY <2>2, <2>3, <2>4 DEF Nested
<1>2. CASE calls # << >> /\ Top(calls).done < Len(ConstantsOf(Top(calls)))
  <2> DEFINE val == ConstantsOf(Top(calls))[Top(calls).done + 1]
  <2>1. Counted(calls) \in Seq(CallType) /\ Nested(Counted(calls))
    BY <1>2, CountedFacts, CountedNested
  <2>2. CASE next = Counted(calls)
    BY <2>1, <2>2
  <2>3. CASE val.t = "fn" /\ next = Append(Counted(calls), [fn |-> val.i, done |-> 0])
    <3>1. /\ Top(calls).fn \in DOMAIN object.fns /\ Top(calls).done \in Nat
          /\ ConstantsOf(Top(calls)) \in Seq(Value)
      BY <1>2, CallFacts
    <3>2. Top(calls).done + 1 \in DOMAIN ConstantsOf(Top(calls))
      BY <1>2, <3>1
    <3>3. Expressible(object, val)
      BY <3>1, <3>2, FunctionFacts DEF ConstantsOf
    <3>4. val.i \in DOMAIN object.fns
      BY <2>3, <3>3 DEF Expressible
    <3> QED
      BY <1>2, <2>1, <2>3, <3>4, BegunNested
  <2> QED
    BY <1>2, <2>2, <2>3, CallFacts DEF TakesLine
<1>3. CASE calls # << >> /\ next = Rest(calls)
  BY <1>3, RestNested
<1> QED
  BY <1>1, <1>2, <1>3 DEF TakesLine

(* Where the writer is, the calls are.                                      *)
LEMMA WriterTop ==
  ASSUME TInv, NEW calls \in Seq(CallType), WriterAt(calls), writer # << >>
  PROVE  /\ calls # << >> /\ Len(calls) = Len(writer)
         /\ Top(calls).fn = Top(writer).fn
         /\ ConstantsOf(Top(calls)) = Writing.constants
         /\ Top(calls).done = Done
<1>1. Len(calls) = Len(writer) /\ Len(writer) \in Nat \ {0}
  BY WritingFacts DEF WriterAt
<1>2. calls # << >>
  BY <1>1, CallFacts
<1>3. /\ Top(calls) = calls[Len(calls)] /\ Len(calls) \in 1 .. Len(calls)
      /\ Top(writer) = writer[Len(calls)]
  BY <1>1, <1>2, CallFacts, WritingFacts DEF TInv
<1>4. /\ Top(writer).fn = Top(calls).fn
      /\ object.fns[Top(calls).fn].walk[Top(writer).ip] = Top(calls).done
  BY <1>3 DEF WriterAt
<1> QED
  BY <1>1, <1>2, <1>4, WritingFacts DEF ConstantsOf, Done, WIP

(* The writer goes on.                                                      *)
LEMMA WriterAdvances ==
  ASSUME TInv, NEW calls \in Seq(CallType), WriterAt(calls), Walking,
         WOp \in LocOpcodes
  PROVE  /\ Len(Advanced) = Len(Counted(calls))
         /\ \A i \in 1 .. Len(calls) :
              /\ Advanced[i].fn = Counted(calls)[i].fn
              /\ object.fns[Counted(calls)[i].fn].walk[Advanced[i].ip] = Counted(calls)[i].done
<1>1. /\ calls # << >> /\ Len(calls) = Len(writer) /\ Len(calls) \in 1 .. Len(calls)
      /\ Top(calls).fn = Top(writer).fn /\ Top(calls).done = Done
      /\ Top(calls) = calls[Len(calls)] /\ Top(writer) = writer[Len(writer)]
  BY WriterTop, CallFacts, WritingFacts DEF TInv, Walking
<1>2. /\ Counted(calls) \in Seq(CallType) /\ Len(Counted(calls)) = Len(calls)
      /\ \A i \in 1 .. Len(calls) : Counted(calls)[i].fn = calls[i].fn
      /\ \A i \in 1 .. Len(calls) : i # Len(calls) => Counted(calls)[i] = calls[i]
      /\ Counted(calls)[Len(calls)].done = Done + 1
  BY <1>1, CountedFacts DEF TInv
<1>3. /\ Len(Advanced) = Len(writer)
      /\ \A i \in 1 .. Len(writer) :
           /\ Advanced[i].fn = writer[i].fn
           /\ i # Len(writer) => Advanced[i].ip = writer[i].ip
      /\ Writing = object.fns[Top(writer).fn]
      /\ Writing.walk[Advanced[Len(writer)].ip] = Done + 1
  BY <1>1, AdvancedFacts, WalkFacts, WritingFacts DEF Walking
<1>4. ASSUME NEW i \in 1 .. Len(calls)
      PROVE  /\ Advanced[i].fn = Counted(calls)[i].fn
             /\ object.fns[Counted(calls)[i].fn].walk[Advanced[i].ip] = Counted(calls)[i].done
  <2>1. writer[i].fn = calls[i].fn
        /\ object.fns[calls[i].fn].walk[writer[i].ip] = calls[i].done
    BY DEF WriterAt
  <2>2. CASE i = Len(calls)
    BY <1>1, <1>2, <1>3, <2>1, <2>2
  <2>3. CASE i # Len(calls)
    BY <1>1, <1>2, <1>3, <2>1, <2>3
  <2> QED
    BY <2>2, <2>3
<1> QED
  BY <1>1, <1>2, <1>3, <1>4

(* What it writes for a constant is the line of that constant.              *)
LEMMA ConstantLine ==
  ASSUME TInv, NEW calls \in Seq(CallType), WriterAt(calls), Walking,
         WOp \in LocOpcodes, NEW line \in NextLine
  PROVE  /\ WOp # OP_LOCF_LONG => TakesLine(line, calls, Counted(calls))
         /\ WOp = OP_LOCF_LONG =>
              TakesLine(line, calls, Append(Counted(calls), [fn |-> WConstant.i, done |-> 0]))
<1>1. /\ calls # << >>
      /\ Top(calls).done < Len(ConstantsOf(Top(calls)))
      /\ WConstant = ConstantsOf(Top(calls))[Top(calls).done + 1]
      /\ Loads(WOp, WConstant)
  BY WriterTop, WalkFacts DEF Walking
<1>2. line = serialize_loc(WOp, WConstant)
  BY DEF NextLine, Walking
<1> USE DEF OP_LOCI_LONG, OP_LOCS_LONG, OP_LOC_ALINK_LONG, OP_LOCF_LONG
<1>3. CASE WOp = OP_LOCI_LONG
  <2>1. line = Line("integer", WConstant.i, << >>) /\ WConstant.t = "int"
    BY <1>1, <1>2, <1>3 DEF serialize_loc, Loads
  <2>2. line.k = "integer" /\ line.n = WConstant.i
    BY <2>1 DEF Line
  <2> QED
    BY <1>1, <1>3, <2>1, <2>2 DEF TakesLine
<1>4. CASE WOp = OP_LOCS_LONG
  <2>1. line = Line("string", WConstant.i, << >>) /\ WConstant.t = "str"
    BY <1>1, <1>2, <1>4 DEF serialize_loc, Loads
  <2>2. line.k = "string" /\ line.n = WConstant.i
    BY <2>1 DEF Line
  <2> QED
    BY <1>1, <1>4, <2>1, <2>2 DEF TakesLine
<1>5. CASE WOp = OP_LOC_ALINK_LONG
  <2>1. line = Line("vector", WConstant.n, << >>) /\ WConstant.t = "vec"
    BY <1>1, <1>2, <1>5 DEF serialize_loc, Loads
  <2>2. line.k = "vector" /\ line.n = WConstant.n
    BY <2>1 DEF Line
  <2> QED
    BY <1>1, <1>5, <2>1, <2>2 DEF TakesLine
<1>6. CASE WOp = OP_LOCF_LONG
  <2>1. line = Line("function", 0, object.fns[WConstant.i].code) /\ WConstant.t = "fn"
    BY <1>1, <1>2, <1>6 DEF serialize_loc, Loads
  <2>2. line.k = "function" /\ line.code = object.fns[WConstant.i].code
    BY <2>1 DEF Line
  <2> QED
    BY <1>1, <1>6, <2>1, <2>2 DEF TakesLine
<1> QED
  BY <1>3, <1>4, <1>5, <1>6 DEF LocOpcodes

(* A line the writer puts down leads from where it was to where it is.      *)
LEMMA WriterTakes ==
  ASSUME TInv, NEW calls \in Seq(CallType), WriterAt(calls), NEW line \in NextLine,
         \/ WriteRoot \/ WriteConstant \/ WriteFunction \/ WriteEnd
  PROVE  \E next : /\ TakesLine(line, calls, next)
                   /\ Len(writer') = Len(next)
                   /\ \A i \in 1 .. Len(next) :
                        /\ writer'[i].fn = next[i].fn
                        /\ object.fns[next[i].fn].walk[writer'[i].ip] = next[i].done
<1> DEFINE At(next) == /\ Len(writer') = Len(next)
                       /\ \A i \in 1 .. Len(next) :
                            /\ writer'[i].fn = next[i].fn
                            /\ object.fns[next[i].fn].walk[writer'[i].ip] = next[i].done
<1>1. Fit
  BY DEF TInv
<1>2. CASE WriteRoot
  <2> DEFINE call == [fn |-> 1, done |-> 0]
  <2>1. writer = << >> /\ writer' = << [fn |-> 1, ip |-> 0] >>
    BY <1>2 DEF WriteRoot
  <2>2. calls = << >>
    <3>1. Len(calls) = 0
      BY <2>1 DEF WriterAt
    <3> QED
      BY <3>1
  <2>3. line = Line("code", 0, object.fns[1].code)
    BY <2>1 DEF NextLine
  <2>4. TakesLine(line, calls, << call >>)
    BY <2>2, <2>3 DEF TakesLine, Line
  <2>5. object.fns[1].walk[0] = 0
    BY <1>1, BeginsOnWalk DEF Fit, IsImage
  <2>6. At(<< call >>)
    BY <2>1, <2>5
  <2> QED
    BY <2>4, <2>6
<1>3. CASE WriteConstant
  <2>1. Walking /\ WOp \in LocOpcodes /\ WOp # OP_LOCF_LONG /\ writer' = Advanced
    BY <1>3 DEF WriteConstant
  <2>2. calls # << >>
    BY <2>1, WriterTop DEF Walking
  <2>3. TakesLine(line, calls, Counted(calls))
    BY <2>1, ConstantLine
  <2>4. Len(Counted(calls)) = Len(calls)
    BY <1>1, <2>2, CountedFacts
  <2>5. At(Counted(calls))
    BY <2>1, <2>4, WriterAdvances
  <2> QED
    BY <2>3, <2>5
<1>4. CASE WriteFunction
  <2> DEFINE mid  == Counted(calls)
             call == [fn |-> WConstant.i, done |-> 0]
             top  == [fn |-> WConstant.i, ip |-> 0]
             n    == Len(calls)
  <2>1. /\ Walking /\ WOp \in LocOpcodes /\ WOp = OP_LOCF_LONG
        /\ writer' = Append(Advanced, top)
    BY <1>4 DEF WriteFunction, LocOpcodes
  <2>2. calls # << >>
    BY <2>1, WriterTop DEF Walking
  <2>3. TakesLine(line, calls, Append(mid, call))
    BY <2>1, ConstantLine
  <2>4. mid \in Seq(CallType) /\ Len(mid) = n /\ n \in Nat
    BY <1>1, <2>2, CountedFacts, CallFacts
  <2>5. /\ Len(Advanced) = n
        /\ \A i \in 1 .. n :
             /\ Advanced[i].fn = mid[i].fn
             /\ object.fns[mid[i].fn].walk[Advanced[i].ip] = mid[i].done
    BY <2>1, <2>4, WriterAdvances
  <2>6. WConstant.i \in DOMAIN object.fns
    BY <2>1, WalkFacts DEF Loads, Expressible, OP_LOCI_LONG, OP_LOCS_LONG,
                           OP_LOC_ALINK_LONG, OP_LOCF_LONG
  <2>7. /\ call.fn = top.fn /\ call.fn = WConstant.i /\ call.done = 0
        /\ object.fns[call.fn].walk[top.ip] = 0
        /\ call \in CallType
    BY <1>1, <2>6, BeginsOnWalk DEF CallType
  <2>8. Advanced \in Seq([fn : DOMAIN object.fns, ip : Nat])
        /\ top \in [fn : DOMAIN object.fns, ip : Nat]
    BY <2>1, <2>6, AdvancedFacts
  <2> HIDE DEF mid, call, top, n
  <2>9. /\ Len(Append(mid, call)) = n + 1 /\ Append(mid, call)[n + 1] = call
        /\ \A i \in 1 .. n : Append(mid, call)[i] = mid[i]
    BY ONLY <2>4, <2>7, AppendProperties
  <2>10. /\ Len(writer') = n + 1 /\ writer'[n + 1] = top
         /\ \A i \in 1 .. n : writer'[i] = Advanced[i]
    BY ONLY <2>1, <2>4, <2>5, <2>8, AppendProperties
  <2>11. At(Append(mid, call))
    <3> SUFFICES ASSUME NEW i \in 1 .. Len(Append(mid, call))
                 PROVE  /\ writer'[i].fn = Append(mid, call)[i].fn
                        /\ object.fns[Append(mid, call)[i].fn].walk[writer'[i].ip]
                             = Append(mid, call)[i].done
      BY <2>9, <2>10
    <3>1. i \in 1 .. n \/ i = n + 1
      BY <2>4, <2>9
    <3>2. CASE i \in 1 .. n
      <4>1. Append(mid, call)[i] = mid[i] /\ writer'[i] = Advanced[i]
        BY ONLY <2>9, <2>10, <3>2
      <4> QED
        BY ONLY <2>5, <3>2, <4>1
    <3>3. CASE i = n + 1
      BY ONLY <2>7, <2>9, <2>10, <3>3
    <3> QED
      BY ONLY <3>1, <3>2, <3>3
  <2> QED
    BY <2>3, <2>11 DEF mid, call
<1>5. CASE WriteEnd
  <2>1. writer # << >> /\ ~Walking /\ writer' = Rest(writer)
    BY <1>5 DEF WriteEnd
  <2>2. line.k = "end"
    BY <2>1 DEF NextLine, Line
  <2>3. /\ calls # << >> /\ Len(calls) = Len(writer)
        /\ Top(calls).done = Len(ConstantsOf(Top(calls)))
    BY <2>1, WriterTop, EndOfWalk
  <2>4. TakesLine(line, calls, Rest(calls))
    BY <2>2, <2>3 DEF TakesLine
  <2>5. /\ Len(Rest(calls)) = Len(calls) - 1 /\ Len(calls) \in Nat \ {0}
        /\ \A i \in 1 .. (Len(calls) - 1) : Rest(calls)[i] = calls[i]
    BY <2>3, RestFacts
  <2>6. /\ Len(writer') = Len(calls) - 1
        /\ \A i \in 1 .. (Len(calls) - 1) : writer'[i] = writer[i]
    BY <2>1, <2>3, RestFacts DEF TInv, SerialTypeOK
  <2>7. At(Rest(calls))
    <3> SUFFICES ASSUME NEW i \in 1 .. (Len(calls) - 1)
                 PROVE  /\ writer'[i].fn = Rest(calls)[i].fn
                        /\ object.fns[Rest(calls)[i].fn].walk[writer'[i].ip] = Rest(calls)[i].done
      BY <2>5, <2>6
    <3>1. i \in 1 .. Len(calls)
      BY <2>5
    <3> QED
      BY <2>5, <2>6, <3>1 DEF WriterAt
  <2> QED
    BY <2>4, <2>7
<1> QED
  BY <1>2, <1>3, <1>4, <1>5

(* An instruction that loads no constant changes nothing of the calls.      *)
LEMMA WriterSkips ==
  ASSUME TInv, NEW calls \in Seq(CallType), WriterAt(calls), SkipInstruction
  PROVE  /\ Len(writer') = Len(calls)
         /\ \A i \in 1 .. Len(calls) :
              /\ writer'[i].fn = calls[i].fn
              /\ object.fns[calls[i].fn].walk[writer'[i].ip] = calls[i].done
<1>1. Walking /\ WOp \notin LocOpcodes /\ writer' = Advanced /\ writer # << >>
  BY DEF SkipInstruction, Walking
<1>2. /\ Len(calls) = Len(writer)
      /\ Top(calls).fn = Top(writer).fn /\ Top(calls).done = Done
      /\ Top(calls) = calls[Len(calls)]
  BY <1>1, WriterTop, CallFacts DEF TInv
<1>3. /\ Len(Advanced) = Len(writer)
      /\ \A i \in 1 .. Len(writer) :
           /\ Advanced[i].fn = writer[i].fn
           /\ i # Len(writer) => Advanced[i].ip = writer[i].ip
      /\ Writing = object.fns[Top(writer).fn]
      /\ Writing.walk[Advanced[Len(writer)].ip] = Done
  BY <1>1, AdvancedFacts, WalkFacts, WritingFacts
<1>4. ASSUME NEW i \in 1 .. Len(calls)
      PROVE  /\ Advanced[i].fn = calls[i].fn
             /\ object.fns[calls[i].fn].walk[Advanced[i].ip] = calls[i].done
  <2>1. /\ writer[i].fn = calls[i].fn
        /\ object.fns[calls[i].fn].walk[writer[i].ip] = calls[i].done
    BY DEF WriterAt
  <2>2. CASE i = Len(calls)
    BY <1>1, <1>2, <1>3, <2>1, <2>2
  <2>3. CASE i # Len(calls)
    BY <1>1, <1>2, <1>3, <2>1, <2>3
  <2> QED
    BY <2>2, <2>3
<1> QED
  BY <1>1, <1>2, <1>3, <1>4

(* What the image alone determines stays.                                   *)
LEMMA CallsKept ==
  ASSUME UNCHANGED object
  PROVE  /\ CallType' = CallType
         /\ \A line, calls, next : TakesLine(line, calls, next)' <=> TakesLine(line, calls, next)
         /\ \A calls : Nested(calls)' <=> Nested(calls)
<1>1. CallType' = CallType
  BY DEF CallType
<1>2. ASSUME NEW line, NEW calls, NEW next
      PROVE  TakesLine(line, calls, next)' <=> TakesLine(line, calls, next)
  BY DEF TakesLine, ConstantsOf, Counted, Top, Rest
<1>3. ASSUME NEW calls
      PROVE  Nested(calls)' <=> Nested(calls)
  BY DEF Nested, ConstantsOf
<1> QED
  BY <1>1, <1>2, <1>3

(* A line more makes the history one longer.                                *)
LEMMA HistoryExtends ==
  ASSUME TInv, NEW h, HistoryOf(h), UNCHANGED object, NEW line \in NextLine,
         file' = Append(file, line), file # << >> => writer # << >>,
         NEW next, TakesLine(line, h[Len(file)], next), WriterAt(next)'
  PROVE  \E g : HistoryOf(g)'
<1> DEFINE n == Len(file)
<1>0. PICK g : g = [k \in 0 .. (n + 1) |-> IF k <= n THEN h[k] ELSE next]
  OBVIOUS
<1>1. file \in Seq(LineType) /\ n \in Nat /\ line \in LineType
  BY NextLineType DEF TInv
<1>2. /\ Len(file') = n + 1 /\ file'[n + 1] = line
      /\ \A k \in 1 .. n : file'[k] = file[k]
  BY <1>1
<1>3. /\ h \in [0 .. n -> Seq(CallType)] /\ h[0] = << >>
      /\ \A k \in 1 .. n : TakesLine(file[k], h[k - 1], h[k])
      /\ \A k \in 0 .. n : Nested(h[k])
      /\ \A k \in 1 .. (n - 1) : h[k] # << >>
      /\ Len(writer) = Len(h[n])
  BY DEF HistoryOf, WriterAt
<1> HIDE DEF n
<1>4. n \in 0 .. n
  BY <1>1
<1>5. next \in Seq(CallType) /\ Nested(next)
  <2>1. h[n] \in Seq(CallType) /\ Nested(h[n])
    BY <1>3, <1>4
  <2> QED
    BY <2>1, TakesNested DEF TInv, n
<1>6. /\ \A k \in 0 .. n : g[k] = h[k]
      /\ g[n + 1] = next
      /\ g \in [0 .. (n + 1) -> Seq(CallType)]
  <2>1. \A k \in 0 .. n : k \in 0 .. (n + 1) /\ k <= n
    BY <1>1
  <2>2. n + 1 \in 0 .. (n + 1) /\ ~(n + 1 <= n)
    BY <1>1
  <2>3. \A k \in 0 .. (n + 1) : k <= n => k \in 0 .. n
    BY <1>1
  <2> QED
    BY <1>0, <1>3, <1>5, <2>1, <2>2, <2>3
<1>7. \A k \in 1 .. (n + 1) : TakesLine(file'[k], g[k - 1], g[k])
  <2> SUFFICES ASSUME NEW k \in 1 .. (n + 1)
               PROVE  TakesLine(file'[k], g[k - 1], g[k])
    OBVIOUS
  <2>1. CASE k = n + 1
    <3>1. g[k - 1] = h[n] /\ g[k] = next /\ file'[k] = line
      BY <1>1, <1>2, <1>4, <1>6, <2>1
    <3> QED
      BY <3>1 DEF n
  <2>2. CASE k # n + 1
    <3>1. k \in 1 .. n /\ k \in 0 .. n /\ k - 1 \in 0 .. n
      BY <1>1, <2>2
    <3>2. g[k - 1] = h[k - 1] /\ g[k] = h[k] /\ file'[k] = file[k]
      BY <1>2, <1>6, <3>1
    <3> QED
      BY <1>3, <3>1, <3>2
  <2> QED
    BY <2>1, <2>2
<1>8. \A k \in 0 .. (n + 1) : Nested(g[k])
  <2> SUFFICES ASSUME NEW k \in 0 .. (n + 1)
               PROVE  Nested(g[k])
    OBVIOUS
  <2>1. k \in 0 .. n \/ k = n + 1
    BY <1>1
  <2> QED
    BY <1>3, <1>5, <1>6, <2>1
<1>9. \A k \in 1 .. ((n + 1) - 1) : g[k] # << >>
  <2> SUFFICES ASSUME NEW k \in 1 .. ((n + 1) - 1)
               PROVE  g[k] # << >>
    OBVIOUS
  <2>1. k \in 0 .. n /\ (k \in 1 .. (n - 1) \/ k = n) /\ n # 0
    BY <1>1
  <2>2. CASE k = n
    <3>1. file # << >>
      BY <2>1 DEF n
    <3>2. Len(writer) # 0
      BY <3>1, WritingFacts
    <3>3. Len(h[n]) # 0
      BY <1>3, <3>2
    <3> QED
      BY <1>6, <2>1, <2>2, <3>3
  <2> QED
    BY <1>3, <1>6, <2>1, <2>2
<1>10. 0 \in 0 .. n /\ g[0] = << >>
  BY <1>1, <1>3, <1>6
<1>11. WriterAt(g[Len(file)])'
  BY <1>2, <1>6
<1>12. (\A k \in 1 .. Len(file) : TakesLine(file[k], g[k - 1], g[k]))'
  <2>1. ASSUME NEW k \in 1 .. (n + 1)
        PROVE  TakesLine(file[k], g[k - 1], g[k])'
    BY <1>7, CallsKept
  <2>2. 1 .. Len(file') = 1 .. (n + 1)
    BY <1>2
  <2> QED
    BY <2>1, <2>2, Zenon
<1>13. (\A k \in 0 .. Len(file) : Nested(g[k]))'
  <2>1. ASSUME NEW k \in 0 .. (n + 1)
        PROVE  Nested(g[k])'
    BY <1>8, CallsKept
  <2>2. 0 .. Len(file') = 0 .. (n + 1)
    BY <1>2
  <2> QED
    BY <2>1, <2>2, Zenon
<1>14. (g \in [0 .. Len(file) -> Seq(CallType)])'
  BY <1>2, <1>6, CallsKept
<1>15. \A k \in 1 .. (Len(file') - 1) : g[k] # << >>
  BY <1>2, <1>9
<1>16. HistoryOf(g)'
  BY <1>10, <1>11, <1>12, <1>13, <1>14, <1>15 DEF HistoryOf
<1> QED
  BY <1>16

(* Before the file is read nothing has been.                                *)
LEMMA NothingRead ==
  ASSUME reader' = << >>, loaded' = << >>, pos' = 0, NEW h, h[0] = << >>
  PROVE  \E from : CopiesOf(from)' /\ ReaderAt(h[pos], from)'
<1>1. Len(<< >>) = 0 /\ \A i : i \notin 1 .. 0
  OBVIOUS
<1>2. CopiesOf(<< >>)'
  BY <1>1 DEF CopiesOf
<1>3. ReaderAt(h[pos], << >>)'
  BY <1>1 DEF ReaderAt
<1> QED
  BY <1>2, <1>3

LEMMA WriterStepInv == SInv /\ WriterStep => SInv'
<1> SUFFICES ASSUME SInv, WriterStep
             PROVE  SInv'
  OBVIOUS
<1>1. /\ TInv /\ TInv' /\ phase = "write" /\ UNCHANGED << object, torn, reader, loaded, pos >>
      /\ phase' \in {"write", "read"}
  BY NextTInv DEF SInv, SerialNext, WriterStep, WriteRoot, SkipInstruction, WriteConstant,
                  WriteFunction, WriteEnd, Puts
<1>2. /\ torn = "none" /\ reader = << >> /\ loaded = << >> /\ pos = 0
      /\ file # << >> => writer # << >>
  BY <1>1 DEF SInv, WriterPhases
<1>3. PICK h : HistoryOf(h)
  BY DEF SInv
<1>4. /\ h \in [0 .. Len(file) -> Seq(CallType)] /\ h[0] = << >>
      /\ WriterAt(h[Len(file)]) /\ Len(file) \in Nat
  BY <1>1, <1>3 DEF HistoryOf, TInv
<1>5. h[Len(file)] \in Seq(CallType)
  BY <1>4
<1>6. phase' = "write" /\ file' # << >> => writer' # << >>
  <2>1. CASE WriteRoot
    BY <2>1 DEF WriteRoot
  <2>2. CASE SkipInstruction \/ WriteConstant
    <3>1. writer' = Advanced /\ Walking
      BY <2>2 DEF SkipInstruction, WriteConstant
    <3>2. Len(writer') # 0
      BY <1>1, <3>1, AdvancedFacts, WritingFacts DEF Walking
    <3> QED
      BY <3>2
  <2>3. CASE WriteFunction
    <3>1. writer' = Append(Advanced, [fn |-> WConstant.i, ip |-> 0]) /\ Walking
      BY <2>3 DEF WriteFunction
    <3>2. Advanced \in Seq([fn : DOMAIN object.fns, ip : Nat])
      BY <1>1, <3>1, AdvancedFacts
    <3> QED
      BY <3>1, <3>2
  <2>4. CASE WriteEnd
    <3>1. writer # << >> /\ writer' = Rest(writer)
          /\ (phase' = "write" => Len(writer) # 1)
      BY <2>4 DEF WriteEnd
    <3>2. Len(writer') = Len(writer) - 1 /\ Len(writer) \in Nat \ {0}
      BY <1>1, <3>1, RestFacts DEF TInv, SerialTypeOK
    <3>3. phase' = "write" => Len(writer') # 0
      BY <3>1, <3>2
    <3> QED
      BY <3>3
  <2> QED
    BY <2>1, <2>2, <2>3, <2>4 DEF WriterStep
<1>7. WriterPhases' /\ ReaderPhases'
  BY <1>1, <1>2, <1>6 DEF WriterPhases, ReaderPhases
<1>8. \E g : HistoryOf(g)'
  <2>1. CASE SkipInstruction
    <3>1. WriterAt(h[Len(file)])'
      <4>1. UNCHANGED file
        BY <2>1 DEF SkipInstruction
      <4> QED
        BY <1>1, <1>4, <1>5, <2>1, <4>1, WriterSkips DEF WriterAt
    <3>2. UNCHANGED << object, file >>
      BY <2>1 DEF SkipInstruction
    <3>3. HistoryOf(h)'
      BY <1>3, <3>1, <3>2, CallsKept DEF HistoryOf
    <3> QED
      BY <3>3
  <2>2. CASE WriteRoot \/ WriteConstant \/ WriteFunction \/ WriteEnd
    <3>1. PICK line \in NextLine : file' = Append(file, line)
      BY <2>2 DEF WriteRoot, WriteConstant, WriteFunction, WriteEnd, Puts
    <3>2. PICK next : /\ TakesLine(line, h[Len(file)], next)
                      /\ Len(writer') = Len(next)
                      /\ \A i \in 1 .. Len(next) :
                           /\ writer'[i].fn = next[i].fn
                           /\ object.fns[next[i].fn].walk[writer'[i].ip] = next[i].done
      BY <1>1, <1>4, <1>5, <2>2, <3>1, WriterTakes
    <3>3. WriterAt(next)'
      BY <1>1, <3>2 DEF WriterAt
    <3> QED
      BY <1>1, <1>2, <1>3, <3>1, <3>2, <3>3, HistoryExtends
  <2> QED
    BY <2>1, <2>2 DEF WriterStep
<1>9. PICK g : HistoryOf(g)'
  BY <1>8
<1>10. PICK from : CopiesOf(from)' /\ ReaderAt(g[pos], from)'
  BY <1>1, <1>2, <1>9, NothingRead DEF HistoryOf
<1> QED
  BY <1>1, <1>7, <1>9, <1>10 DEF SInv

(* The line that was cut off is the end of a list only where one is.        *)
LEMMA EndLine ==
  ASSUME NEW line \in NextLine, line.k = "end"
  PROVE  writer # << >> /\ ~Walking
<1>1. CASE writer = << >>
  BY <1>1 DEF NextLine, Line
<1>2. CASE Walking
  <2>1. WOp \in LocOpcodes /\ line = serialize_loc(WOp, WConstant)
    BY <1>2 DEF NextLine, Walking
  <2> USE DEF OP_LOCI_LONG, OP_LOCS_LONG, OP_LOC_ALINK_LONG, OP_LOCF_LONG
  <2>2. WOp \in {OP_LOCI_LONG, OP_LOCS_LONG, OP_LOC_ALINK_LONG, OP_LOCF_LONG}
    BY <2>1 DEF LocOpcodes
  <2>3. line.k # "end"
    BY <2>1, <2>2 DEF serialize_loc, Line
  <2> QED
    BY <2>3
<1> QED
  BY <1>1, <1>2

LEMMA CrashInv == SInv /\ Crash => SInv'
<1> SUFFICES ASSUME SInv, Crash
             PROVE  SInv'
  OBVIOUS
<1>1. /\ TInv' /\ phase = "write" /\ phase' = "read"
      /\ UNCHANGED << object, file, writer, reader, loaded, pos >>
  BY NextTInv DEF SInv, SerialNext, Crash
<1>2. reader = << >> /\ loaded = << >> /\ pos = 0
  BY <1>1 DEF SInv, WriterPhases
<1>3. torn' = "end" => writer # << >> /\ ~Walking
  BY EndLine DEF Crash
<1>4. Walking' <=> Walking
  BY <1>1 DEF Walking, WIP, Writing, Top
<1>5. WriterPhases' /\ ReaderPhases'
  BY <1>1, <1>2, <1>3, <1>4 DEF WriterPhases, ReaderPhases
<1>6. PICK h : HistoryOf(h)
  BY DEF SInv
<1>7. HistoryOf(h)'
  BY <1>1, <1>6, CallsKept DEF HistoryOf, WriterAt
<1>8. PICK from : CopiesOf(from)' /\ ReaderAt(h[pos], from)'
  BY <1>1, <1>2, <1>7, NothingRead DEF HistoryOf
<1> QED
  BY <1>1, <1>5, <1>7, <1>8 DEF SInv

LEMMA InitSInv == SerialInit /\ Serializable(object) => SInv
<1> SUFFICES ASSUME SerialInit, Serializable(object)
             PROVE  SInv
  OBVIOUS
<1>1. TInv
  BY InitTInv
<1>2. /\ file = << >> /\ torn = "none" /\ writer = << >> /\ reader = << >>
      /\ loaded = << >> /\ pos = 0 /\ phase = "write"
  BY DEF SerialInit
<1>3. WriterPhases /\ ReaderPhases
  BY <1>2 DEF WriterPhases, ReaderPhases
<1>4. PICK h : h = [k \in 0 .. 0 |-> << >>]
  OBVIOUS
<1>5. Len(<< >>) = 0 /\ << >> \in Seq(CallType) /\ 0 \in 0 .. 0
  OBVIOUS
<1>6. h \in [0 .. 0 -> Seq(CallType)] /\ \A k \in 0 .. 0 : h[k] = << >>
  BY <1>4, <1>5
<1>7. HistoryOf(h)
  <2>1. Nested(<< >>) /\ WriterAt(<< >>)
    BY <1>2, <1>5 DEF Nested, WriterAt
  <2> QED
    BY <1>2, <1>5, <1>6, <2>1 DEF HistoryOf
<1>8. CopiesOf(<< >>)
  BY <1>2, <1>5 DEF CopiesOf
<1> QED
  BY <1>1, <1>2, <1>3, <1>7, <1>8 DEF SInv

-----------------------------------------------------------------------------
(* The reader repeats the history.                                          *)

(* The copies.                                                              *)
LEMMA CopyFacts ==
  ASSUME TInv, NEW from, CopiesOf(from)
  PROVE  /\ from \in Seq(DOMAIN object.fns) /\ Len(from) = Len(loaded)
         /\ Len(loaded) \in Nat
         /\ DOMAIN from = 1 .. Len(loaded) /\ DOMAIN loaded = 1 .. Len(loaded)
         /\ \A f \in 1 .. Len(loaded) :
              /\ from[f] \in DOMAIN object.fns
              /\ loaded[f] \in ObjectType
              /\ loaded[f].constants \in Seq(Value)
              /\ object.fns[from[f]].constants \in Seq(Value)
              /\ Begun(loaded[f], object.fns[from[f]], from)
<1>1. from \in Seq(DOMAIN object.fns) /\ Len(from) = Len(loaded)
  BY DEF CopiesOf
<1>2. loaded \in Seq(ObjectType)
  BY DEF TInv, SerialTypeOK, ObjectType
<1>3. /\ Len(loaded) \in Nat
      /\ DOMAIN from = 1 .. Len(loaded) /\ DOMAIN loaded = 1 .. Len(loaded)
  BY <1>1, <1>2
<1>4. ASSUME NEW f \in 1 .. Len(loaded)
      PROVE  /\ from[f] \in DOMAIN object.fns
             /\ loaded[f] \in ObjectType
             /\ loaded[f].constants \in Seq(Value)
             /\ object.fns[from[f]].constants \in Seq(Value)
             /\ Begun(loaded[f], object.fns[from[f]], from)
  <2>1. from[f] \in DOMAIN object.fns
    BY <1>1, ElementIn
  <2>2. loaded[f] \in ObjectType
    BY <1>2, ElementIn
  <2>3. loaded[f].constants \in Seq(Value)
    BY <2>2 DEF ObjectType
  <2>4. object.fns[from[f]].constants \in Seq(Value)
    BY <2>1, FunctionFacts DEF TInv
  <2> QED
    BY <2>1, <2>2, <2>3, <2>4 DEF CopiesOf
<1> QED
  BY <1>1, <1>3, <1>4

(* A copy gets the constant that comes next.                                *)
LEMMA PushedBegun ==
  ASSUME TInv, NEW from, CopiesOf(from), NEW g \in 1 .. Len(loaded), NEW val \in Value,
         loaded' = [loaded EXCEPT ![g].constants = Append(@, val)],
         Len(loaded[g].constants) < Len(object.fns[from[g]].constants),
         Same(val, object.fns[from[g]].constants[Len(loaded[g].constants) + 1], from)
  PROVE  /\ Len(loaded') = Len(loaded)
         /\ \A f \in 1 .. Len(loaded) : f # g => loaded'[f] = loaded[f]
         /\ Len(loaded'[g].constants) = Len(loaded[g].constants) + 1
         /\ \A f \in 1 .. Len(loaded) : Begun(loaded'[f], object.fns[from[f]], from)
<1> DEFINE c == loaded[g].constants
           d == object.fns[from[g]].constants
<1>1. /\ loaded \in Seq(ObjectType) /\ g \in DOMAIN loaded
      /\ c \in Seq(Value) /\ d \in Seq(Value)
      /\ DOMAIN loaded = 1 .. Len(loaded)
      /\ \A f \in 1 .. Len(loaded) : Begun(loaded[f], object.fns[from[f]], from)
  BY CopyFacts DEF TInv, SerialTypeOK, ObjectType
<1>2. /\ Len(loaded') = Len(loaded)
      /\ \A f \in 1 .. Len(loaded) : f # g => loaded'[f] = loaded[f]
      /\ loaded'[g].code = loaded[g].code
      /\ loaded'[g].constants = Append(c, val)
  BY <1>1, PushFacts
<1>3. /\ loaded[g].code = object.fns[from[g]].code
      /\ Len(c) <= Len(d)
      /\ \A k \in 1 .. Len(c) : Same(c[k], d[k], from)
  BY <1>1 DEF Begun
<1> HIDE DEF c, d
<1>4. /\ Len(Append(c, val)) = Len(c) + 1 /\ Append(c, val)[Len(c) + 1] = val
      /\ \A k \in 1 .. Len(c) : Append(c, val)[k] = c[k]
      /\ Len(c) \in Nat /\ Len(d) \in Nat
  BY ONLY <1>1, AppendProperties
<1>5. Len(c) < Len(d) /\ Same(val, d[Len(c) + 1], from)
  BY DEF c, d
<1>6. Begun(loaded'[g], object.fns[from[g]], from)
  <2>1. Len(Append(c, val)) <= Len(d)
    BY <1>4, <1>5
  <2>2. ASSUME NEW k \in 1 .. Len(Append(c, val))
        PROVE  Same(Append(c, val)[k], d[k], from)
    <3>1. k \in 1 .. Len(c) \/ k = Len(c) + 1
      BY <1>4
    <3> QED
      BY <1>3, <1>4, <1>5, <3>1
  <2> QED
    BY <1>2, <1>3, <2>1, <2>2 DEF Begun, d
<1> QED
  BY <1>1, <1>2, <1>4, <1>6 DEF c

(* A call begins: the object it fills is a copy of f.                       *)
LEMMA OpensCopy ==
  ASSUME TInv, NEW from, CopiesOf(from), NEW f \in DOMAIN object.fns,
         Opens(object.fns[f].code), loaded = << >> => f = 1,
         UNCHANGED object, pos' = pos + 1,
         NEW next \in Seq(CallType), Len(next) = Len(reader) + 1,
         next[Len(next)].fn = f, next[Len(next)].done = 0,
         \A i \in 1 .. Len(reader) :
           /\ from[reader[i].fn] = next[i].fn
           /\ Len(loaded[reader[i].fn].constants) = next[i].done - 1,
         \A i, j \in 1 .. Len(reader) : reader[i].fn = reader[j].fn => i = j
  PROVE  \E to : CopiesOf(to)' /\ ReaderAt(next, to)'
<1> DEFINE n   == Len(loaded)
           m   == Len(reader)
           new == [code |-> object.fns[f].code, constants |-> << >>]
<1>1. PICK to : to = Append(from, f)
  OBVIOUS
<1>2. PICK word \in AnyInt : reader' = Append(reader, [fn |-> n + 1, word |-> word])
  BY DEF Opens
<1> DEFINE call == [fn |-> n + 1, word |-> word]
<1>3. /\ loaded \in Seq(ObjectType) /\ n \in Nat /\ loaded' = Append(loaded, new)
      /\ reader \in Seq([fn : DOMAIN loaded, word : Int]) /\ m \in Nat
      /\ pos \in Nat
  <2>1. loaded \in Seq(ObjectType) /\ reader \in Seq([fn : DOMAIN loaded, word : Int])
    BY DEF TInv, SerialTypeOK, ObjectType
  <2>2. pos \in Nat
    BY DEF TInv, SerialTypeOK
  <2>3. loaded' = Append(loaded, new)
    BY DEF Opens
  <2> QED
    BY <2>1, <2>2, <2>3
<1>4. /\ from \in Seq(DOMAIN object.fns) /\ Len(from) = n
      /\ DOMAIN from = 1 .. n /\ DOMAIN loaded = 1 .. n
      /\ \A g \in 1 .. n : /\ from[g] \in DOMAIN object.fns
                           /\ Begun(loaded[g], object.fns[from[g]], from)
  BY CopyFacts
<1>5. \A i \in 1 .. m : reader[i].fn \in 1 .. n
  <2>1. ASSUME NEW i \in 1 .. m
        PROVE  reader[i] \in [fn : DOMAIN loaded, word : Int]
    BY <1>3, ElementIn
  <2> QED
    BY <1>4, <2>1
<1>6. /\ to \in Seq(DOMAIN object.fns) /\ Len(to) = n + 1 /\ to[n + 1] = f
      /\ \A g \in 1 .. n : to[g] = from[g]
      /\ DOMAIN to = 1 .. (n + 1)
  <2>1. f \in DOMAIN object.fns
    OBVIOUS
  <2> HIDE DEF n
  <2> QED
    BY ONLY <1>1, <1>3, <1>4, <2>1, AppendProperties
<1>7. /\ Len(loaded') = n + 1 /\ loaded'[n + 1] = new
      /\ \A g \in 1 .. n : loaded'[g] = loaded[g]
  BY <1>3 DEF ObjectType
<1>8. /\ Len(reader') = m + 1 /\ reader'[m + 1] = call
      /\ \A i \in 1 .. m : reader'[i] = reader[i]
  BY <1>2, <1>3
<1>9. /\ new.code = object.fns[f].code /\ Len(new.constants) = 0 /\ call.fn = n + 1
      /\ object.fns[f].constants \in Seq(Value)
  BY FunctionFacts DEF TInv
<1> HIDE DEF new, call, n, m
<1>10. ASSUME NEW c, NEW d, Same(c, d, from)
       PROVE  Same(c, d, to)
  <2>1. c.t = "fn" => c.i \in 1 .. n
    BY <1>4, <1>10 DEF Same
  <2>2. c.t = "fn" => to[c.i] = from[c.i] /\ c.i \in DOMAIN to
    BY <1>3, <1>6, <2>1
  <2> QED
    BY <1>10, <2>2 DEF Same, SameConstant
<1>11. ASSUME NEW g \in 1 .. (n + 1)
       PROVE  Begun(loaded'[g], object.fns[to[g]], to)
  <2>1. CASE g = n + 1
    BY <1>6, <1>7, <1>9, <2>1 DEF Begun
  <2>2. CASE g # n + 1
    <3>1. g \in 1 .. n
      BY <1>3, <2>2
    <3>2. Begun(loaded[g], object.fns[from[g]], from)
      BY <1>4, <3>1
    <3>3. loaded'[g] = loaded[g] /\ to[g] = from[g]
      BY <1>6, <1>7, <3>1
    <3> QED
      BY <1>10, <3>2, <3>3 DEF Begun
  <2> QED
    BY <2>1, <2>2
<1>12. ASSUME NEW g \in 1 .. (n + 1), \A i \in 1 .. (m + 1) : reader'[i].fn # g
       PROVE  Len(loaded'[g].constants) = Len(object.fns[to[g]].constants)
  <2>1. g # n + 1
    <3>1. m + 1 \in 1 .. (m + 1) /\ reader'[m + 1].fn = n + 1
      BY <1>3, <1>8, <1>9
    <3> QED
      BY <1>12, <3>1
  <2>2. g \in 1 .. n
    BY ONLY <1>3, <2>1
  <2>4. loaded'[g] = loaded[g]
    BY ONLY <1>7, <2>2
  <2>5. to[g] = from[g]
    BY ONLY <1>6, <2>2
  <2>3. \A i \in 1 .. m : reader[i].fn # g
    <3>1. \A i \in 1 .. m : i \in 1 .. (m + 1)
      BY ONLY <1>3
    <3> QED
      BY ONLY <1>8, <1>12, <3>1
  <2> QED
    BY <2>2, <2>3, <2>4, <2>5 DEF CopiesOf, n, m
<1>13. to[1] = 1
  <2>1. CASE n = 0
    <3>1. loaded = << >>
      BY <1>3, <2>1 DEF n
    <3> QED
      BY <1>6, <2>1, <3>1
  <2>2. CASE n # 0
    <3>1. loaded # << >> /\ 1 \in 1 .. n
      BY <1>3, <2>2 DEF n
    <3> QED
      BY <1>6, <3>1 DEF CopiesOf
  <2> QED
    BY <2>1, <2>2
<1>14. loaded' # << >> /\ pos' # 0
  <2>1. Len(loaded') # 0
    BY <1>3, <1>7
  <2>2. pos + 1 # 0
    BY <1>3
  <2> QED
    BY <2>1, <2>2
<1>15. CopiesOf(to)'
  <2>1. to \in Seq(DOMAIN object'.fns) /\ Len(to) = Len(loaded')
    BY <1>6, <1>7
  <2>2. \A g \in 1 .. Len(loaded') :
          (\A i \in 1 .. Len(reader') : reader'[i].fn # g) =>
            Len(loaded'[g].constants) = Len(object'.fns[to[g]].constants)
    BY <1>7, <1>8, <1>12
  <2>3. \A g \in 1 .. Len(loaded') : Begun(loaded'[g], object'.fns[to[g]], to)
    BY <1>7, <1>11
  <2>4. loaded' # << >> => to[1] = 1
    BY ONLY <1>13
  <2>5. (loaded' = << >>) = (pos' = 0)
    BY ONLY <1>14
  <2> QED
    BY ONLY <2>1, <2>2, <2>3, <2>4, <2>5 DEF CopiesOf
<1>16. ASSUME NEW i \in 1 .. (m + 1)
       PROVE  /\ to[reader'[i].fn] = next[i].fn
              /\ Len(loaded'[reader'[i].fn].constants) =
                   IF i < m + 1 THEN next[i].done - 1 ELSE next[i].done
  <2>1. CASE i = m + 1
    BY <1>3, <1>6, <1>7, <1>8, <1>9, <2>1 DEF m
  <2>2. CASE i # m + 1
    <3>1. i \in 1 .. m /\ i < m + 1
      BY <1>3, <2>2
    <3>2. reader'[i] = reader[i] /\ reader[i].fn \in 1 .. n
      BY <1>5, <1>8, <3>1
    <3>3. to[reader[i].fn] = from[reader[i].fn] /\ loaded'[reader[i].fn] = loaded[reader[i].fn]
      BY <1>6, <1>7, <3>2
    <3> QED
      BY <3>1, <3>2, <3>3 DEF m
  <2> QED
    BY <2>1, <2>2
<1>17. ASSUME NEW i \in 1 .. (m + 1), NEW j \in 1 .. (m + 1), reader'[i].fn = reader'[j].fn
       PROVE  i = j
  <2>1. \A k \in 1 .. (m + 1) : \/ k = m + 1 /\ reader'[k].fn = n + 1
                                \/ k \in 1 .. m /\ reader'[k].fn = reader[k].fn /\ reader[k].fn \in 1 .. n
    <3> TAKE k \in 1 .. (m + 1)
    <3>1. k = m + 1 \/ k \in 1 .. m
      BY <1>3
    <3> QED
      BY <1>5, <1>8, <1>9, <3>1
  <2>2. n + 1 \notin 1 .. n
    BY <1>3
  <2> QED
    BY <1>17, <2>1, <2>2 DEF m
<1>18. Len(next) = m + 1
  BY DEF m
<1>19. ReaderAt(next, to)'
  BY <1>8, <1>16, <1>17, <1>18 DEF ReaderAt
<1> QED
  BY <1>15, <1>19

(* A constant is read into the copy that is being filled.                   *)
LEMMA PushCopy ==
  ASSUME TInv, NEW from, CopiesOf(from), NEW calls \in Seq(CallType),
         ReaderAt(calls, from), reader # << >>,
         NEW val \in Value, Push(val), UNCHANGED object, pos' = pos + 1,
         Len(reader') = Len(reader),
         \A i \in 1 .. Len(reader) : reader'[i].fn = reader[i].fn,
         Top(calls).done < Len(ConstantsOf(Top(calls))),
         Same(val, ConstantsOf(Top(calls))[Top(calls).done + 1], from)
  PROVE  CopiesOf(from)' /\ ReaderAt(Counted(calls), from)'
<1> DEFINE m == Len(reader)
           g == Top(reader).fn
<1>1. /\ m \in Nat \ {0} /\ m \in 1 .. m /\ g = reader[m].fn
      /\ \A i \in 1 .. m : reader[i].fn \in 1 .. Len(loaded)
      /\ g \in 1 .. Len(loaded) /\ Len(calls) = m
      /\ pos \in Nat
  <2>1. SerialTypeOK /\ pos \in Nat
    BY DEF TInv, SerialTypeOK
  <2> QED
    BY <2>1, ReaderFacts, CopyFacts DEF ReaderAt
<1>2. calls # << >>
  <2>1. Len(calls) # 0
    BY <1>1
  <2> QED
    BY <2>1
<1>3. /\ Top(calls) = calls[m] /\ from[g] = calls[m].fn
      /\ Len(loaded[g].constants) = calls[m].done
      /\ ConstantsOf(Top(calls)) = object.fns[from[g]].constants
  <2> HIDE DEF m, g
  <2>1. Top(calls) = calls[m]
    BY <1>1, <1>2, CallFacts DEF TInv
  <2>2. from[g] = calls[m].fn /\ Len(loaded[g].constants) = calls[m].done
    BY <1>1 DEF ReaderAt
  <2> QED
    BY ONLY <2>1, <2>2 DEF ConstantsOf
<1>4. /\ Len(Counted(calls)) = m
      /\ \A i \in 1 .. m : Counted(calls)[i].fn = calls[i].fn
      /\ \A i \in 1 .. m : i # m => Counted(calls)[i] = calls[i]
      /\ Counted(calls)[m].done = calls[m].done + 1
  <2> HIDE DEF m, g
  <2>1. Fit
    BY DEF TInv
  <2> QED
    BY ONLY <1>1, <1>2, <1>3, <2>1, calls \in Seq(CallType), CountedFacts
<1>5. loaded' = [loaded EXCEPT ![g].constants = Append(@, val)]
  BY DEF Push
<1> HIDE DEF g
<1>6. /\ Len(loaded') = Len(loaded)
      /\ \A f \in 1 .. Len(loaded) : f # g => loaded'[f] = loaded[f]
      /\ Len(loaded'[g].constants) = Len(loaded[g].constants) + 1
      /\ \A f \in 1 .. Len(loaded) : Begun(loaded'[f], object.fns[from[f]], from)
  <2>1. /\ Len(loaded[g].constants) < Len(object.fns[from[g]].constants)
        /\ Same(val, object.fns[from[g]].constants[Len(loaded[g].constants) + 1], from)
    BY <1>3
  <2> QED
    BY <1>1, <1>5, <2>1, PushedBegun
<1> HIDE DEF m
<1>7. ASSUME NEW f \in 1 .. Len(loaded), \A i \in 1 .. m : reader[i].fn # f
      PROVE  Len(loaded'[f].constants) = Len(object.fns[from[f]].constants)
  <2>1. f # g
    BY <1>1, <1>7
  <2> QED
    BY <1>6, <1>7, <2>1 DEF CopiesOf, m
<1>8. loaded # << >> /\ loaded' # << >> /\ pos + 1 # 0
  <2>1. Len(loaded) \in Nat /\ Len(loaded) # 0
    BY <1>1, CopyFacts
  <2> QED
    BY <1>1, <1>6, <2>1
<1>9. CopiesOf(from)'
  <2>1. from \in Seq(DOMAIN object'.fns) /\ Len(from) = Len(loaded')
    BY <1>6 DEF CopiesOf
  <2>2. loaded' # << >> => from[1] = 1
    BY <1>8 DEF CopiesOf
  <2>3. (loaded' = << >>) = (pos' = 0)
    BY <1>8
  <2>4. \A f \in 1 .. Len(loaded') : Begun(loaded'[f], object'.fns[from[f]], from)
    BY <1>6
  <2>5. \A f \in 1 .. Len(loaded') :
          (\A i \in 1 .. Len(reader') : reader'[i].fn # f) =>
            Len(loaded'[f].constants) = Len(object'.fns[from[f]].constants)
    BY <1>6, <1>7 DEF m
  <2> QED
    BY ONLY <2>1, <2>2, <2>3, <2>4, <2>5 DEF CopiesOf
<1>10. ASSUME NEW i \in 1 .. m
       PROVE  /\ from[reader'[i].fn] = Counted(calls)[i].fn
              /\ Len(loaded'[reader'[i].fn].constants) =
                   IF i < m THEN Counted(calls)[i].done - 1 ELSE Counted(calls)[i].done
  <2>1. /\ reader'[i].fn = reader[i].fn /\ reader[i].fn \in 1 .. Len(loaded)
        /\ from[reader[i].fn] = calls[i].fn
        /\ Len(loaded[reader[i].fn].constants) = IF i < m THEN calls[i].done - 1 ELSE calls[i].done
    BY <1>1 DEF ReaderAt, m
  <2>2. CASE i = m
    BY <1>1, <1>4, <1>6, <2>1, <2>2
  <2>3. CASE i # m
    <3>1. i < m
      BY <1>1, <2>3
    <3>2. reader[i].fn # g
      BY <1>1, <2>3 DEF ReaderAt
    <3> QED
      BY <1>4, <1>6, <2>1, <2>3, <3>1, <3>2
  <2> QED
    BY <2>2, <2>3
<1>11. \A i, j \in 1 .. m : reader'[i].fn = reader'[j].fn => i = j
  BY <1>1 DEF ReaderAt, m
<1>12. ReaderAt(Counted(calls), from)'
  BY <1>4, <1>10, <1>11 DEF ReaderAt, m
<1> QED
  BY <1>9, <1>12

(* A call returns: its copy is complete, and is a constant of the copy      *)
(* around it.                                                               *)
LEMMA ReturnCopy ==
  ASSUME TInv, NEW from, CopiesOf(from), NEW calls \in Seq(CallType), Nested(calls),
         ReaderAt(calls, from), reader # << >>, phase = "read", pos # 0,
         CallReturns, UNCHANGED object, pos' \in {pos, pos + 1},
         Top(calls).done = Len(ConstantsOf(Top(calls)))
  PROVE  /\ CopiesOf(from)' /\ ReaderAt(Rest(calls), from)'
         /\ pos' # 0
         /\ \/ Len(reader) = 1 /\ reader' = << >> /\ phase' = "loaded"
            \/ Len(reader) # 1 /\ reader' # << >> /\ phase' = "read"
<1> DEFINE m == Len(reader)
           c == m - 1
           g == Top(reader).fn
           e == reader[c].fn
           val == FnV(g, reader[c].word)
<1>1. /\ m \in Nat \ {0} /\ m \in 1 .. m /\ g = reader[m].fn
      /\ \A i \in 1 .. m : reader[i].fn \in 1 .. Len(loaded) /\ reader[i].fn \in Int
                           /\ reader[i].word \in Int
      /\ g \in 1 .. Len(loaded) /\ Len(calls) = m
      /\ pos \in Nat
  <2>1. SerialTypeOK /\ pos \in Nat
    BY DEF TInv, SerialTypeOK
  <2> QED
    BY <2>1, ReaderFacts, CopyFacts DEF ReaderAt
<1>0. /\ m \in Nat \ {0} /\ c \in Nat /\ m = c + 1 /\ (c = 0 <=> m = 1)
      /\ \A i \in 1 .. c : i \in 1 .. m /\ i < m
      /\ reader \in Seq([fn : DOMAIN loaded, word : Int])
  <2>1. reader \in Seq([fn : DOMAIN loaded, word : Int])
    BY DEF TInv, SerialTypeOK
  <2>2. m \in Nat \ {0}
    BY <1>1
  <2> HIDE DEF m
  <2>3. /\ m \in Nat \ {0} /\ c \in Nat /\ m = c + 1 /\ (c = 0 <=> m = 1)
        /\ \A i \in 1 .. c : i \in 1 .. m /\ i < m
    BY ONLY <2>2
  <2> QED
    BY <2>1, <2>3
<1>2. calls # << >>
  <2>1. Len(calls) # 0
    BY <1>1
  <2> QED
    BY <2>1
<1>3. /\ Top(calls) = calls[m] /\ from[g] = calls[m].fn
      /\ Len(loaded[g].constants) = calls[m].done
      /\ ConstantsOf(Top(calls)) = object.fns[from[g]].constants
      /\ Len(loaded[g].constants) = Len(object.fns[from[g]].constants)
  <2> HIDE DEF m, g
  <2>1. Top(calls) = calls[m]
    BY <1>1, <1>2, CallFacts DEF TInv
  <2>2. from[g] = calls[m].fn /\ Len(loaded[g].constants) = calls[m].done
    BY <1>1 DEF ReaderAt
  <2>3. ConstantsOf(Top(calls)) = object.fns[from[g]].constants
    BY ONLY <2>1, <2>2 DEF ConstantsOf
  <2>4. Top(calls).done = Len(ConstantsOf(Top(calls)))
    OBVIOUS
  <2> QED
    BY ONLY <2>1, <2>2, <2>3, <2>4
<1>4. /\ Len(Rest(calls)) = c
      /\ \A i \in 1 .. c : Rest(calls)[i] = calls[i]
  BY <1>1, <1>2, RestFacts
<1>5. /\ reader' = Rest(reader) /\ Len(reader') = c
      /\ \A i \in 1 .. c : reader'[i] = reader[i]
  BY RestFacts DEF CallReturns, TInv, SerialTypeOK
<1>6. pos' # 0 /\ loaded # << >>
  <2>1. pos' # 0
    BY <1>1
  <2>2. (loaded = << >>) = (pos = 0)
    BY DEF CopiesOf
  <2> QED
    BY <2>1, <2>2
<1>7. ASSUME NEW i \in 1 .. c, NEW j \in 1 .. c, reader'[i].fn = reader'[j].fn
      PROVE  i = j
  <2>1. reader[i].fn = reader[j].fn /\ i \in 1 .. m /\ j \in 1 .. m
    BY <1>0, <1>5, <1>7
  <2> QED
    BY <1>1, <2>1 DEF ReaderAt
<1>8. \A f \in 1 .. Len(loaded) : (\A i \in 1 .. c : reader'[i].fn # f) /\ f # g
                                    => \A i \in 1 .. m : reader[i].fn # f
  BY <1>1, <1>5
<1>9. CASE c = 0
  <2>1. UNCHANGED loaded /\ phase' = "loaded"
    BY <1>9 DEF CallReturns
  <2>2. reader' = << >>
    <3>1. reader' \in Seq([fn : DOMAIN loaded, word : Int])
      BY <1>0, <1>5, RestFacts
    <3>2. Len(reader') = 0
      BY <1>5, <1>9
    <3> QED
      BY ONLY <3>1, <3>2, EmptySeq
  <2>3. ASSUME NEW f \in 1 .. Len(loaded)
        PROVE  Len(loaded[f].constants) = Len(object.fns[from[f]].constants)
    <3>1. CASE f = g
      BY <1>3, <3>1
    <3>2. CASE f # g
      <4>1. \A i \in 1 .. c : reader'[i].fn # f
        <5> HIDE DEF c
        <5> QED
          BY ONLY <1>9
      <4>2. \A i \in 1 .. Len(reader) : reader[i].fn # f
        BY <1>8, <3>2, <4>1
      <4> QED
        BY <4>2 DEF CopiesOf
    <3> QED
      BY <3>1, <3>2
  <2>4. CopiesOf(from)'
    BY <1>6, <2>1, <2>3 DEF CopiesOf
  <2>5. ReaderAt(Rest(calls), from)'
    BY <1>4, <1>5, <1>9 DEF ReaderAt
  <2>6. Len(reader) = 1
    BY <1>0, <1>9, Zenon
  <2> QED
    BY <1>6, <2>1, <2>2, <2>4, <2>5, <2>6
<1>10. CASE c # 0
  <2>1. c \in 1 .. m /\ c < m /\ c + 1 = m /\ c \in 1 .. c
    BY <1>1, <1>10
  <2>2. /\ loaded' = [loaded EXCEPT ![e].constants = Append(@, val)]
        /\ phase' = "read"
    BY <1>10 DEF CallReturns
  <2>3. /\ e \in 1 .. Len(loaded) /\ e # g /\ val \in Value
        /\ from[e] = calls[c].fn
        /\ Len(loaded[e].constants) = calls[c].done - 1
    <3>1. e \in 1 .. Len(loaded) /\ val \in Value
      BY <1>1, <2>1, ReadingValues
    <3>3. e # g
      BY <1>1, <2>1 DEF ReaderAt
    <3>2. from[e] = calls[c].fn /\ Len(loaded[e].constants) = calls[c].done - 1
      BY <1>1, <2>1 DEF ReaderAt
    <3> QED
      BY ONLY <3>1, <3>2, <3>3
  <2>4. /\ calls[c].done <= Len(ConstantsOf(calls[c]))
        /\ 1 <= calls[c].done /\ calls[c].done \in Nat
        /\ ConstantsOf(calls[c])[calls[c].done].t = "fn"
        /\ ConstantsOf(calls[c])[calls[c].done].i = calls[m].fn
        /\ ConstantsOf(calls[c]) = object.fns[from[e]].constants
        /\ Len(ConstantsOf(calls[c])) \in Nat
    <3>1. c \in 1 .. Len(calls) /\ c < Len(calls)
      BY <1>1, <2>1
    <3>2. calls[c].done \in Nat /\ ConstantsOf(calls[c]) \in Seq(Value)
      BY <3>1, CallFacts DEF TInv
    <3>3. calls[c + 1] = calls[m]
      BY <2>1
    <3>4. ConstantsOf(calls[c]) = object.fns[from[e]].constants
      BY <2>3 DEF ConstantsOf
    <3> HIDE DEF c, m, e
    <3>5. /\ calls[c].done <= Len(ConstantsOf(calls[c]))
          /\ 1 <= calls[c].done
          /\ ConstantsOf(calls[c])[calls[c].done].t = "fn"
          /\ ConstantsOf(calls[c])[calls[c].done].i = calls[c + 1].fn
      BY ONLY <3>1, Nested(calls) DEF Nested
    <3>6. Len(ConstantsOf(calls[c])) \in Nat
      BY ONLY <3>2
    <3> QED
      BY ONLY <3>2, <3>3, <3>4, <3>5, <3>6
  <2>5. /\ Len(loaded[e].constants) < Len(object.fns[from[e]].constants)
        /\ Len(loaded[e].constants) + 1 = calls[c].done
    <3>1. PICK now, done, all : /\ now = Len(loaded[e].constants)
                                /\ done = calls[c].done
                                /\ all = Len(object.fns[from[e]].constants)
      OBVIOUS
    <3>2. now = done - 1 /\ done <= all /\ done \in Nat /\ all \in Nat
      BY ONLY <2>3, <2>4, <3>1
    <3>3. now < all /\ now + 1 = done
      BY ONLY <3>2
    <3> QED
      BY ONLY <3>1, <3>3
  <2>6. Same(val, object.fns[from[e]].constants[Len(loaded[e].constants) + 1], from)
    <3>1. val.t = "fn" /\ val.i = g /\ g \in DOMAIN from
      BY <1>1, CopyFacts DEF FnV
    <3> HIDE DEF val
    <3> QED
      BY <1>3, <2>4, <2>5, <3>1 DEF Same, SameConstant
  <2> HIDE DEF val, e, g
  <2>7. /\ Len(loaded') = Len(loaded)
        /\ \A f \in 1 .. Len(loaded) : f # e => loaded'[f] = loaded[f]
        /\ Len(loaded'[e].constants) = Len(loaded[e].constants) + 1
        /\ \A f \in 1 .. Len(loaded) : Begun(loaded'[f], object.fns[from[f]], from)
    BY <2>2, <2>3, <2>5, <2>6, PushedBegun
  <2> HIDE DEF m, c
  <2>8. ASSUME NEW f \in 1 .. Len(loaded), \A i \in 1 .. c : reader'[i].fn # f
        PROVE  Len(loaded'[f].constants) = Len(object.fns[from[f]].constants)
    <3>1. f # e
      BY <1>5, <2>1, <2>8 DEF e
    <3>2. CASE f = g
      BY <1>3, <2>7, <3>1, <3>2
    <3>3. CASE f # g
      <4>1. \A i \in 1 .. Len(reader) : reader[i].fn # f
        BY <1>8, <2>8, <3>3 DEF m
      <4> QED
        BY <2>7, <3>1, <4>1 DEF CopiesOf
    <3> QED
      BY <3>2, <3>3
  <2>9. loaded' # << >>
    <3>1. Len(loaded') # 0
      BY <1>1, <2>7, CopyFacts
    <3> QED
      BY <3>1
  <2>10. CopiesOf(from)'
    BY <1>5, <1>6, <2>7, <2>8, <2>9 DEF CopiesOf
  <2>11. ASSUME NEW i \in 1 .. c
         PROVE  /\ from[reader'[i].fn] = Rest(calls)[i].fn
                /\ Len(loaded'[reader'[i].fn].constants) =
                     IF i < c THEN Rest(calls)[i].done - 1 ELSE Rest(calls)[i].done
    <3>1. i \in 1 .. m /\ i < m
      BY <1>1, <2>1
    <3>2. /\ reader'[i] = reader[i] /\ Rest(calls)[i] = calls[i]
          /\ from[reader[i].fn] = calls[i].fn
          /\ reader[i].fn \in 1 .. Len(loaded)
          /\ Len(loaded[reader[i].fn].constants) = calls[i].done - 1
      BY <1>1, <1>4, <1>5, <3>1 DEF ReaderAt
    <3>3. CASE i = c
      <4>1. reader[i].fn = e
        BY <3>3 DEF e, c, m
      <4>2. calls[c].done - 1 + 1 = calls[c].done
        BY <2>4
      <4> QED
        BY <2>3, <2>7, <3>2, <3>3, <4>1, <4>2
    <3>4. CASE i # c
      <4>1. i < c /\ reader[i].fn # e
        BY <2>1, <3>1, <3>4 DEF ReaderAt, e, c, m
      <4> QED
        BY <2>7, <3>2, <4>1
    <3> QED
      BY <3>3, <3>4
  <2>12. ReaderAt(Rest(calls), from)'
    BY <1>4, <1>5, <1>7, <2>11 DEF ReaderAt
  <2>13. reader' # << >> /\ Len(reader) # 1
    <3>1. Len(reader') # 0
      BY <1>5, <1>10
    <3> QED
      BY <2>1, <3>1 DEF m, c
  <2> QED
    BY <1>6, <2>2, <2>10, <2>12, <2>13
<1> QED
  BY <1>9, <1>10

(* The line the reader is at leads from the calls where it is.              *)
LEMMA ReadingCalls ==
  ASSUME SInv, NEW h, HistoryOf(h), NEW from, CopiesOf(from), ReaderAt(h[pos], from),
         phase = "read"
  PROVE  /\ h[pos] \in Seq(CallType) /\ Nested(h[pos]) /\ Len(h[pos]) = Len(reader)
         /\ h[pos] = << >> <=> reader = << >>
         /\ reader = << >> => pos = 0
         /\ Reading => /\ TakesLine(Current, h[pos], h[pos + 1])
                       /\ h[pos + 1] \in Seq(CallType)
<1>1. pos \in 0 .. Len(file) /\ Len(file) \in Nat /\ TInv
      /\ reader \in Seq([fn : DOMAIN loaded, word : Int])
  BY DEF SInv, TInv, SerialTypeOK
<1>2. h[pos] \in Seq(CallType) /\ Nested(h[pos]) /\ Len(h[pos]) = Len(reader)
  BY <1>1 DEF HistoryOf, ReaderAt
<1>3. h[pos] = << >> <=> reader = << >>
  BY <1>1, <1>2, EmptySeq
<1>4. reader = << >> => pos = 0
  BY DEF SInv, ReaderPhases
<1>5. ASSUME Reading
      PROVE  /\ TakesLine(Current, h[pos], h[pos + 1])
             /\ h[pos + 1] \in Seq(CallType)
  <2>1. pos + 1 \in 1 .. Len(file) /\ pos + 1 \in 0 .. Len(file) /\ (pos + 1) - 1 = pos
    BY <1>1, <1>5 DEF Reading
  <2>2. /\ h \in [0 .. Len(file) -> Seq(CallType)]
        /\ \A k \in 1 .. Len(file) : TakesLine(file[k], h[k - 1], h[k])
    BY DEF HistoryOf
  <2>3. TakesLine(file[pos + 1], h[(pos + 1) - 1], h[pos + 1])
    BY ONLY <2>1, <2>2
  <2> QED
    BY <2>1, <2>2, <2>3 DEF Current
<1> QED
  BY <1>2, <1>3, <1>4, <1>5

(* SInv in a step of the reader.                                            *)
LEMMA ReaderKeeps ==
  ASSUME SInv, TInv', NEW h, HistoryOf(h), UNCHANGED << object, file, torn, writer >>,
         phase' \in {"read", "loaded"}, pos' # 0,
         phase' = "read" <=> reader' # << >>,
         \E from : CopiesOf(from)' /\ (phase' = "read" => ReaderAt(h[pos], from)')
  PROVE  SInv'
<1>1. HistoryOf(h)'
  BY CallsKept DEF HistoryOf, WriterAt
<1>2. Walking' <=> Walking
  BY DEF Walking, WIP, Writing, Top
<1>3. WriterPhases'
  BY <1>2 DEF SInv, WriterPhases
<1>4. ReaderPhases'
  BY DEF ReaderPhases
<1> QED
  BY <1>1, <1>3, <1>4 DEF SInv

(* The constants that come next.                                            *)
LEMMA NextConstant ==
  ASSUME TInv, NEW calls \in Seq(CallType), calls # << >>,
         Top(calls).done < Len(ConstantsOf(Top(calls)))
  PROVE  LET val == ConstantsOf(Top(calls))[Top(calls).done + 1]
         IN  val \in Value /\ Expressible(object, val)
<1>1. /\ Top(calls).fn \in DOMAIN object.fns /\ Top(calls).done \in Nat
      /\ ConstantsOf(Top(calls)) \in Seq(Value)
  BY CallFacts DEF TInv
<1>2. Top(calls).done + 1 \in DOMAIN ConstantsOf(Top(calls))
  BY <1>1
<1>3. Expressible(object, ConstantsOf(Top(calls))[Top(calls).done + 1])
  BY <1>1, <1>2, FunctionFacts DEF ConstantsOf, TInv
<1>4. ConstantsOf(Top(calls))[Top(calls).done + 1] \in Value
  BY <1>1, <1>2
<1> QED
  BY <1>3, <1>4

LEMMA ReaderStepInv == SInv /\ ReaderStep => SInv'
<1> SUFFICES ASSUME SInv, ReaderStep
             PROVE  SInv'
  OBVIOUS
<1>1. /\ TInv /\ TInv' /\ phase = "read" /\ UNCHANGED << object, file, torn, writer >>
      /\ pos \in Nat /\ SerialTypeOK
  <2>1. TInv /\ TInv'
    BY NextTInv DEF SInv, SerialNext
  <2>2. phase = "read" /\ UNCHANGED << object, file, torn, writer >>
    BY DEF ReaderStep, ReadRoot, ReadInteger, ReadString, ReadVector, ReadFunction, ReadEnd,
           link_panic, ReadPastEnd, ReadTornEnd, Reads, Reading
  <2> QED
    BY <2>1, <2>2 DEF TInv, SerialTypeOK
<1>2. PICK h, from : HistoryOf(h) /\ CopiesOf(from) /\ ReaderAt(h[pos], from)
  BY <1>1 DEF SInv
<1>. PICK calls : calls = h[pos]
  OBVIOUS
<1>. PICK next : next = h[pos + 1]
  OBVIOUS
<1>3. /\ calls \in Seq(CallType) /\ Nested(calls) /\ Len(calls) = Len(reader)
      /\ calls = << >> <=> reader = << >>
      /\ reader = << >> => pos = 0
      /\ Reading => TakesLine(Current, calls, next) /\ next \in Seq(CallType)
  BY <1>1, <1>2, ReadingCalls
<1>4. ASSUME Reads
      PROVE  pos' = pos + 1 /\ pos' # 0
  BY <1>1, <1>4 DEF Reads
<1>11. ASSUME Reads, NEW to, CopiesOf(to)', ReaderAt(next, to)'
       PROVE  (\E t : CopiesOf(t) /\ (phase = "read" => ReaderAt(h[pos], t)))'
  <2>1. h[pos'] = next
    BY <1>4, <1>11
  <2>2. ReaderAt(h[pos], to)'
    BY <1>11, <2>1 DEF ReaderAt
  <2> QED
    BY <1>11, <2>2
<1>5. CASE ReadRoot
  <2>1. /\ reader = << >> /\ pos = 0 /\ calls = << >> /\ phase' = "read"
        /\ Reads /\ Opens(Current.code) /\ Reading
    BY <1>1, <1>3, <1>5 DEF ReadRoot
  <2> DEFINE call == [fn |-> 1, done |-> 0]
  <2>2. Current.code = object.fns[1].code /\ next = << call >>
    BY <1>3, <2>1 DEF TakesLine
  <2>3. 1 \in DOMAIN object.fns
    BY <1>1 DEF TInv, Fit, IsImage
  <2>4. /\ next \in Seq(CallType) /\ Len(next) = Len(reader) + 1
        /\ next[Len(next)].fn = 1 /\ next[Len(next)].done = 0
    <3>1. Len(reader) = 0 /\ Len(next) = 1 /\ next[1] = call
      BY <2>1, <2>2
    <3>2. call.fn = 1 /\ call.done = 0
      OBVIOUS
    <3> HIDE DEF call
    <3> QED
      BY <1>3, <2>1, <3>1, <3>2
  <2>5. \A i \in 1 .. Len(reader) : FALSE
    BY <2>1
  <2>6. \E to : CopiesOf(to)' /\ ReaderAt(next, to)'
    BY <1>1, <1>2, <1>4, <2>1, <2>2, <2>3, <2>4, <2>5, OpensCopy
  <2>7. reader' # << >>
    <3>1. PICK to : ReaderAt(next, to)'
      BY <2>6
    <3>2. Len(reader') # 0
      BY <2>2, <3>1 DEF ReaderAt
    <3> QED
      BY <3>2
  <2> QED
    BY <1>1, <1>2, <1>4, <1>11, <2>1, <2>6, <2>7, ReaderKeeps
<1>6. CASE ReadInteger \/ ReadString \/ ReadVector
  <2>1. /\ Reading /\ reader # << >> /\ calls # << >> /\ Reads /\ phase' = "read"
        /\ Current.k \in {"integer", "string", "vector"}
        /\ TakesLine(Current, calls, next)
    BY <1>1, <1>3, <1>6 DEF ReadInteger, ReadString, ReadVector
  <2> DEFINE d == ConstantsOf(Top(calls))[Top(calls).done + 1]
  <2>2. /\ next = Counted(calls)
        /\ Top(calls).done < Len(ConstantsOf(Top(calls)))
        /\ \/ d.t = "int" /\ Current.k = "integer" /\ Current.n = d.i
           \/ d.t = "str" /\ Current.k = "string" /\ Current.n = d.i
           \/ d.t = "vec" /\ Current.k = "vector" /\ Current.n = d.n
    BY <2>1 DEF TakesLine
  <2>3. d \in Value /\ Expressible(object, d)
    BY <1>1, <1>3, <2>1, <2>2, NextConstant
  <2>4. Current.n \in Int /\ (Current.k = "string" => Current.n \in DOMAIN Strings)
    BY <1>1, <2>1, CurrentFacts
  <2>5. ASSUME NEW val \in Value, Push(val), SameConstant(val, d, from), val.t # "fn",
               Len(reader') = Len(reader),
               \A i \in 1 .. Len(reader) : reader'[i].fn = reader[i].fn
        PROVE  SInv'
    <3>1. Same(val, d, from)
      BY <2>5 DEF Same
    <3>2. CopiesOf(from)' /\ ReaderAt(Counted(calls), from)'
      BY <1>1, <1>2, <1>3, <1>4, <2>1, <2>2, <2>5, <3>1, PushCopy
    <3>3. reader' # << >>
      <4>1. Len(reader') # 0
        BY <1>1, <2>1, <2>5, ReaderFacts
      <4> QED
        BY <4>1
    <3>4. ReaderAt(next, from)'
      <4>1. next = Counted(calls) /\ next = Counted(calls)'
        BY <2>2 DEF Counted
      <4> QED
        BY ONLY <3>2, <4>1
    <3>5. (\E t : CopiesOf(t) /\ (phase = "read" => ReaderAt(h[pos], t)))'
      BY <1>11, <2>1, <3>2, <3>4
    <3> QED
      BY <1>1, <1>2, <1>4, <2>1, <3>3, <3>5, ReaderKeeps
  <2> HIDE DEF d
  <2>6. CASE ReadInteger
    <3> DEFINE val == IntV(read_integer(Current.n))
    <3>1. d.t = "int" /\ Current.n = d.i /\ d.i \in 0 .. IntMax
      BY <2>2, <2>3, <2>6 DEF ReadInteger, Expressible
    <3>2. val.t = "int" /\ val.i = d.i
      BY <3>1, ReadIntegerExact DEF IntV
    <3>3. val \in Value
      BY <2>4, ReadIntegerType, ReadingValues
    <3>4. Push(val) /\ reader' = reader
      BY <2>6 DEF ReadInteger
    <3> HIDE DEF val
    <3> QED
      BY <2>5, <3>1, <3>2, <3>3, <3>4 DEF SameConstant
  <2>7. CASE ReadString
    <3> DEFINE str == StringRead(Current.n)
               val == StrV(str)
    <3>1. /\ d.t = "str" /\ Current.n = d.i /\ d.i \in DOMAIN Strings
          /\ skip_spaces(Strings[d.i]) = Strings[d.i]
      BY <2>2, <2>3, <2>7 DEF ReadString, Expressible
    <3>2. val.t = "str" /\ val.i = str
      BY DEF StrV
    <3>3. str \in DOMAIN Strings /\ Strings[str] = Strings[d.i]
      BY <3>1, StringReadFacts
    <3>4. val \in Value /\ Len(Strings[str]) \in Int
      BY <3>3, StringNumbers, ReadingValues
    <3>5. Push(val) /\ reader' = [reader EXCEPT ![Len(reader)].word = Len(Strings[str])]
      BY <2>7 DEF ReadString
    <3> HIDE DEF val, str
    <3>6. /\ Len(reader') = Len(reader)
          /\ \A i \in 1 .. Len(reader) : reader'[i].fn = reader[i].fn
      BY <1>1, <2>1, <3>4, <3>5, WordTypes
    <3> QED
      BY <2>5, <3>1, <3>2, <3>3, <3>4, <3>5, <3>6 DEF SameConstant
  <2>8. CASE ReadVector
    <3> DEFINE size == read_integer(Current.n)
               val  == VecV(0, size)
    <3>1. d.t = "vec" /\ Current.n = d.n /\ d.n \in 0 .. IntMax
      BY <2>2, <2>3, <2>8 DEF ReadVector, Expressible
    <3>2. val.t = "vec" /\ val.n = d.n
      BY <3>1, ReadIntegerExact DEF VecV
    <3>3. size \in Int /\ 0 \in Int
      BY <2>4, ReadIntegerType
    <3>4. Push(val) /\ reader' = [reader EXCEPT ![Len(reader)].word = size]
      BY <2>8 DEF ReadVector
    <3> HIDE DEF size
    <3>5. val \in Value
      BY <3>3, ReadingValues
    <3> HIDE DEF val
    <3>6. /\ Len(reader') = Len(reader)
          /\ \A i \in 1 .. Len(reader) : reader'[i].fn = reader[i].fn
      BY <1>1, <2>1, <3>3, <3>4, WordTypes
    <3> QED
      BY <2>5, <3>1, <3>2, <3>4, <3>5, <3>6 DEF SameConstant
  <2> QED
    BY <1>6, <2>6, <2>7, <2>8
<1>7. CASE ReadFunction
  <2>1. /\ Reading /\ reader # << >> /\ calls # << >> /\ Reads /\ phase' = "read"
        /\ Current.k = "function" /\ Opens(Current.code)
        /\ TakesLine(Current, calls, next)
    BY <1>1, <1>3, <1>7 DEF ReadFunction
  <2> DEFINE d    == ConstantsOf(Top(calls))[Top(calls).done + 1]
             call == [fn |-> d.i, done |-> 0]
             n    == Len(reader)
             mid  == Counted(calls)
  <2>2. /\ next = Append(mid, call)
        /\ Top(calls).done < Len(ConstantsOf(Top(calls)))
        /\ d.t = "fn" /\ Current.code = object.fns[d.i].code
    BY <2>1 DEF TakesLine
  <2>3. d.i \in DOMAIN object.fns
    BY <1>1, <1>3, <2>1, <2>2, NextConstant DEF Expressible
  <2>4. /\ mid \in Seq(CallType) /\ Len(mid) = n
        /\ \A i \in 1 .. n : mid[i].fn = calls[i].fn
        /\ \A i \in 1 .. n : i # n => mid[i] = calls[i]
        /\ mid[n].done = calls[n].done + 1
        /\ n \in Nat
        /\ \A i \in 1 .. n : calls[i].done \in Nat
    <3>1. Fit /\ Len(calls) = n
      BY <1>1, <1>3 DEF TInv
    <3>2. Top(calls) = calls[n] /\ n \in Nat /\ \A i \in 1 .. n : calls[i].done \in Nat
      BY <1>3, <2>1, <3>1, CallFacts
    <3> QED
      BY <1>3, <2>1, <3>1, <3>2, CountedFacts
  <2>5. call \in CallType /\ call.fn = d.i /\ call.done = 0
    BY <2>3 DEF CallType
  <2>6. next = Append(mid, call)
    BY <2>2
  <2>7. loaded # << >>
    <3>1. Top(reader).fn \in DOMAIN loaded
      BY <1>1, <2>1, ReaderFacts
    <3> QED
      BY <3>1
  <2>8. Opens(object.fns[d.i].code)
    BY <2>1, <2>2
  <2> HIDE DEF d, call, mid
  <2>9. /\ next \in Seq(CallType) /\ Len(next) = n + 1
        /\ next[n + 1] = call
        /\ \A i \in 1 .. n : next[i] = mid[i]
    BY ONLY <2>4, <2>5, <2>6, AppendProperties
  <2>10. ASSUME NEW i \in 1 .. n
         PROVE  /\ from[reader[i].fn] = next[i].fn
                /\ Len(loaded[reader[i].fn].constants) = next[i].done - 1
    <3>1. /\ from[reader[i].fn] = calls[i].fn
          /\ Len(loaded[reader[i].fn].constants) =
               IF i < n THEN calls[i].done - 1 ELSE calls[i].done
      BY <1>2, <1>3 DEF ReaderAt
    <3>2. CASE i = n
      <4>1. calls[n].done \in Nat /\ ~(n < n)
        BY <2>4, <3>2
      <4>2. next[n].done = calls[n].done + 1 /\ next[n].fn = calls[n].fn
        BY <2>4, <2>9, <3>2
      <4> QED
        BY <3>1, <3>2, <4>1, <4>2
    <3>3. CASE i # n
      <4>1. i < n
        BY <2>4, <3>3
      <4> QED
        BY <2>4, <2>9, <3>1, <3>3, <4>1
    <3> QED
      BY <3>2, <3>3
  <2>11. \A i, j \in 1 .. n : reader[i].fn = reader[j].fn => i = j
    BY <1>2, <1>3 DEF ReaderAt
  <2>12. next[Len(next)].fn = d.i /\ next[Len(next)].done = 0
    BY <2>5, <2>9
  <2>. PICK f : f = d.i
    OBVIOUS
  <2>13. \E to : CopiesOf(to)' /\ ReaderAt(next, to)'
    <3>1. /\ f \in DOMAIN object.fns /\ Opens(object.fns[f].code)
          /\ next[Len(next)].fn = f /\ Len(next) = Len(reader) + 1
          /\ UNCHANGED object /\ pos' = pos + 1
      BY <1>1, <1>4, <2>1, <2>3, <2>8, <2>9, <2>12
    <3> QED
      BY ONLY <1>1, <1>2, <2>7, <2>9, <2>10, <2>11, <2>12, <3>1, OpensCopy
  <2>14. reader' # << >>
    <3>1. PICK to : ReaderAt(next, to)'
      BY <2>13
    <3>2. Len(reader') # 0
      BY <2>4, <2>9, <3>1 DEF ReaderAt
    <3> QED
      BY <3>2
  <2>15. (\E t : CopiesOf(t) /\ (phase = "read" => ReaderAt(h[pos], t)))'
    BY <1>11, <2>1, <2>13
  <2> QED
    BY <1>1, <1>2, <1>4, <2>1, <2>14, <2>15, ReaderKeeps
<1>8. CASE ReadEnd
  <2>1. /\ Reading /\ reader # << >> /\ calls # << >> /\ Reads /\ CallReturns
        /\ Current.k = "end"
        /\ TakesLine(Current, calls, next)
    BY <1>3, <1>8 DEF ReadEnd
  <2>2. /\ next = Rest(calls)
        /\ Top(calls).done = Len(ConstantsOf(Top(calls)))
    BY <2>1 DEF TakesLine
  <2>3. pos # 0
    BY <1>2, <2>1 DEF HistoryOf
  <2>4. /\ CopiesOf(from)' /\ ReaderAt(Rest(calls), from)'
        /\ pos' # 0
        /\ \/ Len(reader) = 1 /\ reader' = << >> /\ phase' = "loaded"
           \/ Len(reader) # 1 /\ reader' # << >> /\ phase' = "read"
    BY <1>1, <1>2, <1>3, <1>4, <2>1, <2>2, <2>3, ReturnCopy
  <2>5. ReaderAt(next, from)'
    BY <2>2, <2>4
  <2>6. (\E t : CopiesOf(t) /\ (phase = "read" => ReaderAt(h[pos], t)))'
    BY <1>11, <2>1, <2>4, <2>5
  <2> QED
    BY <1>1, <1>2, <2>4, <2>6, ReaderKeeps
<1>9. CASE link_panic \/ ReadPastEnd
  <2>1. /\ pos = Len(file) /\ phase' \in {"panic", "wild"}
        /\ UNCHANGED << object, file, torn, writer, reader, loaded, pos >>
    BY <1>9 DEF link_panic, ReadPastEnd
  <2>2. ~Finished
    <3> SUFFICES ASSUME writer = << >>, file # << >>
                 PROVE  FALSE
      BY DEF Finished
    <3>1. Len(calls) = 0
      BY <1>2, <2>1 DEF HistoryOf, WriterAt
    <3>2. reader = << >>
      BY <1>3, <3>1, EmptySeq
    <3>3. Len(file) = 0
      BY <1>3, <2>1, <3>2
    <3>4. file \in Seq(LineType)
      BY <1>1 DEF TInv
    <3> QED
      BY <3>3, <3>4, EmptySeq
  <2>3. HistoryOf(h)'
    BY <1>2, <2>1, CallsKept DEF HistoryOf, WriterAt
  <2>4. CopiesOf(from)'
    BY <1>2, <2>1 DEF CopiesOf, Begun
  <2>5. Walking' <=> Walking
    BY <2>1 DEF Walking, WIP, Writing, Top
  <2>6. WriterPhases' /\ ReaderPhases'
    BY <2>1, <2>2, <2>5 DEF SInv, WriterPhases, ReaderPhases, Finished
  <2> QED
    BY <1>1, <2>1, <2>3, <2>4, <2>6 DEF SInv
<1>10. CASE ReadTornEnd
  <2>1. /\ pos = Len(file) /\ torn = "end" /\ Len(reader) = 1 /\ CallReturns
        /\ UNCHANGED pos
    BY <1>10 DEF ReadTornEnd
  <2>2. reader # << >> /\ calls # << >>
    <3>1. Len(<< >>) = 0
      OBVIOUS
    <3> QED
      BY <1>3, <2>1, <3>1
  <2>3. pos # 0
    BY <1>2, <2>2 DEF HistoryOf
  <2>4. Top(calls).done = Len(ConstantsOf(Top(calls)))
    <3>1. writer # << >> /\ ~Walking
      BY <2>1 DEF SInv, WriterPhases
    <3>2. WriterAt(calls)
      BY <1>2, <2>1 DEF HistoryOf
    <3> QED
      BY <1>1, <1>3, <3>1, <3>2, WriterTop, EndOfWalk
  <2>5. CopiesOf(from)' /\ pos' # 0 /\ reader' = << >> /\ phase' = "loaded"
    BY <1>1, <1>2, <1>3, <2>1, <2>2, <2>3, <2>4, ReturnCopy
  <2> QED
    BY <1>1, <1>2, <2>5, ReaderKeeps
<1> QED
  BY <1>5, <1>6, <1>7, <1>8, <1>9, <1>10 DEF ReaderStep

LEMMA NextSInv == SInv /\ [SerialNext]_serialVars => SInv'
<1>1. ASSUME SInv, UNCHANGED serialVars
      PROVE  SInv'
  <2>1. UNCHANGED << object, file, torn, writer, reader, loaded, pos, phase >>
    BY <1>1 DEF serialVars
  <2>2. TInv'
    BY <1>1, NextTInv DEF SInv
  <2>3. Walking' <=> Walking
    BY <2>1 DEF Walking, WIP, Writing, Top
  <2>4. WriterPhases' /\ ReaderPhases'
    BY <1>1, <2>1, <2>3 DEF SInv, WriterPhases, ReaderPhases, Finished
  <2>5. PICK h, from : /\ HistoryOf(h) /\ CopiesOf(from)
                       /\ phase = "read" => ReaderAt(h[pos], from)
    BY <1>1 DEF SInv
  <2>6. HistoryOf(h)'
    BY <2>1, <2>5, CallsKept DEF HistoryOf, WriterAt
  <2>7. CopiesOf(from)'
    BY <2>1, <2>5 DEF CopiesOf, Begun
  <2>8. phase' = "read" => ReaderAt(h[pos], from)'
    BY <2>1, <2>5 DEF ReaderAt
  <2> QED
    BY <2>2, <2>4, <2>6, <2>7, <2>8 DEF SInv
<1> QED
  BY <1>1, WriterStepInv, CrashInv, ReaderStepInv DEF SerialNext

(* What is loaded is the program that was written, wherever the file was    *)
(* cut off: the lists of constants have no lengths and their members no     *)
(* addresses, yet each constant gets the address it had                     *)
(* (serialize_bytecode, deserialize_bytecode, execute).                     *)
THEOREM SerialLoadedAsCompiled ==
  SerialSpec /\ Serializable(object) => []LoadedAsCompiled
<1>1. SInv => LoadedAsCompiled
  <2> SUFFICES ASSUME SInv, phase = "loaded"
               PROVE  \E from \in [DOMAIN loaded -> DOMAIN object.fns] :
                        /\ from[1] = 1
                        /\ \A f \in DOMAIN loaded :
                             SameObject(loaded[f], object.fns[from[f]], from)
    BY DEF LoadedAsCompiled
  <2>1. reader = << >> /\ pos # 0
    BY DEF SInv, ReaderPhases
  <2>2. PICK from : CopiesOf(from)
    BY DEF SInv
  <2>3. /\ from \in Seq(DOMAIN object.fns)
        /\ DOMAIN from = DOMAIN loaded /\ DOMAIN loaded = 1 .. Len(loaded)
        /\ \A f \in 1 .. Len(loaded) :
             /\ from[f] \in DOMAIN object.fns
             /\ loaded[f].constants \in Seq(Value)
             /\ object.fns[from[f]].constants \in Seq(Value)
             /\ Begun(loaded[f], object.fns[from[f]], from)
    BY <2>2, CopyFacts DEF SInv
  <2>4. from[1] = 1
    BY <2>1, <2>2 DEF CopiesOf
  <2>5. from \in [DOMAIN loaded -> DOMAIN object.fns]
    BY <2>3
  <2>6. ASSUME NEW f \in DOMAIN loaded
        PROVE  SameObject(loaded[f], object.fns[from[f]], from)
    <3>1. Len(loaded[f].constants) = Len(object.fns[from[f]].constants)
      <4>1. \A i \in 1 .. Len(reader) : reader[i].fn # f
        BY <2>1
      <4> QED
        BY <2>2, <2>3, <4>1 DEF CopiesOf
    <3>2. Begun(loaded[f], object.fns[from[f]], from) /\ loaded[f].constants \in Seq(Value)
      BY <2>3
    <3> QED
      BY <3>1, <3>2 DEF SameObject, Begun, Same
  <2> QED
    BY <2>4, <2>5, <2>6
<1> QED
  BY <1>1, InitSInv, NextSInv, PTL DEF SerialSpec

(* Of a file that the writer has finished nothing is refused.               *)
THEOREM SerialWholeFileAccepted ==
  SerialSpec /\ Serializable(object) => []WholeFileAccepted
<1>1. SInv => WholeFileAccepted
  BY DEF SInv, WriterPhases, TInv, SerialTypeOK, Phases, WholeFileAccepted
<1> QED
  BY <1>1, InitSInv, NextSInv, PTL DEF SerialSpec
=============================================================================
