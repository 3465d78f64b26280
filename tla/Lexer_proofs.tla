---------------------------- MODULE Lexer_proofs ----------------------------
(***************************************************************************)
(* Theorems about next_token (lexer.c), for every text and every set of    *)
(* letters, digits and spaces.  The provers take a string for an atom, so  *)
(* that a text is a sequence of characters, and which characters the       *)
(* operators have, are hypotheses: CharacterClasses and TextsAreSequences, *)
(* which module Frontend assumes of the texts it lexes.                    *)
(***************************************************************************)
EXTENDS Lexer, Induction, FiniteSetTheorems

-----------------------------------------------------------------------------
(***************************************************************************)
(* The first of some places from a place on, and the last before it.       *)
(***************************************************************************)
LEMMA FirstFromIs ==
  ASSUME NEW places \in SUBSET Nat, NEW p \in Nat, NEW e \in places, p <= e
  PROVE  /\ FirstFrom(p, places) \in places
         /\ p <= FirstFrom(p, places) /\ FirstFrom(p, places) <= e
         /\ \A r \in places : p <= r => FirstFrom(p, places) <= r
<1> DEFINE T == {q \in places : p <= q}
<1>1. T \in SUBSET Nat /\ T # {}
  OBVIOUS
<1>2. PICK q \in T : \A r \in T : q <= r
  BY <1>1, LeastNumber
<1>3. q \in places /\ p <= q /\ \A r \in places : r < p \/ q <= r
  BY <1>2
<1> DEFINE first == FirstFrom(p, places)
<1>4. first \in places /\ p <= first /\ \A r \in places : r < p \/ first <= r
  BY <1>3 DEF FirstFrom
<1> HIDE DEF first
<1> QED BY <1>4 DEF first

LEMMA LastIs ==
  ASSUME NEW m \in Nat, NEW T \in SUBSET (0 .. m), NEW b \in T
  PROVE  LET last == CHOOSE q \in T : \A r \in T : r <= q
         IN  last \in T /\ \A r \in T : r <= last
<1> DEFINE U == {m - q : q \in T}
<1>1. U \in SUBSET Nat /\ U # {}
  OBVIOUS
<1>2. PICK u \in U : \A r \in U : u <= r
  BY <1>1, LeastNumber
<1>3. PICK q \in T : u = m - q
  OBVIOUS
<1>4. \A r \in T : r <= q
  <2> SUFFICES ASSUME NEW r \in T PROVE r <= q
    OBVIOUS
  <2>1. m - r \in U
    OBVIOUS
  <2>2. m - q <= m - r
    BY <1>2, <1>3, <2>1
  <2> QED BY <2>2
<1> QED BY <1>4

-----------------------------------------------------------------------------
(***************************************************************************)
(* The text.                                                               *)
(***************************************************************************)
Known == CharacterClasses /\ TextsAreSequences

(* Only the end is no character.                                            *)
LEMMA TextFacts ==
  ASSUME TextsAreSequences, program \in Texts
  PROVE  /\ Len(program) \in Nat
         /\ CharAt(Len(program)) = End
         /\ \A p \in 0 .. Len(program) : CharAt(p) # End => p < Len(program)
<1>1. Len(program) \in Nat
  BY DEF TextsAreSequences
<1>2. CharAt(Len(program)) = End
  BY <1>1 DEF CharAt
<1>3. ASSUME NEW p \in 0 .. Len(program), CharAt(p) # End PROVE p < Len(program)
  BY <1>1, <1>3 DEF CharAt
<1> QED BY <1>1, <1>2, <1>3

(* Where the scan of a token ends: behind p if p does not end it, and inside*)
(* of the text.                                                             *)
LEMMA ScanEnds ==
  ASSUME TextsAreSequences, program \in Texts, NEW p \in 0 .. Len(program),
         NEW places \in SUBSET (0 .. Len(program)), Len(program) \in places
  PROVE  LET close == FirstFrom(p, places)
         IN  /\ close \in places /\ close \in p .. Len(program)
             /\ p \notin places => p < close
             /\ \A q \in p .. (close - 1) : q \notin places
<1>1. Len(program) \in Nat /\ p \in Nat /\ p <= Len(program)
  BY TextFacts
<1>2. places \in SUBSET Nat
  BY <1>1
<1> DEFINE close == FirstFrom(p, places)
<1>3. /\ close \in places /\ p <= close /\ close <= Len(program)
      /\ \A r \in places : p <= r => close <= r
  BY ONLY <1>1, <1>2, Len(program) \in places, FirstFromIs
<1> HIDE DEF close
<1>4. \A q \in p .. (close - 1) : q \notin places
  BY <1>1, <1>2, <1>3
<1>5. close \in Nat
  BY <1>2, <1>3
<1>6. close \in p .. Len(program)
  BY <1>1, <1>3, <1>5
<1>7. p \notin places => p < close
  BY <1>1, <1>3, <1>5
<1> QED BY <1>3, <1>4, <1>6, <1>7 DEF close

-----------------------------------------------------------------------------
(***************************************************************************)
(* A turn of next_token reads space or a comment, or it returns a token    *)
(* that begins where the turn does and ends where the next one begins.     *)
(***************************************************************************)
TokenTypes ==
  Keywords \cup {Operators[k] : k \in DOMAIN Operators}
    \cup {"id", "integerlit", "stringlit", "eof", "unterminated string",
          "unexpected character"}

(* The type of a token that is no string.                                    *)
PlainTypes == TokenTypes \ {"stringlit", "unterminated string"}

TokenType == [type : TokenTypes, start : Nat, length : Nat, line : Nat, linepos : Nat]

Reading == /\ program \in Texts /\ current \in 0 .. Len(program)
           /\ line \in Nat /\ linepos \in Nat

(* The ends of lines from one position up to another.                       *)
Passed(from, to) == {p \in LineEnds : from <= p /\ p < to}

(* LongestTokens of one token.                                              *)
Longest(t) ==
  LET n    == t.length
      text == TextAt(t.start, n)
  IN  CASE IsString(t) \/ t.type = "eof"    -> TRUE
        [] t.type = "unexpected character" -> ~IsOperator(text)
        [] OTHER ->
             /\ t.start + n < Len(program) =>
                  ~ \/ IsWordAt(t.start, n + 1) \/ IsNumberAt(t.start, n + 1)
                    \/ IsOperator(TextAt(t.start, n + 1))
             /\ t.type = IF text \in Keywords \/ IsOperator(text) THEN text
                         ELSE IF IsNumberAt(t.start, n) THEN "integerlit" ELSE "id"

ReadOn == /\ program' = program /\ current' \in current .. Len(program)
          /\ line' = line + Cardinality(Passed(current, current'))

TokenRead ==
  /\ ReadOn
  /\ \E t \in TokenType : /\ tokens' = Append(tokens, t)
                          /\ First(t) = current /\ Behind(t) = current'
                          /\ t.line = line /\ t.linepos = linepos
                          /\ Longest(t)
                          /\ \/ t.type = "eof" /\ current' = current
                             \/ CharAt(current) # End

InComment(from, p) ==
  \E h \in from .. p : CharAt(h) = "#" /\ \A q \in h .. p : CharAt(q) # Newline

BlankRead ==
  /\ ReadOn
  /\ tokens' = tokens /\ CharAt(current) # End
  /\ \A p \in current .. (current' - 1) : CharAt(p) \in Spaces \/ InComment(current, p)

(* No line ends, and columns are counted as positions are.                  *)
Straight == /\ linepos' = linepos + (current' - current)
            /\ Passed(current, current') = {} /\ line' = line

LEMMA ReadingFacts ==
  ASSUME Known, Reading
  PROVE  /\ program \in Texts /\ Len(program) \in Nat
         /\ current \in Nat /\ current <= Len(program) /\ current \in current .. Len(program)
         /\ line \in Nat /\ linepos \in Nat
BY TextFacts DEF Known, Reading

LEMMA NothingPassed ==
  ASSUME NEW from \in Nat, NEW to \in Nat,
         \A p \in from .. (to - 1) : CharAt(p) # Newline
  PROVE  Passed(from, to) = {} /\ Cardinality(Passed(from, to)) = 0
<1>1. Passed(from, to) = {}
  BY DEF Passed, LineEnds
<1> QED BY <1>1, FS_EmptySet

(* Characters without a newline among them are read.                        *)
LEMMA Advances ==
  ASSUME Known, Reading, NEW length \in Nat, current + length <= Len(program),
         Advance(length), \A p \in current .. (current + length - 1) : CharAt(p) # Newline
  PROVE  ReadOn /\ Straight /\ current' = current + length /\ linepos' = linepos + length
<1>1. Len(program) \in Nat /\ current \in Nat /\ line \in Nat
  BY ReadingFacts
<1>2. /\ current' = current + length /\ program' = program /\ line' = line
      /\ linepos' = linepos + length
  BY DEF Advance
<1>3. Passed(current, current') = {} /\ Cardinality(Passed(current, current')) = 0
  BY <1>1, <1>2, NothingPassed
<1>4. ReadOn
  BY <1>1, <1>2, <1>3 DEF ReadOn
<1>5. current' - current = length
  BY <1>1, <1>2
<1> QED BY <1>2, <1>3, <1>4, <1>5 DEF Straight

(* A token of them is returned.                                             *)
LEMMA Returns ==
  ASSUME Known, Reading, NEW length \in Nat, current + length <= Len(program),
         Advance(length), \A p \in current .. (current + length - 1) : CharAt(p) # Newline,
         NEW type \in PlainTypes,
         Return(NewToken(type, current, length)), Longest(NewToken(type, current, length)),
         CharAt(current) # End
  PROVE  TokenRead /\ Straight
<1> DEFINE t == NewToken(type, current, length)
<1>1. ReadOn /\ Straight /\ current' = current + length
  BY Advances
<1>2. current \in Nat /\ line \in Nat /\ linepos \in Nat /\ length \in Nat
  BY ReadingFacts
<1>3. t \in TokenType
  BY <1>2 DEF NewToken, TokenType, PlainTypes
<1>4. First(t) = current /\ Behind(t) = current + length + 0
  BY DEF First, Behind, IsString, NewToken, PlainTypes
<1>5. Behind(t) = current'
  <2>1. current + length + 0 = current + length
    BY <1>2
  <2> QED BY <1>1, <1>4, <2>1
<1>6. tokens' = Append(tokens, t) /\ t.line = line /\ t.linepos = linepos
  BY DEF Return, NewToken
<1> QED BY <1>1, <1>3, <1>4, <1>5, <1>6 DEF TokenRead

LEMMA EofRead == ASSUME Known, Reading, set_eof_token PROVE TokenRead /\ Straight
<1> DEFINE t == NewToken("eof", current, 0)
<1>1. current \in Nat /\ line \in Nat /\ linepos \in Nat /\ current \in current .. Len(program)
  BY ReadingFacts
<1>2. UNCHANGED << program, current, line, linepos >> /\ tokens' = Append(tokens, t)
  BY DEF set_eof_token, Return
<1>3. Passed(current, current) = {} /\ Cardinality(Passed(current, current)) = 0
  BY <1>1, NothingPassed
<1>4. ReadOn
  BY <1>1, <1>2, <1>3 DEF ReadOn
<1>5. t \in TokenType
  BY <1>1 DEF NewToken, TokenType, TokenTypes
<1>6. First(t) = current /\ Behind(t) = current + 0 + 0 /\ t.line = line /\ t.linepos = linepos
  BY DEF First, Behind, IsString, NewToken
<1>7. Behind(t) = current'
  BY <1>1, <1>2, <1>6
<1>8. Straight
  BY <1>1, <1>2, <1>3 DEF Straight
<1>9. t.type = "eof" /\ Longest(t)
  BY DEF NewToken, Longest
<1> QED BY <1>2, <1>4, <1>5, <1>6, <1>7, <1>8, <1>9 DEF TokenRead

(* Where a comment ends.                                                    *)
LEMMA CommentRead ==
  ASSUME Known, Reading, skip_comment
  PROVE  BlankRead /\ Straight
<1> DEFINE places == PlacesOf({Newline, End})
           close  == FirstFrom(current, places)
           n      == close - current
<1>1. Len(program) \in Nat /\ current \in Nat /\ linepos \in Nat /\ program \in Texts
  BY ReadingFacts
<1>2. places \in SUBSET (0 .. Len(program)) /\ Len(program) \in places
  BY <1>1, TextFacts DEF Known, PlacesOf
<1>3. close \in current .. Len(program) /\ \A q \in current .. (close - 1) : q \notin places
  BY <1>2, ScanEnds DEF Known, Reading
<1> HIDE DEF close
<1>4. \A q \in current .. (close - 1) : q \in 0 .. Len(program) /\ CharAt(q) # Newline
  BY <1>1, <1>3 DEF PlacesOf
<1>5. Advance(n) /\ tokens' = tokens /\ CharAt(current) = "#"
  BY DEF skip_comment, close, Here
<1>6. /\ n \in Nat /\ current + n = close
      /\ current + n <= Len(program)
  BY <1>1, <1>3
<1> HIDE DEF n
<1>9. \A q \in current .. (current + n - 1) : CharAt(q) # Newline
  <2>1. current + n - 1 = close - 1
    BY <1>1, <1>6
  <2> QED BY ONLY <1>4, <2>1
<1>7. ReadOn /\ Straight /\ current' = close
  BY <1>5, <1>6, <1>9, Advances
<1>8. ASSUME NEW p \in current .. (close - 1) PROVE InComment(current, p)
  <2>1. current \in current .. p /\ \A q \in current .. p : CharAt(q) # Newline
    BY <1>1, <1>3, <1>4
  <2> QED BY <1>5, <2>1 DEF InComment
<1>10. CharAt(current) # End
  BY <1>5 DEF End
<1>11. \A p \in current .. (current' - 1) : CharAt(p) \in Spaces \/ InComment(current, p)
  BY ONLY <1>7, <1>8
<1> QED BY <1>5, <1>7, <1>10, <1>11 DEF BlankRead

(* What an operator is no token of.                                          *)
OtherTypes == {"stringlit", "unterminated string", "eof", "unexpected character"}

LEMMA OperatorTable ==
  /\ DOMAIN Operators \subseteq Nat \ {0}
  /\ \A k \in DOMAIN Operators : Operators[k] \in PlainTypes /\ Operators[k] \notin OtherTypes
<1> DEFINE spelt == {"==", "=", "!=", "!", ":", ",", ">=", ">", "<=", "<", "(", "[",
                     "-", "+", ")", "]", ";", "/", "*", "."}
<1>1. DOMAIN Operators = 1 .. 20
  BY DEF Operators
<1>2. ASSUME NEW k \in 1 .. 20 PROVE Operators[k] \in spelt
  <2>1. /\ Operators[1] \in spelt /\ Operators[2] \in spelt /\ Operators[3] \in spelt
        /\ Operators[4] \in spelt /\ Operators[5] \in spelt /\ Operators[6] \in spelt
        /\ Operators[7] \in spelt /\ Operators[8] \in spelt /\ Operators[9] \in spelt
        /\ Operators[10] \in spelt /\ Operators[11] \in spelt /\ Operators[12] \in spelt
        /\ Operators[13] \in spelt /\ Operators[14] \in spelt /\ Operators[15] \in spelt
        /\ Operators[16] \in spelt /\ Operators[17] \in spelt /\ Operators[18] \in spelt
        /\ Operators[19] \in spelt /\ Operators[20] \in spelt
    BY DEF Operators
  <2>2. \/ k = 1 \/ k = 2 \/ k = 3 \/ k = 4 \/ k = 5 \/ k = 6 \/ k = 7
        \/ k = 8 \/ k = 9 \/ k = 10 \/ k = 11 \/ k = 12 \/ k = 13 \/ k = 14
        \/ k = 15 \/ k = 16 \/ k = 17 \/ k = 18 \/ k = 19 \/ k = 20
    OBVIOUS
  <2> HIDE DEF spelt
  <2> QED BY <2>1, <2>2, Zenon
<1>3. OtherTypes \cap spelt = {}
  BY DEF OtherTypes
<1> HIDE DEF spelt
<1>4. ASSUME NEW k \in DOMAIN Operators
      PROVE  Operators[k] \in PlainTypes /\ Operators[k] \notin OtherTypes
  <2>1. Operators[k] \in TokenTypes
    BY DEF TokenTypes
  <2>2. Operators[k] \in spelt
    BY <1>1, <1>2
  <2>3. Operators[k] \notin OtherTypes
    BY <1>3, <2>2
  <2> QED BY <2>1, <2>3 DEF PlainTypes, OtherTypes
<1>5. DOMAIN Operators \subseteq Nat \ {0}
  BY <1>1
<1> QED BY <1>4, <1>5

(* The first operator that fits is not a newline, nor the second character  *)
(* of one.                                                                  *)
LEMMA FittingFacts ==
  ASSUME Known, Reading, NEW k \in Fitting
  PROVE  /\ k \in DOMAIN Operators /\ Len(Operators[k]) \in {1, 2}
         /\ current + Len(Operators[k]) <= Len(program)
         /\ \A j \in 1 .. Len(Operators[k]) :
              CharAt(current + j - 1) = SubSeq(Operators[k], j, j)
<1> DEFINE n == Len(Operators[k])
<1>1. /\ k \in DOMAIN Operators /\ n \in {1, 2} /\ current + n <= Len(program)
      /\ TextAt(current, n) = Operators[k]
  BY DEF Fitting, Known, CharacterClasses
<1>2. Len(program) \in Nat /\ current \in Nat /\ program \in Texts
  BY ReadingFacts
<1> DEFINE part == SubSeq(program, current + 1, current + n)
<1>3. part = Operators[k]
  BY <1>1 DEF TextAt
<1>4. /\ current + 1 \in 1 .. (Len(program) + 1) /\ current + n \in 0 .. Len(program)
      /\ current + 1 <= current + n + 1
  BY <1>1, <1>2
<1>5. \A j \in 1 .. 2 : j <= Len(part) =>
        SubSeq(part, j, j) = SubSeq(program, current + 1 + j - 1, current + 1 + j - 1)
  BY <1>2, <1>4 DEF Known, TextsAreSequences
<1>6. n = Len(part)
  BY <1>3
<1> HIDE DEF n, part
<1>7. ASSUME NEW j \in 1 .. n PROVE CharAt(current + j - 1) = SubSeq(Operators[k], j, j)
  <2>1. j \in 1 .. 2 /\ j <= Len(part) /\ current + j - 1 < Len(program)
    <3>1. n \in {1, 2} /\ current + n <= Len(program) /\ current \in Nat /\ Len(program) \in Nat
      BY <1>1, <1>2
    <3>2. j \in 1 .. 2 /\ j <= n /\ current + j - 1 < Len(program)
      BY ONLY <3>1, j \in 1 .. n
    <3> QED BY <1>6, <3>2
  <2>2. current + 1 + j - 1 = current + j /\ current + j - 1 + 1 = current + j
    BY <1>2
  <2>3. SubSeq(part, j, j) = SubSeq(program, current + j, current + j)
    BY <1>5, <2>1, <2>2 DEF part
  <2>4. CharAt(current + j - 1) = SubSeq(program, current + j, current + j)
    BY <2>1, <2>2 DEF CharAt
  <2> QED BY <1>3, <2>3, <2>4
<1> QED BY <1>1, <1>7 DEF n

-----------------------------------------------------------------------------
(***************************************************************************)
(* How far a token goes: LongestTokens, token by token.                    *)
(***************************************************************************)
LEMMA PartOfText ==
  ASSUME Known, Reading, NEW n \in Nat \ {0}, current + n <= Len(program)
  PROVE  /\ Len(TextAt(current, n)) = n
         /\ SubSeq(TextAt(current, n), 1, 1) = CharAt(current)
         /\ CharAt(current) = TextAt(current, 1)
         /\ n > 1 => SubSeq(TextAt(current, n), 2, 2) = CharAt(current + 1)
<1>1. Len(program) \in Nat /\ current \in Nat /\ program \in Texts
  BY ReadingFacts
<1> DEFINE part == SubSeq(program, current + 1, current + n)
<1>2. /\ current + 1 \in 1 .. (Len(program) + 1) /\ current + n \in 0 .. Len(program)
      /\ current + 1 <= current + n + 1
  BY <1>1
<1>3. /\ Len(part) = current + n + 1 - (current + 1)
      /\ \A k \in 1 .. 2 : k <= Len(part) =>
           SubSeq(part, k, k) = SubSeq(program, current + 1 + k - 1, current + 1 + k - 1)
  BY <1>1, <1>2 DEF Known, TextsAreSequences
<1>4. part = TextAt(current, n)
  BY DEF TextAt
<1> HIDE DEF part
<1>5. current + n + 1 - (current + 1) = n /\ current + 1 + 1 - 1 = current + 1
      /\ current + 1 + 2 - 1 = current + 1 + 1
  BY <1>1
<1>6. Len(part) = n
  BY <1>3, <1>5
<1>7. SubSeq(part, 1, 1) = SubSeq(program, current + 1, current + 1)
  <2>1. 1 \in 1 .. 2 /\ 1 <= Len(part)
    BY <1>6
  <2> QED BY <1>3, <1>5, <2>1
<1>8. n > 1 => SubSeq(part, 2, 2) = SubSeq(program, current + 1 + 1, current + 1 + 1)
  <2> SUFFICES ASSUME n > 1
               PROVE  SubSeq(part, 2, 2) = SubSeq(program, current + 1 + 1, current + 1 + 1)
    OBVIOUS
  <2>1. 2 \in 1 .. 2 /\ 2 <= Len(part)
    BY <1>6
  <2> QED BY <1>3, <1>5, <2>1
<1>9. /\ CharAt(current) = SubSeq(program, current + 1, current + 1)
      /\ n > 1 => CharAt(current + 1) = SubSeq(program, current + 1 + 1, current + 1 + 1)
  BY <1>1 DEF CharAt
<1> QED BY <1>4, <1>6, <1>7, <1>8, <1>9 DEF TextAt

(* What is spelt as an operator has a length of one or two and begins with   *)
(* no letter, digit or underscore.                                          *)
LEMMA OperatorAt ==
  ASSUME Known, Reading, NEW n \in Nat \ {0}, current + n <= Len(program),
         NEW k \in DOMAIN Operators, Operators[k] = TextAt(current, n)
  PROVE  n \in {1, 2} /\ k \in Fitting /\ CharAt(current) \notin IdChars
<1>1. Len(Operators[k]) = n /\ CharAt(current) = SubSeq(Operators[k], 1, 1)
  BY PartOfText
<1>2. n \in {1, 2} /\ \A j \in 1 .. n : SubSeq(Operators[k], j, j) \notin IdChars
  BY <1>1 DEF Known, CharacterClasses
<1>3. k \in Fitting
  BY <1>1 DEF Fitting
<1>4. SubSeq(Operators[k], 1, 1) \notin IdChars
  BY <1>2
<1> QED BY <1>1, <1>2, <1>3, <1>4

LEMMA NumberLongest ==
  ASSUME Known, Reading, NEW n \in Nat \ {0}, current + n <= Len(program),
         \A q \in current .. (current + n - 1) : CharAt(q) \in Digits,
         CharAt(current + n) \notin Digits
  PROVE  Longest(NewToken("integerlit", current, n))
<1>1. Len(program) \in Nat /\ current \in Nat
  BY ReadingFacts
<1> DEFINE text   == TextAt(current, n)
           longer == TextAt(current, n + 1)
<1>2. current \in current .. (current + n - 1)
  BY <1>1
<1>3. CharAt(current) \in Digits /\ CharAt(current) \notin Letters /\ CharAt(current) \in IdChars
  BY <1>2 DEF Known, CharacterClasses, IdChars
<1>4. ~ IsOperator(text) /\ text \notin Keywords
  <2>1. ~ IsOperator(text)
    BY <1>3, OperatorAt DEF IsOperator
  <2>2. SubSeq(text, 1, 1) = CharAt(current)
    BY PartOfText
  <2>3. text \notin Keywords
    BY <1>3, <2>2 DEF Known, CharacterClasses
  <2> QED BY <2>1, <2>3
<1>5. IsNumberAt(current, n)
  BY DEF IsNumberAt
<1>6. ASSUME current + n < Len(program)
      PROVE  ~ IsWordAt(current, n + 1) /\ ~ IsNumberAt(current, n + 1) /\ ~ IsOperator(longer)
  <2>1. ~ IsWordAt(current, n + 1)
    BY <1>3 DEF IsWordAt
  <2>2. ~ IsNumberAt(current, n + 1)
    <3>1. current + n \in current .. (current + (n + 1) - 1)
      BY <1>1
    <3> QED BY <3>1 DEF IsNumberAt
  <2>3. n + 1 \in Nat \ {0} /\ current + (n + 1) <= Len(program)
    BY <1>1, <1>6
  <2>4. ~ IsOperator(longer)
    BY <1>3, <2>3, OperatorAt DEF IsOperator
  <2> QED BY <2>1, <2>2, <2>4
<1> HIDE DEF text, longer
<1> QED BY <1>4, <1>5, <1>6 DEF Longest, NewToken, IsString, text, longer

LEMMA WordLongest ==
  ASSUME Known, Reading, NEW n \in Nat \ {0}, current + n <= Len(program),
         CharAt(current) \in Letters, CharAt(current + n) \notin IdChars,
         NEW type, type = IF TextAt(current, n) \in Keywords THEN TextAt(current, n) ELSE "id"
  PROVE  Longest(NewToken(type, current, n))
<1>1. Len(program) \in Nat /\ current \in Nat
  BY ReadingFacts
<1> DEFINE text   == TextAt(current, n)
           longer == TextAt(current, n + 1)
<1>3. CharAt(current) \notin Digits /\ CharAt(current) \in IdChars
  BY DEF Known, CharacterClasses, IdChars
<1>4. ~ IsOperator(text)
  BY <1>3, OperatorAt DEF IsOperator
<1>5. ~ IsNumberAt(current, n)
  <2>1. current \in current .. (current + n - 1)
    BY <1>1
  <2> QED BY <1>3, <2>1 DEF IsNumberAt
<1>6. ASSUME current + n < Len(program)
      PROVE  ~ IsWordAt(current, n + 1) /\ ~ IsNumberAt(current, n + 1) /\ ~ IsOperator(longer)
  <2>1. ~ IsWordAt(current, n + 1)
    <3>1. current + n \in current + 1 .. (current + (n + 1) - 1)
      BY <1>1
    <3> QED BY <3>1 DEF IsWordAt
  <2>2. ~ IsNumberAt(current, n + 1)
    <3>1. current \in current .. (current + (n + 1) - 1)
      BY <1>1
    <3> QED BY <1>3, <3>1 DEF IsNumberAt
  <2>3. n + 1 \in Nat \ {0} /\ current + (n + 1) <= Len(program)
    BY <1>1, <1>6
  <2>4. ~ IsOperator(longer)
    BY <1>3, <2>3, OperatorAt DEF IsOperator
  <2> QED BY <2>1, <2>2, <2>4
<1>7. /\ type \notin {"stringlit", "unterminated string", "eof", "unexpected character"}
      /\ type = IF text \in Keywords THEN text ELSE "id"
  BY DEF Keywords
<1> HIDE DEF text, longer
<1> QED BY <1>4, <1>5, <1>6, <1>7 DEF Longest, NewToken, IsString, text, longer

(* The table lists an operator behind those that go further.                *)
LEMMA OperatorLongest ==
  ASSUME Known, Reading, NEW first \in Fitting, \A m \in Fitting : first <= m
  PROVE  Longest(NewToken(Operators[first], current, Len(Operators[first])))
<1>1. Len(program) \in Nat /\ current \in Nat
  BY ReadingFacts
<1> DEFINE name   == Operators[first]
           n      == Len(name)
           text   == TextAt(current, n)
           longer == TextAt(current, n + 1)
<1>2. /\ first \in DOMAIN Operators /\ n \in {1, 2} /\ current + n <= Len(program)
      /\ text = name /\ first \in Nat /\ first >= 1
  BY FittingFacts, OperatorTable DEF Fitting
<1>3. n \in Nat \ {0} /\ CharAt(current) \notin IdChars /\ IsOperator(text)
  <2>1. n \in Nat \ {0}
    BY ONLY <1>2
  <2>2. IsOperator(text)
    BY ONLY <1>2 DEF IsOperator
  <2>3. CharAt(current) \notin IdChars
    BY <1>2, OperatorAt
  <2> QED
    BY ONLY <2>1, <2>2, <2>3
<1>4. ASSUME current + n < Len(program)
      PROVE  ~ IsWordAt(current, n + 1) /\ ~ IsNumberAt(current, n + 1) /\ ~ IsOperator(longer)
  <2>1. ~ IsWordAt(current, n + 1)
    BY <1>3 DEF IsWordAt, IdChars
  <2>2. ~ IsNumberAt(current, n + 1)
    <3>1. current \in current .. (current + (n + 1) - 1)
      BY <1>1, <1>3
    <3> QED BY <1>3, <3>1 DEF IsNumberAt, IdChars
  <2>3. n + 1 \in Nat \ {0} /\ current + (n + 1) <= Len(program) /\ n + 1 > 1
    BY <1>1, <1>3, <1>4
  <2>4. ASSUME NEW m \in DOMAIN Operators, Operators[m] = longer PROVE FALSE
    <3>1. n + 1 \in {1, 2} /\ m \in Fitting /\ Len(longer) = n + 1
      BY <2>3, <2>4, OperatorAt, PartOfText
    <3>2. n = 1 /\ n + 1 # n
      <4>1. \A i \in {1, 2} : i + 1 \in {1, 2} => i = 1 /\ i + 1 # i
        OBVIOUS
      <4> QED BY ONLY <1>2, <3>1, <4>1
    <3>3. m \in Nat /\ first <= m /\ m # first
      <4>1. Len(Operators[m]) = n + 1
        BY <2>4, <3>1
      <4>2. m # first
        BY ONLY <3>2, <4>1
      <4>3. m \in Nat /\ first <= m
        BY <3>1, OperatorTable
      <4> QED BY <4>2, <4>3
    <3>4. first \in 1 .. (m - 1)
      BY ONLY <1>2, <3>3
    <3>5. SubSeq(Operators[m], 1, n) # name
      <4>1. Len(name) <= Len(Operators[m])
        BY <1>2, <2>4, <3>1
      <4> QED BY <3>4, <4>1 DEF Known, CharacterClasses
    <3>6. SubSeq(longer, 1, 1) = CharAt(current) /\ CharAt(current) = TextAt(current, 1)
      BY <2>3, PartOfText
    <3> QED BY <1>2, <2>4, <3>2, <3>5, <3>6
  <2>5. ~ IsOperator(longer)
    BY <2>4 DEF IsOperator
  <2> QED BY <2>1, <2>2, <2>5
<1>5. name \notin OtherTypes
  BY <1>2, OperatorTable
<1> HIDE DEF text, longer, name, n
<1>7. Longest(NewToken(name, current, n))
  BY <1>2, <1>3, <1>4, <1>5 DEF Longest, NewToken, IsString, OtherTypes, text, longer
<1> QED BY <1>7 DEF name, n

LEMMA NumberRead == ASSUME Known, Reading, set_integerlit_token PROVE TokenRead /\ Straight
<1> DEFINE places == PlacesNot(Digits)
           close  == FirstFrom(current, places)
           n      == close - current
<1>1. Len(program) \in Nat /\ current \in Nat /\ program \in Texts
  BY ReadingFacts
<1>2. places \in SUBSET (0 .. Len(program)) /\ Len(program) \in places
  <2>1. CharAt(Len(program)) \notin Digits
    BY <1>1, TextFacts DEF Known, CharacterClasses
  <2> QED BY <1>1, <2>1 DEF PlacesNot, PlacesOf
<1>3. /\ close \in current .. Len(program) /\ close \in places
      /\ \A q \in current .. (close - 1) : q \notin places
      /\ current \notin places => current < close
  BY <1>2, ScanEnds DEF Known, Reading
<1> HIDE DEF close
<1>4. \A q \in current .. (close - 1) : q \in 0 .. Len(program) /\ CharAt(q) \in Digits
  BY <1>1, <1>3 DEF PlacesNot, PlacesOf
<1>5. \A q \in current .. (close - 1) : CharAt(q) # Newline
  BY <1>4 DEF Known, CharacterClasses
<1>6. Return(NewToken("integerlit", current, n)) /\ Advance(n)
  BY DEF set_integerlit_token, close
<1>7. /\ n \in Nat /\ current + n = close
      /\ current + n <= Len(program)
  BY <1>1, <1>3
<1>8. "integerlit" \in PlainTypes
  BY DEF TokenTypes, PlainTypes
<1> HIDE DEF n
<1>9. \A q \in current .. (current + n - 1) : CharAt(q) # Newline
  <2>1. current + n - 1 = close - 1
    BY <1>1, <1>7
  <2> QED BY ONLY <1>5, <2>1
<1>10. CharAt(current) \in Digits /\ current < close /\ CharAt(close) \notin Digits
  BY <1>1, <1>3 DEF set_integerlit_token, Here, PlacesNot, PlacesOf
<1>11. n \in Nat \ {0}
  BY <1>1, <1>7, <1>10
<1>12. Longest(NewToken("integerlit", current, n))
  <2>1. current + n - 1 = close - 1
    BY <1>1, <1>7
  <2>2. \A q \in current .. (current + n - 1) : CharAt(q) \in Digits
    BY ONLY <1>4, <2>1
  <2>3. CharAt(current + n) \notin Digits
    BY ONLY <1>7, <1>10
  <2> QED BY <1>7, <1>11, <2>2, <2>3, NumberLongest
<1>13. CharAt(current) # End
  BY <1>10 DEF Known, CharacterClasses
<1> QED BY <1>6, <1>7, <1>8, <1>9, <1>12, <1>13, Returns

LEMMA WordRead == ASSUME Known, Reading, set_identifier_token PROVE TokenRead /\ Straight
<1> DEFINE places == PlacesNot(IdChars)
           close  == FirstFrom(current, places)
           n      == close - current
           name   == TextAt(current, n)
           type   == IF name \in Keywords THEN name ELSE "id"
<1>1. Len(program) \in Nat /\ current \in Nat /\ program \in Texts
  BY ReadingFacts
<1>2. places \in SUBSET (0 .. Len(program)) /\ Len(program) \in places
  <2>1. CharAt(Len(program)) \notin IdChars
    BY <1>1, TextFacts DEF Known, CharacterClasses, IdChars, End
  <2> QED BY <1>1, <2>1 DEF PlacesNot, PlacesOf
<1>3. /\ close \in current .. Len(program) /\ close \in places
      /\ \A q \in current .. (close - 1) : q \notin places
      /\ current \notin places => current < close
  BY <1>2, ScanEnds DEF Known, Reading
<1>4. Return(NewToken(type, current, n)) /\ Advance(n)
  BY DEF set_identifier_token
<1>5. type \in PlainTypes /\ type = IF TextAt(current, n) \in Keywords THEN TextAt(current, n) ELSE "id"
  BY DEF TokenTypes, PlainTypes, Keywords
<1> HIDE DEF close, type
<1>6. \A q \in current .. (close - 1) : q \in 0 .. Len(program) /\ CharAt(q) \in IdChars
  BY <1>1, <1>3 DEF PlacesNot, PlacesOf
<1>7. \A q \in current .. (close - 1) : CharAt(q) # Newline
  BY <1>6 DEF Known, CharacterClasses, IdChars, Newline
<1>8. /\ n \in Nat /\ current + n = close
      /\ current + n <= Len(program)
  BY <1>1, <1>3
<1> HIDE DEF n
<1>9. \A q \in current .. (current + n - 1) : CharAt(q) # Newline
  <2>1. current + n - 1 = close - 1
    BY <1>1, <1>8
  <2> QED BY ONLY <1>7, <2>1
<1>10. CharAt(current) \in Letters /\ current < close /\ CharAt(close) \notin IdChars
  BY <1>1, <1>3 DEF set_identifier_token, Here, PlacesNot, PlacesOf, IdChars
<1>11. n \in Nat \ {0}
  BY <1>1, <1>8, <1>10
<1>12. Longest(NewToken(type, current, n))
  <2>1. CharAt(current + n) \notin IdChars
    BY ONLY <1>8, <1>10
  <2> QED BY <1>5, <1>8, <1>10, <1>11, <2>1, WordLongest
<1>13. CharAt(current) # End
  BY <1>10 DEF Known, CharacterClasses
<1> QED BY <1>4, <1>5, <1>8, <1>9, <1>12, <1>13, Returns

LEMMA OperatorRead == ASSUME Known, Reading, set_operator_token PROVE TokenRead /\ Straight
<1>1. Len(program) \in Nat /\ current \in Nat /\ program \in Texts
  BY ReadingFacts
<1>2. CharAt(current) \notin Spaces /\ CharAt(current) # End
  BY DEF set_operator_token, Here
<1>3. CASE Fitting = {}
  <2>1. Return(NewToken("unexpected character", current, 1)) /\ Advance(1)
    BY <1>3 DEF set_operator_token
  <2>2. current + 1 <= Len(program)
    BY <1>1, <1>2, TextFacts DEF Known, Reading
  <2>3. ASSUME NEW p \in current .. (current + 1 - 1) PROVE CharAt(p) # Newline
    <3>1. p = current
      BY <1>1
    <3> QED BY <1>2, <3>1 DEF Known, CharacterClasses
  <2>4. "unexpected character" \in PlainTypes
    BY DEF PlainTypes, TokenTypes
  <2>5. ~ IsOperator(TextAt(current, 1))
    <3> SUFFICES ASSUME NEW k \in DOMAIN Operators, Operators[k] = TextAt(current, 1)
                 PROVE  FALSE
      BY DEF IsOperator
    <3>1. 1 \in Nat \ {0}
      OBVIOUS
    <3> QED BY <1>3, <2>2, <3>1, OperatorAt
  <2>6. Longest(NewToken("unexpected character", current, 1))
    BY <2>5 DEF Longest, NewToken, IsString
  <2> QED BY <1>2, <2>1, <2>2, <2>3, <2>4, <2>6, Returns
<1>4. CASE Fitting # {}
  <2> DEFINE first == CHOOSE k \in Fitting : \A m \in Fitting : k <= m
             name  == Operators[first]
             n     == Len(name)
  <2>1. first \in Fitting /\ \A m \in Fitting : first <= m
    <3>1. Fitting \in SUBSET Nat
      BY OperatorTable DEF Fitting
    <3> QED BY <1>4, <3>1, LeastNumber
  <2>2. Return(NewToken(name, current, n)) /\ Advance(n)
    BY <1>4 DEF set_operator_token
  <2> HIDE DEF first
  <2>5. Longest(NewToken(name, current, n))
    BY <2>1, OperatorLongest
  <2>3. n \in {1, 2} /\ current + n <= Len(program) /\ name \in PlainTypes
    BY <2>1, FittingFacts, OperatorTable
  <2>4. ASSUME NEW p \in current .. (current + n - 1) PROVE CharAt(p) # Newline
    <3> DEFINE j == p - current + 1
    <3>1. j \in 1 .. n /\ p = current + j - 1
      BY <1>1, <2>3
    <3> HIDE DEF j
    <3>2. CharAt(p) = SubSeq(name, j, j)
      BY <2>1, <3>1, FittingFacts
    <3>3. SubSeq(name, j, j) \notin Spaces /\ Newline \in Spaces
      BY <2>1, <3>1, FittingFacts DEF Known, CharacterClasses
    <3> QED BY <3>2, <3>3
  <2> HIDE DEF name, n
  <2>6. n \in Nat
    BY <2>3
  <2> QED BY <1>2, <2>2, <2>3, <2>4, <2>5, <2>6, Returns
<1> QED BY <1>3, <1>4

(* A space, with the columns: a newline starts the first one.               *)
LEMMA SpaceRead ==
  ASSUME Known, Reading, SkipSpace
  PROVE  /\ BlankRead
         /\ current \in 0 .. (Len(program) - 1) /\ current' = current + 1
         /\ IF CharAt(current) = Newline THEN linepos' = 1 /\ line' = line + 1
            ELSE linepos' = linepos + 1 /\ line' = line
<1>1. Len(program) \in Nat /\ current \in Nat /\ line \in Nat /\ program \in Texts
  BY ReadingFacts
<1>2. CharAt(current) \in Spaces /\ CharAt(current) # End
  BY DEF SkipSpace, Here, Known, CharacterClasses
<1>3. current < Len(program)
  BY <1>1, <1>2, TextFacts DEF Known, Reading
<1>4. /\ current' = current + 1 /\ UNCHANGED << program, tokens >>
      /\ IF CharAt(current) = Newline THEN linepos' = 1 /\ line' = line + 1
         ELSE linepos' = linepos + 1 /\ line' = line
  BY DEF SkipSpace, Here
<1>5. line' = line + Cardinality(Passed(current, current + 1))
  <2>1. CASE CharAt(current) = Newline
    <3>1. Passed(current, current + 1) = {current}
      BY <1>1, <1>3, <2>1 DEF Passed, LineEnds
    <3> QED BY <1>4, <2>1, <3>1, FS_Singleton
  <2>2. CASE CharAt(current) # Newline
    <3>1. Cardinality(Passed(current, current + 1)) = 0
      BY <1>1, <2>2, NothingPassed
    <3> QED BY <1>1, <1>4, <2>2, <3>1
  <2> QED BY <2>1, <2>2
<1>6. ReadOn
  BY <1>1, <1>3, <1>4, <1>5 DEF ReadOn
<1>7. \A p \in current .. (current' - 1) : CharAt(p) \in Spaces
  BY <1>1, <1>2, <1>4
<1>8. current \in 0 .. (Len(program) - 1)
  BY <1>1, <1>3
<1> QED BY <1>2, <1>4, <1>6, <1>7, <1>8 DEF BlankRead

(* A string, with the columns: behind a newline in it they are counted      *)
(* anew, else the opening quote is not counted.  A string that is not       *)
(* terminated reads to the end of the text.                                 *)
StringEnds ==
  /\ TokenRead
  /\ \E t \in TokenType : tokens' = Append(tokens, t)
                          /\ (t.type = "stringlit" \/ CharAt(current') = End)
  /\ \/ linepos' \in linepos .. (linepos + (current' - current)) /\ line' = line
     \/ \E b \in Passed(current, current') :
          linepos' = current' - b /\ \A r \in Passed(current, current') : r <= b

LEMMA StringRead == ASSUME Known, Reading, set_stringlit_token PROVE StringEnds
<1> DEFINE from   == current + 1
           places == PlacesOf({Here, End})
           close  == FirstFrom(from, places)
           breaks == {p \in from .. (close - 1) : CharAt(p) = Newline}
           last   == CHOOSE p \in breaks : \A q \in breaks : q <= p
           column == IF breaks = {} THEN linepos + (close - from) ELSE close - last
           closed == IF CharAt(close) = End THEN 0 ELSE 1
           type   == IF closed = 0 THEN "unterminated string" ELSE "stringlit"
           t      == NewToken(type, from, close - from)
<1>1. /\ Len(program) \in Nat /\ current \in Nat /\ program \in Texts
      /\ line \in Nat /\ linepos \in Nat
  BY ReadingFacts
<1>2. Here \in Quotes /\ Here # End /\ Here # Newline /\ CharAt(current) = Here
  BY DEF set_stringlit_token, Here, Quotes, End, Newline
<1>3. /\ tokens' = Append(tokens, t) /\ current' = close + closed
      /\ linepos' = column + closed /\ line' = line + Cardinality(breaks)
      /\ program' = program
  BY DEF set_stringlit_token, Return
<1>4. from \in 0 .. Len(program)
  BY <1>1, <1>2, TextFacts DEF Known, Reading
<1>5. places \in SUBSET (0 .. Len(program)) /\ Len(program) \in places
  BY <1>1, TextFacts DEF Known, PlacesOf
<1>6. close \in places /\ close \in from .. Len(program)
      /\ \A q \in from .. (close - 1) : q \notin places
  BY <1>1, <1>4, <1>5, ScanEnds DEF Known
<1> HIDE DEF close
<1>7. /\ CharAt(close) \in {Here, End} /\ close \in from .. Len(program)
      /\ \A q \in from .. (close - 1) : CharAt(q) \notin {Here, End}
  <2>1. \A q \in from .. (close - 1) : q \in 0 .. Len(program)
    BY <1>1, <1>4, <1>6
  <2> QED BY <1>6, <2>1 DEF PlacesOf
<1>8. closed \in {0, 1} /\ (closed = 1 => CharAt(close) = Here /\ close < Len(program))
      /\ (closed = 0 => CharAt(close) = End)
  <2>1. close \in 0 .. Len(program)
    BY <1>1, <1>6
  <2> QED BY <1>1, <1>2, <1>7, <2>1, TextFacts DEF Known
<1>9. type \in TokenTypes /\ type \in {"stringlit", "unterminated string"}
      /\ (type = "stringlit" <=> closed = 1)
  BY <1>8 DEF TokenTypes
<1> HIDE DEF closed, type
<1>10. close - from \in Nat /\ from \in Nat /\ close \in Nat /\ from + (close - from) = close
  BY <1>1, <1>6
<1>11. t \in TokenType /\ t.line = line /\ t.linepos = linepos /\ t.type = type
  BY <1>1, <1>9, <1>10 DEF NewToken, TokenType
<1>12. First(t) = current /\ Behind(t) = current'
  <2>1. First(t) = from - 1
    BY <1>9 DEF First, IsString, NewToken
  <2>2. Behind(t) = from + (close - from) + closed
    <3>1. Behind(t) = from + (close - from) + (IF type = "stringlit" THEN 1 ELSE 0)
      BY DEF Behind, NewToken
    <3> QED BY <1>8, <1>9, <3>1
  <2>3. from - 1 = current
    BY <1>1
  <2> QED BY <1>3, <1>10, <2>1, <2>2, <2>3
<1>13. current' \in current .. Len(program) /\ current' \in Nat
  BY <1>1, <1>3, <1>7, <1>8
<1>14. breaks = Passed(current, current')
  <2>1. ASSUME NEW p \in breaks PROVE p \in Passed(current, current')
    <3>1. p \in from .. (close - 1) /\ CharAt(p) = Newline
      OBVIOUS
    <3>2. p \in 0 .. (Len(program) - 1) /\ current <= p /\ p < current'
      BY <1>1, <1>3, <1>7, <1>8, <3>1
    <3> QED BY <3>1, <3>2 DEF Passed, LineEnds
  <2>2. ASSUME NEW p \in Passed(current, current') PROVE p \in breaks
    <3>1. p \in 0 .. (Len(program) - 1) /\ CharAt(p) = Newline /\ current <= p /\ p < current'
      BY DEF Passed, LineEnds
    <3>2. p # current
      BY <1>2, <3>1
    <3>3. p # close \/ closed = 0
      BY <1>2, <1>8, <3>1
    <3>4. p \in from .. (close - 1)
      BY <1>1, <1>3, <1>7, <1>8, <3>1, <3>2, <3>3
    <3> QED BY <3>1, <3>4
  <2> QED BY <2>1, <2>2
<1>15. ReadOn
  BY <1>3, <1>13, <1>14 DEF ReadOn
<1>16. TokenRead
  <2>1. IsString(t)
    BY <1>9, <1>11 DEF IsString
  <2>2. Longest(t)
    BY <2>1 DEF Longest, IsString
  <2> QED BY <1>2, <1>3, <1>11, <1>12, <1>15, <2>2 DEF TokenRead
<1>17. t.type = "stringlit" \/ CharAt(current') = End
  <2>1. CASE closed = 1
    BY <1>9, <1>11, <2>1
  <2>2. CASE closed = 0
    BY <1>3, <1>8, <1>10, <2>2
  <2> QED BY <1>8, <2>1, <2>2
<1> HIDE DEF breaks, t
<1>18. CASE breaks = {}
  <2>1. Cardinality(breaks) = 0
    BY <1>18, FS_EmptySet
  <2>2. line' = line
    BY <1>1, <1>3, <2>1
  <2>3. linepos' = linepos + (close - from) + closed
    BY <1>3, <1>18
  <2>4. linepos' \in linepos .. (linepos + (current' - current))
    BY <1>1, <1>3, <1>7, <1>8, <2>3
  <2> QED BY <1>3, <1>11, <1>16, <1>17, <2>2, <2>4 DEF StringEnds
<1>19. CASE breaks # {}
  <2>1. breaks \in SUBSET (0 .. close)
    BY <1>1, <1>7 DEF breaks
  <2>2. last \in breaks /\ \A q \in breaks : q <= last
    BY <1>10, <1>19, <2>1, LastIs
  <2> HIDE DEF last
  <2>3. linepos' = close - last + closed
    BY <1>3, <1>19
  <2>4. linepos' = current' - last
    BY <1>3, <1>8, <1>10, <2>1, <2>2, <2>3
  <2> QED BY <1>3, <1>11, <1>14, <1>16, <1>17, <2>2, <2>4 DEF StringEnds
<1> QED BY <1>18, <1>19

-----------------------------------------------------------------------------
(***************************************************************************)
(* The inductive invariant: the positions of lexer and tokens are those of *)
(* the text, and the line is the number of the newlines before it.         *)
(***************************************************************************)
LexInv ==
  /\ Reading
  /\ tokens \in Seq(TokenType)
  /\ line = 1 + Cardinality(Passed(0, current))
  /\ linepos \in 1 .. (current + 1)
  /\ \A i \in DOMAIN tokens : /\ 0 <= First(tokens[i]) /\ Behind(tokens[i]) <= current
                              /\ tokens[i].line <= line

(* The newlines up to a position are those up to an earlier one and those   *)
(* between the two.                                                         *)
LEMMA PassedCounts ==
  ASSUME Len(program) \in Nat, NEW a \in Nat, NEW b \in Nat, a <= b, b <= Len(program)
  PROVE  /\ Cardinality(Passed(0, b)) = Cardinality(Passed(0, a)) + Cardinality(Passed(a, b))
         /\ Cardinality(Passed(0, a)) \in Nat /\ Cardinality(Passed(a, b)) \in Nat
         /\ Cardinality(Passed(0, b)) \in 0 .. Len(program)
         /\ Cardinality(Passed(a, b)) <= b - a
<1>1. \A c, d \in Nat : c <= d => Passed(c, d) \subseteq c .. (d - 1)
  BY DEF Passed, LineEnds
<1>2. \A c, d \in Nat : c <= d =>
        IsFiniteSet(c .. (d - 1)) /\ Cardinality(c .. (d - 1)) = d - c
  <2> SUFFICES ASSUME NEW c \in Nat, NEW d \in Nat, c <= d
               PROVE  IsFiniteSet(c .. (d - 1)) /\ Cardinality(c .. (d - 1)) = d - c
    OBVIOUS
  <2>1. c \in Int /\ d - 1 \in Int
    OBVIOUS
  <2>2. /\ IsFiniteSet(c .. (d - 1))
        /\ Cardinality(c .. (d - 1)) = IF c > d - 1 THEN 0 ELSE (d - 1) - c + 1
    BY <2>1, FS_Interval
  <2> QED BY <2>2
<1>3. \A c, d \in Nat : c <= d =>
        /\ IsFiniteSet(Passed(c, d)) /\ Cardinality(Passed(c, d)) \in Nat
        /\ Cardinality(Passed(c, d)) <= d - c
  <2> SUFFICES ASSUME NEW c \in Nat, NEW d \in Nat, c <= d
               PROVE  /\ IsFiniteSet(Passed(c, d)) /\ Cardinality(Passed(c, d)) \in Nat
                      /\ Cardinality(Passed(c, d)) <= d - c
    OBVIOUS
  <2>1. /\ IsFiniteSet(Passed(c, d))
        /\ Cardinality(Passed(c, d)) <= Cardinality(c .. (d - 1))
    BY <1>1, <1>2, FS_Subset
  <2>2. Cardinality(Passed(c, d)) \in Nat
    BY <2>1, FS_CardinalityType
  <2> QED BY <1>2, <2>1, <2>2
<1>4. Passed(0, b) = Passed(0, a) \cup Passed(a, b) /\ Passed(0, a) \cap Passed(a, b) = {}
  BY DEF Passed, LineEnds
<1>5. /\ IsFiniteSet(Passed(0, a)) /\ IsFiniteSet(Passed(a, b))
      /\ Cardinality(Passed(0, a)) \in Nat /\ Cardinality(Passed(a, b)) \in Nat
      /\ Cardinality(Passed(a, b)) <= b - a
      /\ Cardinality(Passed(0, b)) \in Nat /\ Cardinality(Passed(0, b)) <= b
  <2>1. 0 \in Nat /\ 0 <= a /\ 0 <= b
    OBVIOUS
  <2>2. IsFiniteSet(Passed(0, a)) /\ Cardinality(Passed(0, a)) \in Nat
    BY <1>3, <2>1
  <2>3. /\ IsFiniteSet(Passed(a, b)) /\ Cardinality(Passed(a, b)) \in Nat
        /\ Cardinality(Passed(a, b)) <= b - a
    BY <1>3
  <2>4. Cardinality(Passed(0, b)) \in Nat /\ Cardinality(Passed(0, b)) <= b - 0
    BY <1>3, <2>1
  <2> QED BY <2>2, <2>3, <2>4
<1>6. Cardinality(Passed(0, a) \cup Passed(a, b)) =
        Cardinality(Passed(0, a)) + Cardinality(Passed(a, b))
          - Cardinality(Passed(0, a) \cap Passed(a, b))
  BY <1>5, FS_Union
<1>7. Cardinality(Passed(0, a) \cap Passed(a, b)) = 0
  BY <1>4, FS_EmptySet
<1>8. Cardinality(Passed(0, b)) = Cardinality(Passed(0, a)) + Cardinality(Passed(a, b))
  <2>1. \A m, n \in Nat : m + n - 0 = m + n
    OBVIOUS
  <2>2. Cardinality(Passed(0, b)) =
          Cardinality(Passed(0, a)) + Cardinality(Passed(a, b)) - 0
    BY <1>4, <1>6, <1>7
  <2> QED BY <1>5, <2>1, <2>2
<1>9. Cardinality(Passed(0, b)) \in 0 .. Len(program)
  BY <1>5
<1> QED BY <1>5, <1>8, <1>9

(* The kinds of turns.                                                      *)
Turn == \/ BlankRead /\ Straight
        \/ TokenRead /\ Straight
        \/ SkipSpace /\ BlankRead
        \/ StringEnds

LEMMA Turns == ASSUME Known, Reading, next_token PROVE Turn
BY EofRead, CommentRead, NumberRead, WordRead, OperatorRead, SpaceRead, StringRead
   DEF next_token, Turn

LEMMA TurnReads ==
  ASSUME Turn
  PROVE  ReadOn /\ (tokens' = tokens \/
           \E t \in TokenType : /\ tokens' = Append(tokens, t)
                                /\ First(t) = current /\ Behind(t) = current'
                                /\ t.line = line /\ t.linepos = linepos)
BY DEF Turn, BlankRead, TokenRead, StringEnds

LEMMA LexInvInit == Known /\ LexInit => LexInv
<1> SUFFICES ASSUME Known, LexInit PROVE LexInv
  OBVIOUS
<1>1. program \in Texts /\ current = 0 /\ line = 1 /\ linepos = 1 /\ tokens = << >>
  BY DEF LexInit, lexer_init
<1>2. Len(program) \in Nat
  BY <1>1, TextFacts DEF Known
<1>3. Passed(0, 0) = {} /\ Cardinality(Passed(0, 0)) = 0
  BY <1>2, FS_EmptySet DEF Passed, LineEnds
<1>4. tokens \in Seq(TokenType) /\ DOMAIN tokens = {}
  BY <1>1
<1>5. Reading
  BY <1>1, <1>2 DEF Reading
<1> QED BY <1>1, <1>3, <1>4, <1>5 DEF LexInv

(* The part of the invariant that does not look at columns.                 *)
LEMMA LinesKept ==
  ASSUME Known, LexInv, Turn
  PROVE  /\ program' \in Texts /\ current' \in 0 .. Len(program') /\ Len(program) \in Nat
         /\ line \in Nat /\ line' \in Nat /\ line <= line'
         /\ line' = 1 + Cardinality(Passed(0, current))'
<1>1. /\ program \in Texts /\ Len(program) \in Nat /\ current \in Nat
      /\ current <= Len(program) /\ line \in Nat
      /\ line = 1 + Cardinality(Passed(0, current))
  BY ReadingFacts DEF LexInv
<1>2. /\ program' = program /\ current' \in current .. Len(program)
      /\ line' = line + Cardinality(Passed(current, current'))
  BY TurnReads DEF ReadOn
<1>3. PICK next : next = current'
  OBVIOUS
<1>4. next \in Nat /\ current <= next /\ next <= Len(program)
  BY <1>1, <1>2, <1>3
<1>5. /\ Cardinality(Passed(0, next)) = Cardinality(Passed(0, current)) + Cardinality(Passed(current, next))
      /\ Cardinality(Passed(0, current)) \in Nat /\ Cardinality(Passed(current, next)) \in Nat
  BY <1>1, <1>4, PassedCounts
<1>6. line' = 1 + Cardinality(Passed(0, next)) /\ line' \in Nat /\ line <= line'
  BY <1>1, <1>2, <1>3, <1>5
<1>7. Passed(0, current)' = Passed(0, next)
  BY <1>2, <1>3 DEF Passed, LineEnds, CharAt
<1>8. Cardinality(Passed(0, current))' = Cardinality(Passed(0, next))
  BY <1>7
<1>9. program' \in Texts /\ current' \in 0 .. Len(program')
  BY <1>1, <1>2, <1>3, <1>4
<1> QED BY <1>1, <1>6, <1>8, <1>9

(* Columns stay within the text, in each of the ways they are counted.      *)
LEMMA ColumnArithmetic ==
  ASSUME NEW c \in Nat, NEW x \in Nat, c <= x
  PROVE  /\ \A d \in Nat : 1 <= d /\ d <= c + 1 => d + (x - c) \in 1 .. (x + 1)
         /\ \A d \in Nat : \A y : 1 <= d /\ d <= c + 1 /\ y \in d .. (d + (x - c)) => y \in 1 .. (x + 1)
         /\ \A b \in Int : c <= b /\ b < x => x - b \in 1 .. (x + 1)
OBVIOUS

LEMMA ColumnsBounded ==
  ASSUME Known, LexInv, Turn
  PROVE  linepos' \in 1 .. (current' + 1)
<1>1. current \in Nat /\ linepos \in Nat /\ 1 <= linepos /\ linepos <= current + 1
  BY ReadingFacts DEF LexInv
<1>2. current' \in Nat /\ current <= current'
  BY <1>1, TurnReads, ReadingFacts DEF ReadOn, LexInv
<1>3. CASE Straight
  <2>1. linepos' = linepos + (current' - current)
    BY <1>3 DEF Straight
  <2> QED BY <1>1, <1>2, <2>1, ColumnArithmetic
<1>4. CASE SkipSpace
  <2>1. current' = current + 1 /\ (linepos' = 1 \/ linepos' = linepos + 1)
    BY <1>4, SpaceRead DEF LexInv
  <2> QED BY <1>1, <2>1
<1>5. CASE linepos' \in linepos .. (linepos + (current' - current))
  BY <1>1, <1>2, <1>5, ColumnArithmetic
<1>6. CASE \E b \in Passed(current, current') : linepos' = current' - b
  <2>1. PICK b \in Passed(current, current') : linepos' = current' - b
    BY <1>6
  <2>2. b \in Int /\ current <= b /\ b < current'
    BY ReadingFacts DEF Passed, LineEnds, LexInv
  <2> QED BY <1>1, <1>2, <2>1, <2>2, ColumnArithmetic
<1> QED BY <1>3, <1>4, <1>5, <1>6 DEF Turn, StringEnds

LEMMA LexInvTurn == ASSUME Known, LexInv, Turn PROVE LexInv'
<1>1. /\ program' \in Texts /\ current' \in 0 .. Len(program') /\ line' \in Nat
      /\ line' = 1 + Cardinality(Passed(0, current))' /\ line <= line'
      /\ linepos' \in 1 .. (current' + 1) /\ Len(program) \in Nat
  BY LinesKept, ColumnsBounded
<1>2. current \in Nat /\ line \in Nat /\ program' = program /\ current' \in current .. Len(program)
  BY ReadingFacts, TurnReads DEF LexInv, ReadOn
<1>3. Reading'
  BY <1>1, <1>2 DEF Reading
<1>4. tokens \in Seq(TokenType)
  BY DEF LexInv
<1>5. ASSUME NEW t \in TokenType, First(t) = current, Behind(t) = current', t.line = line,
             tokens' = Append(tokens, t)
      PROVE  /\ tokens' \in Seq(TokenType)
             /\ \A i \in DOMAIN tokens' : /\ 0 <= First(tokens'[i])
                                          /\ Behind(tokens'[i]) <= current'
                                          /\ tokens'[i].line <= line'
  <2>1. /\ tokens' \in Seq(TokenType) /\ Len(tokens) \in Nat
        /\ DOMAIN tokens' = 1 .. (Len(tokens) + 1)
        /\ tokens'[Len(tokens) + 1] = t
        /\ \A i \in 1 .. Len(tokens) : tokens'[i] = tokens[i] /\ tokens[i] \in TokenType
    BY ONLY <1>4, <1>5, Appended
  <2>2. ASSUME NEW i \in 1 .. (Len(tokens) + 1)
        PROVE  /\ 0 <= First(tokens'[i]) /\ Behind(tokens'[i]) <= current'
               /\ tokens'[i].line <= line'
    <3>1. CASE i = Len(tokens) + 1
      BY <1>1, <1>2, <1>5, <2>1, <3>1
    <3>2. CASE i \in 1 .. Len(tokens)
      <4>1. tokens[i] \in TokenType /\ tokens'[i] = tokens[i] /\ i \in DOMAIN tokens
        BY <1>4, <2>1, <3>2
      <4>2. 0 <= First(tokens[i]) /\ Behind(tokens[i]) <= current /\ tokens[i].line <= line
        BY <4>1 DEF LexInv
      <4>3. Behind(tokens[i]) \in Int /\ tokens[i].line \in Int
        BY <4>1 DEF Behind, TokenType
      <4> QED BY <1>1, <1>2, <4>1, <4>2, <4>3
    <3> QED BY <2>1, <3>1, <3>2
  <2> QED BY <2>1, <2>2
<1>6. ASSUME tokens' = tokens
      PROVE  /\ tokens' \in Seq(TokenType)
             /\ \A i \in DOMAIN tokens' : /\ 0 <= First(tokens'[i])
                                          /\ Behind(tokens'[i]) <= current'
                                          /\ tokens'[i].line <= line'
  <2> SUFFICES ASSUME NEW i \in DOMAIN tokens
               PROVE  /\ 0 <= First(tokens[i]) /\ Behind(tokens[i]) <= current'
                      /\ tokens[i].line <= line'
    BY <1>4, <1>6
  <2>1. 0 <= First(tokens[i]) /\ Behind(tokens[i]) <= current /\ tokens[i].line <= line
    BY DEF LexInv
  <2>2. tokens[i] \in TokenType
    BY <1>4
  <2>3. Behind(tokens[i]) \in Int /\ tokens[i].line \in Int
    BY <2>2 DEF Behind, TokenType
  <2> QED BY <1>1, <1>2, <2>1, <2>3
<1>7. /\ tokens' \in Seq(TokenType)
      /\ \A i \in DOMAIN tokens' : /\ 0 <= First(tokens'[i])
                                   /\ Behind(tokens'[i]) <= current'
                                   /\ tokens'[i].line <= line'
  BY <1>5, <1>6, TurnReads
<1>8. linepos' \in 1 .. (current' + 1) /\ line' = 1 + Cardinality(Passed(0, current))'
  BY <1>1
<1> QED BY <1>3, <1>7, <1>8 DEF LexInv, First, Behind, IsString

(***************************************************************************)
(* What each turn returns, if it returns a token.                          *)
(***************************************************************************)
TokenTurn(t) ==
  /\ t \in TokenType /\ tokens' = Append(tokens, t)
  /\ First(t) = current /\ Behind(t) = current'
  /\ t.line = line /\ t.linepos = linepos /\ Longest(t)
  /\ (t.type = "eof" /\ current' = current) \/ CharAt(current) # End

LEMMA TurnIs == ASSUME Turn PROVE ReadOn /\ (BlankRead \/ \E t \in TokenType : TokenTurn(t))
BY DEF Turn, BlankRead, TokenRead, StringEnds, TokenTurn

(* The tokens behind such a turn are those before it and the new one.       *)
LEMMA TokensAfter ==
  ASSUME LexInv, NEW t, TokenTurn(t)
  PROVE  /\ Len(tokens) \in Nat /\ DOMAIN tokens = 1 .. Len(tokens)
         /\ Len(tokens') = Len(tokens) + 1
         /\ DOMAIN tokens' = 1 .. (Len(tokens) + 1)
         /\ tokens'[Len(tokens) + 1] = t
         /\ \A i \in 1 .. Len(tokens) : tokens'[i] = tokens[i] /\ tokens[i] \in TokenType
<1>1. tokens \in Seq(TokenType) /\ t \in TokenType /\ tokens' = Append(tokens, t)
  BY DEF LexInv, TokenTurn
<1>2. /\ tokens' \in Seq(TokenType) /\ Len(tokens) \in Nat
      /\ DOMAIN tokens' = 1 .. (Len(tokens) + 1) /\ tokens'[Len(tokens) + 1] = t
      /\ \A i \in 1 .. Len(tokens) : tokens'[i] = tokens[i] /\ tokens[i] \in TokenType
  BY ONLY <1>1, Appended
<1>3. Len(tokens') = Len(tokens) + 1 /\ DOMAIN tokens = 1 .. Len(tokens)
  BY <1>1
<1> QED BY <1>2, <1>3

LEMMA LexInvStep == ASSUME Known PROVE LexInv /\ [next_token]_lexVars => LexInv'
<1> SUFFICES ASSUME LexInv, [next_token]_lexVars PROVE LexInv'
  OBVIOUS
<1>1. CASE next_token
  BY <1>1, Turns, LexInvTurn DEF LexInv
<1>2. CASE UNCHANGED lexVars
  BY <1>2 DEF lexVars, LexInv, Reading, Passed, LineEnds, CharAt
<1> QED BY <1>1, <1>2

(***************************************************************************)
(* LexTypeOK: wherever next_token stands, its position, line and column    *)
(* are those of a place in the text, and so are those of the tokens.       *)
(***************************************************************************)
LEMMA LexInvTypes == ASSUME Known, LexInv PROVE LexTypeOK
<1>1. /\ program \in Texts /\ Len(program) \in Nat /\ current \in Nat
      /\ current <= Len(program) /\ line = 1 + Cardinality(Passed(0, current))
      /\ linepos \in 1 .. (current + 1)
  BY ReadingFacts DEF LexInv
<1>2. Cardinality(Passed(0, current)) \in 0 .. Len(program)
  <2>1. 0 \in Nat /\ 0 <= current
    BY <1>1
  <2> QED BY <1>1, <2>1, PassedCounts
<1>3. /\ current \in 0 .. Len(program) /\ line \in 1 .. (Len(program) + 1)
      /\ linepos \in 1 .. (Len(program) + 1)
  BY <1>1, <1>2
<1>4. ASSUME NEW i \in DOMAIN tokens
      PROVE  /\ tokens[i].type \in TokenTypes
             /\ 0 <= First(tokens[i]) /\ Behind(tokens[i]) <= Len(program)
  <2>1. tokens[i] \in TokenType
    BY DEF LexInv
  <2>2. 0 <= First(tokens[i]) /\ Behind(tokens[i]) <= current
    BY DEF LexInv
  <2>3. Behind(tokens[i]) \in Int /\ tokens[i].type \in TokenTypes
    BY <2>1 DEF Behind, TokenType
  <2> QED BY <1>1, <2>2, <2>3
<1> QED BY <1>3, <1>4 DEF LexTypeOK, TokenTypes

THEOREM LexTypes == ASSUME CharacterClasses, TextsAreSequences PROVE LexSpec => []LexTypeOK
<1>1. Known
  BY DEF Known
<1>2. LexInit => LexInv
  BY <1>1, LexInvInit
<1>3. LexInv /\ [next_token]_lexVars => LexInv'
  BY <1>1, LexInvStep
<1>4. LexInv => LexTypeOK
  BY <1>1, LexInvTypes
<1> QED BY <1>2, <1>3, <1>4, PTL DEF LexSpec

(***************************************************************************)
(* LinesRight: each token's line is the one it begins on.                  *)
(***************************************************************************)
LEMMA LinesRightStep ==
  ASSUME Known, LexInv, LinesRight, Turn PROVE LinesRight'
<1>1. program' = program /\ (tokens' = tokens \/ \E t \in TokenType : TokenTurn(t))
  BY TurnIs DEF ReadOn, BlankRead
<1>2. LineEnds' = LineEnds
  BY <1>1 DEF LineEnds, CharAt
<1>3. CASE tokens' = tokens
  BY <1>2, <1>3 DEF LinesRight, First, IsString
<1>4. ASSUME NEW t \in TokenType, TokenTurn(t) PROVE LinesRight'
  <2>1. t.line = 1 + Cardinality({p \in LineEnds : p < First(t)})
    <3>1. {p \in LineEnds : p < current} = Passed(0, current)
      BY ReadingFacts DEF Passed, LineEnds, LexInv
    <3>2. line = 1 + Cardinality(Passed(0, current))
      BY DEF LexInv
    <3> QED BY <1>4, <3>1, <3>2 DEF TokenTurn
  <2>2. ASSUME NEW i \in DOMAIN tokens'
        PROVE  tokens'[i].line = 1 + Cardinality({p \in LineEnds : p < First(tokens'[i])})
    <3>1. i = Len(tokens) + 1 \/ i \in 1 .. Len(tokens)
      BY <1>4, TokensAfter
    <3>2. CASE i = Len(tokens) + 1
      BY <1>4, <2>1, <3>2, TokensAfter
    <3>3. CASE i \in 1 .. Len(tokens)
      <4>1. tokens'[i] = tokens[i] /\ i \in DOMAIN tokens
        BY <1>4, <3>3, TokensAfter
      <4> QED BY <4>1 DEF LinesRight
    <3> QED BY <3>1, <3>2, <3>3
  <2> QED BY <1>2, <2>2 DEF LinesRight, First, IsString
<1> QED BY <1>1, <1>3, <1>4

THEOREM LexLinesRight == ASSUME CharacterClasses, TextsAreSequences PROVE LexSpec => []LinesRight
<1>1. Known
  BY DEF Known
<1>2. LexInit => LexInv /\ LinesRight
  BY <1>1, LexInvInit DEF LexInit, lexer_init, LinesRight
<1>3. LexInv /\ LinesRight /\ [next_token]_lexVars => LexInv' /\ LinesRight'
  <2> SUFFICES ASSUME LexInv, LinesRight, [next_token]_lexVars PROVE LexInv' /\ LinesRight'
    OBVIOUS
  <2>1. LexInv'
    BY <1>1, LexInvStep
  <2>2. CASE next_token
    BY <1>1, <2>1, <2>2, Turns, LinesRightStep DEF LexInv
  <2>3. CASE UNCHANGED lexVars
    BY <2>1, <2>3 DEF lexVars, LinesRight, First, IsString, LineEnds, CharAt
  <2> QED BY <2>2, <2>3
<1> QED BY <1>2, <1>3, PTL DEF LexSpec

(***************************************************************************)
(* LongestTokens: no token could go further, and a keyword is one.         *)
(***************************************************************************)
LEMMA LongestAfter ==
  ASSUME program' = program, \A i \in DOMAIN tokens' : Longest(tokens'[i])
  PROVE  LongestTokens'
<1>1. \A t : Longest(t) <=> Longest(t)'
  <2> SUFFICES ASSUME NEW t PROVE Longest(t) <=> Longest(t)'
    OBVIOUS
  <2>1. \A p, n : TextAt(p, n) = TextAt(p, n)'
    BY DEF TextAt
  <2>2. \A p : CharAt(p) = CharAt(p)'
    BY DEF CharAt
  <2>3. \A p, n : (IsWordAt(p, n) <=> IsWordAt(p, n)') /\ (IsNumberAt(p, n) <=> IsNumberAt(p, n)')
    BY <2>2 DEF IsWordAt, IsNumberAt
  <2> QED BY <2>1, <2>3 DEF Longest
<1>2. \A i \in DOMAIN tokens' : Longest(tokens[i])'
  BY <1>1
<1> QED BY <1>2 DEF LongestTokens, Longest

LEMMA LongestTokensStep ==
  ASSUME Known, LexInv, LongestTokens, Turn PROVE LongestTokens'
<1>1. program' = program /\ (tokens' = tokens \/ \E t \in TokenType : TokenTurn(t))
  BY TurnIs DEF ReadOn, BlankRead
<1>2. \A i \in DOMAIN tokens : Longest(tokens[i])
  BY DEF LongestTokens, Longest
<1>3. \A i \in DOMAIN tokens' : Longest(tokens'[i])
  <2>1. CASE tokens' = tokens
    BY <1>2, <2>1
  <2>2. ASSUME NEW t \in TokenType, TokenTurn(t), NEW i \in DOMAIN tokens'
        PROVE  Longest(tokens'[i])
    <3>1. i = Len(tokens) + 1 \/ i \in 1 .. Len(tokens)
      BY <2>2, TokensAfter
    <3>2. CASE i = Len(tokens) + 1
      BY <2>2, <3>2, TokensAfter DEF TokenTurn
    <3>3. CASE i \in 1 .. Len(tokens)
      BY <1>2, <2>2, <3>3, TokensAfter
    <3> QED BY <3>1, <3>2, <3>3
  <2> QED BY <1>1, <2>1, <2>2
<1> QED BY <1>1, <1>3, LongestAfter

THEOREM LexLongestTokens ==
  ASSUME CharacterClasses, TextsAreSequences PROVE LexSpec => []LongestTokens
<1>1. Known
  BY DEF Known
<1>2. LexInit => LexInv /\ LongestTokens
  BY <1>1, LexInvInit DEF LexInit, lexer_init, LongestTokens
<1>3. LexInv /\ LongestTokens /\ [next_token]_lexVars => LexInv' /\ LongestTokens'
  <2> SUFFICES ASSUME LexInv, LongestTokens, [next_token]_lexVars PROVE LexInv' /\ LongestTokens'
    OBVIOUS
  <2>1. LexInv'
    BY <1>1, LexInvStep
  <2>2. CASE next_token
    BY <1>1, <2>1, <2>2, Turns, LongestTokensStep DEF LexInv
  <2>3. CASE UNCHANGED lexVars
    <3>1. program' = program /\ tokens' = tokens
      BY <2>3 DEF lexVars
    <3>2. \A i \in DOMAIN tokens : Longest(tokens[i])
      BY DEF LongestTokens, Longest
    <3>3. \A i \in DOMAIN tokens' : Longest(tokens'[i])
      BY <3>1, <3>2
    <3> QED BY <2>1, <3>1, <3>3, LongestAfter
  <2> QED BY <2>2, <2>3
<1> QED BY <1>2, <1>3, PTL DEF LexSpec

(***************************************************************************)
(* NothingSkipped: the gap in front of token i + 1, or behind the last one, *)
(* is blank.                                                               *)
(***************************************************************************)
GapFrom(i) == IF i = 0 THEN 0 ELSE Behind(tokens[i])
GapTo(i)   == IF i = Len(tokens) THEN current ELSE First(tokens[i + 1])
GapBlank(i) == GapFrom(i) <= GapTo(i) /\ Blank(GapFrom(i), GapTo(i))

(* Reading on over space and comments keeps a gap blank.                    *)
LEMMA BlankGrows ==
  ASSUME NEW from \in Int, NEW a \in Nat, NEW b \in Nat, from <= a, a <= b, Blank(from, a),
         \A p \in a .. (b - 1) : CharAt(p) \in Spaces \/ InComment(a, p)
  PROVE  from <= b /\ Blank(from, b)
<1>1. ASSUME NEW p \in from .. (b - 1)
      PROVE  CharAt(p) \in Spaces \/ InComment(from, p)
  <2>1. p \in from .. (a - 1) \/ p \in a .. (b - 1)
    OBVIOUS
  <2>2. CASE p \in from .. (a - 1)
    BY <2>2 DEF Blank, InComment
  <2>3. CASE p \in a .. (b - 1)
    <3>1. CASE InComment(a, p)
      <4>1. PICK h \in a .. p : CharAt(h) = "#" /\ \A q \in h .. p : CharAt(q) # Newline
        BY <3>1 DEF InComment
      <4>2. h \in from .. p
        BY <2>3
      <4> QED BY <4>1, <4>2 DEF InComment
    <3> QED BY <2>3, <3>1
  <2> QED BY <2>1, <2>2, <2>3
<1>2. from <= b
  OBVIOUS
<1> QED BY <1>1, <1>2 DEF Blank, InComment

LEMMA GapsRead ==
  ASSUME Known, LexInv, \A i \in 0 .. Len(tokens) : GapBlank(i), BlankRead
  PROVE  \A i \in 0 .. Len(tokens) : GapBlank(i)'
<1>1. /\ program' = program /\ tokens' = tokens /\ current \in Nat /\ Len(program) \in Nat
      /\ current' \in current .. Len(program) /\ tokens \in Seq(TokenType)
  BY ReadingFacts DEF LexInv, BlankRead, ReadOn
<1>2. ASSUME NEW i \in 0 .. Len(tokens), i # Len(tokens) PROVE GapBlank(i)'
  <2>1. GapFrom(i)' = GapFrom(i) /\ GapTo(i)' = GapTo(i)
    BY <1>1, <1>2 DEF GapFrom, GapTo, First, Behind, IsString
  <2>2. GapBlank(i)
    OBVIOUS
  <2> QED BY ONLY <1>1, <2>1, <2>2 DEF GapBlank, Blank, CharAt
<1>4. PICK n \in Nat : n = Len(tokens)
  BY <1>1
<1>3. GapBlank(n)'
  <2> DEFINE from == GapFrom(n)
  <2>1. n \in 0 .. n /\ n = Len(tokens)
    BY <1>4
  <2>2. GapTo(n) = current
    BY <2>1 DEF GapTo
  <2>3. from <= current /\ Blank(from, current)
    BY <2>1, <2>2 DEF GapBlank
  <2>4. from \in Int
    <3>1. CASE n = 0
      BY <3>1 DEF GapFrom
    <3>2. CASE n # 0
      <4>1. tokens[n] \in TokenType
        BY <1>1, <2>1, <3>2
      <4> QED BY <3>2, <4>1 DEF GapFrom, Behind, TokenType
    <3> QED BY <3>1, <3>2
  <2> HIDE DEF from
  <2>5. PICK next : next = current'
    OBVIOUS
  <2>6. next \in Nat /\ current <= next
    BY <1>1, <2>5
  <2>7. \A p \in current .. (next - 1) : CharAt(p) \in Spaces \/ InComment(current, p)
    BY <2>5 DEF BlankRead
  <2>8. from <= next /\ Blank(from, next)
    BY <1>1, <2>3, <2>4, <2>6, <2>7, BlankGrows
  <2>9. GapFrom(n)' = from /\ GapTo(n)' = next
    BY <1>1, <2>1, <2>5 DEF from, GapFrom, GapTo, Behind
  <2>10. Blank(GapFrom(n), GapTo(n))'
    BY <1>1, <2>8, <2>9 DEF Blank, CharAt
  <2> QED BY <2>8, <2>9, <2>10 DEF GapBlank
<1> QED BY ONLY <1>2, <1>3, <1>4

LEMMA GapsReturned ==
  ASSUME Known, LexInv, ReadOn, \A i \in 0 .. Len(tokens) : GapBlank(i),
         NEW t, TokenTurn(t)
  PROVE  \A i \in 0 .. Len(tokens') : GapBlank(i)'
<1>1. program' = program /\ current' \in Nat /\ First(t) = current /\ Behind(t) = current'
  BY ReadingFacts DEF LexInv, ReadOn, TokenTurn
<1>2. /\ Len(tokens) \in Nat /\ DOMAIN tokens = 1 .. Len(tokens)
      /\ Len(tokens') = Len(tokens) + 1 /\ tokens'[Len(tokens) + 1] = t
      /\ \A i \in 1 .. Len(tokens) : tokens'[i] = tokens[i]
  BY TokensAfter
<1>6. PICK n \in Nat : n = Len(tokens)
  BY <1>2
<1>3. ASSUME NEW i \in 0 .. n PROVE GapBlank(i)'
  <2>1. GapFrom(i)' = GapFrom(i)
    BY <1>2, <1>3, <1>6 DEF GapFrom, Behind
  <2>2. GapTo(i)' = GapTo(i)
    <3>1. i # n + 1 /\ (i # n => i + 1 \in 1 .. n)
      BY ONLY <1>3, <1>6
    <3>2. CASE i = n
      BY <1>1, <1>2, <3>1, <3>2, <1>6 DEF GapTo, First, IsString
    <3>3. CASE i # n
      BY <1>2, <3>1, <3>3, <1>6 DEF GapTo, First, IsString
    <3> QED BY <3>2, <3>3
  <2>3. GapBlank(i)
    BY <1>3, <1>6
  <2> QED BY <1>1, <2>1, <2>2, <2>3 DEF GapBlank, Blank, CharAt
<1>4. GapBlank(n + 1)'
  <2>1. GapFrom(n + 1)' = current' /\ GapTo(n + 1)' = current'
    <3>1. n + 1 # 0
      BY <1>6
    <3>2. tokens'[n + 1] = t /\ Len(tokens') = n + 1
      BY <1>2, <1>6
    <3> QED BY <1>1, <3>1, <3>2 DEF GapFrom, GapTo, Behind
  <2>2. current' .. (current' - 1) = {} /\ current' <= current'
    <3>1. \A c \in Nat : c .. (c - 1) = {} /\ c <= c
      OBVIOUS
    <3> QED BY <1>1, <3>1
  <2> QED BY <2>1, <2>2 DEF GapBlank, Blank
<1>5. \A i \in 0 .. (n + 1) : i \in 0 .. n \/ i = n + 1
  BY <1>6
<1>7. Len(tokens') = n + 1
  BY <1>2, <1>6
<1> QED BY ONLY <1>3, <1>4, <1>5, <1>7

THEOREM LexNothingSkipped ==
  ASSUME CharacterClasses, TextsAreSequences PROVE LexSpec => []NothingSkipped
<1>1. Known
  BY DEF Known
<1> DEFINE Gaps == \A i \in 0 .. Len(tokens) : GapBlank(i)
<1>2. LexInit => LexInv /\ Gaps
  <2> SUFFICES ASSUME LexInit PROVE Gaps
    BY <1>1, LexInvInit
  <2>1. tokens = << >> /\ current = 0 /\ Len(tokens) = 0
    BY DEF LexInit, lexer_init
  <2>2. 0 .. 0 = {0} /\ 0 .. (0 - 1) = {}
    OBVIOUS
  <2> QED BY <2>1, <2>2 DEF GapBlank, GapFrom, GapTo, Blank
<1>3. LexInv /\ Gaps /\ [next_token]_lexVars => LexInv' /\ Gaps'
  <2> SUFFICES ASSUME LexInv, Gaps, [next_token]_lexVars PROVE LexInv' /\ Gaps'
    OBVIOUS
  <2>1. LexInv'
    BY <1>1, LexInvStep
  <2>2. CASE next_token
    <3>1. ReadOn /\ (BlankRead \/ \E t \in TokenType : TokenTurn(t))
      BY <1>1, <2>2, Turns, TurnIs DEF LexInv
    <3>2. CASE BlankRead
      <4>1. \A i \in 0 .. Len(tokens) : GapBlank(i)'
        BY <1>1, <3>2, GapsRead
      <4> QED BY <2>1, <3>2, <4>1 DEF BlankRead
    <3>3. CASE \E t \in TokenType : TokenTurn(t)
      BY <1>1, <2>1, <3>1, <3>3, GapsReturned
    <3> QED BY <3>1, <3>2, <3>3
  <2>3. CASE UNCHANGED lexVars
    <3>1. program' = program /\ current' = current /\ tokens' = tokens
      BY <2>3 DEF lexVars
    <3>2. ASSUME NEW i \in 0 .. Len(tokens) PROVE GapBlank(i)'
      <4>1. GapFrom(i)' = GapFrom(i) /\ GapTo(i)' = GapTo(i)
        BY ONLY <3>1 DEF GapFrom, GapTo, First, Behind, IsString
      <4>2. GapBlank(i)
        OBVIOUS
      <4> QED BY ONLY <3>1, <4>1, <4>2 DEF GapBlank, Blank, CharAt
    <3> QED BY <2>1, <3>1, <3>2
  <2> QED BY <2>2, <2>3
<1>4. Gaps => NothingSkipped
  BY DEF NothingSkipped, GapBlank, GapFrom, GapTo
<1> HIDE DEF Gaps
<1> QED BY <1>2, <1>3, <1>4, PTL DEF LexSpec

(***************************************************************************)
(* ColumnsRightBeforeStrings.  Where no string was closed on the line, the *)
(* column is that of the position, until an unterminated string has taken  *)
(* the rest of the text.                                                   *)
(***************************************************************************)
NoStringOnLine == \A k \in DOMAIN tokens : tokens[k].type = "stringlit" => tokens[k].line # line

ColumnInv == NoStringOnLine => linepos = Column(current) \/ CharAt(current) = End

(* Columns go as positions do where no line ends.                           *)
LEMMA ColumnStraight ==
  ASSUME Len(program) \in Nat, NEW a \in Nat, NEW b \in Nat, a <= b, Passed(a, b) = {}
  PROVE  Column(b) = Column(a) + (b - a)
<1> DEFINE before(x) == {q \in LineEnds : q < x}
           last      == CHOOSE q \in before(a) : \A r \in before(a) : r <= q
<1>1. before(b) = before(a)
  BY DEF Passed, LineEnds
<1>2. CASE before(a) = {}
  <2>1. Column(b) = b + 1 /\ Column(a) = a + 1
    BY <1>1, <1>2 DEF Column
  <2> QED BY <2>1
<1>3. CASE before(a) # {}
  <2>1. Column(b) = b - last /\ Column(a) = a - last
    BY <1>1, <1>3 DEF Column
  <2>2. before(a) \in SUBSET (0 .. Len(program))
    BY DEF LineEnds
  <2> HIDE DEF before
  <2>3. last \in before(a)
    BY <1>3, <2>2, LastIs
  <2>4. last \in Int
    BY <2>2, <2>3
  <2> HIDE DEF last
  <2> QED BY ONLY <2>1, <2>4, a \in Nat, b \in Nat
<1> QED BY <1>2, <1>3

(* Behind a newline they are counted from it.                               *)
LEMMA ColumnBehind ==
  ASSUME Len(program) \in Nat, NEW x \in Nat, NEW b \in LineEnds, b < x,
         \A r \in LineEnds : r < x => r <= b
  PROVE  Column(x) = x - b
<1> DEFINE before == {q \in LineEnds : q < x}
           last   == CHOOSE q \in before : \A r \in before : r <= q
<1>1. before \in SUBSET (0 .. Len(program)) /\ b \in before /\ \A r \in before : r <= b
  BY DEF LineEnds
<1>2. Column(x) = x - last
  BY <1>1 DEF Column
<1> HIDE DEF before
<1>3. last \in before /\ \A r \in before : r <= last
  BY <1>1, LastIs
<1> HIDE DEF last
<1>4. b \in Int /\ last \in Int /\ b <= last /\ last <= b
  BY <1>1, <1>3
<1>5. last = b
  BY <1>4
<1> QED BY <1>2, <1>5

LEMMA ColumnsStraight ==
  ASSUME Known, LexInv, ReadOn, Straight
  PROVE  /\ linepos = Column(current) => linepos' = Column(current)'
         /\ current' = current => linepos' = linepos /\ CharAt(current)' = CharAt(current)
<1>1. PICK next : next = current'
  OBVIOUS
<1>2. /\ Len(program) \in Nat /\ current \in Nat /\ linepos \in Nat /\ program' = program
      /\ next \in Nat /\ current <= next
      /\ linepos' = linepos + (next - current) /\ Passed(current, next) = {}
  BY <1>1, ReadingFacts DEF LexInv, ReadOn, Straight
<1>3. Column(next) = Column(current) + (next - current)
  BY <1>2, ColumnStraight
<1>4. Column(current)' = Column(next)
  BY <1>1, <1>2 DEF Column, LineEnds, CharAt
<1>5. linepos = Column(current) => linepos' = Column(current)'
  BY <1>2, <1>3, <1>4
<1>6. current' = current => linepos' = linepos
  BY <1>1, <1>2
<1>7. current' = current => CharAt(current)' = CharAt(current)
  BY <1>2 DEF CharAt
<1> QED BY <1>5, <1>6, <1>7

(* The last of the newlines read starts the line.                           *)
LEMMA ColumnsBehind ==
  ASSUME Known, LexInv, ReadOn, NEW b \in Passed(current, current'),
         linepos' = current' - b, \A r \in Passed(current, current') : r <= b
  PROVE  linepos' = Column(current)'
<1>1. PICK next : next = current'
  OBVIOUS
<1>2. /\ Len(program) \in Nat /\ current \in Nat /\ program' = program
      /\ next \in Nat /\ current <= next
      /\ b \in Passed(current, next) /\ \A r \in Passed(current, next) : r <= b
      /\ linepos' = next - b
  BY <1>1, ReadingFacts DEF LexInv, ReadOn
<1>3. b \in LineEnds /\ b < next /\ current <= b
  BY <1>2 DEF Passed
<1>4. ASSUME NEW r \in LineEnds, r < next PROVE r <= b
  <2>1. r \in Int /\ b \in Int
    BY <1>3 DEF LineEnds
  <2>2. CASE current <= r
    BY <1>2, <1>4, <2>2 DEF Passed
  <2>3. CASE ~ (current <= r)
    BY <1>2, <1>3, <2>1, <2>3
  <2> QED BY <2>2, <2>3
<1>5. Column(next) = next - b
  BY <1>2, <1>3, <1>4, ColumnBehind
<1>6. Column(current)' = Column(next)
  BY <1>1, <1>2 DEF Column, LineEnds, CharAt
<1> QED BY <1>2, <1>5, <1>6

(* The column that the lexer counts.                                        *)
LEMMA ColumnKept == ASSUME Known, LexInv, ColumnInv, Turn PROVE ColumnInv'
<1> SUFFICES ASSUME NoStringOnLine' PROVE (linepos = Column(current) \/ CharAt(current) = End)'
  BY DEF ColumnInv
<1>1. ReadOn
  BY TurnIs
<1>2. CASE BlankRead /\ Straight
  <2>1. NoStringOnLine
    BY <1>2 DEF BlankRead, Straight, NoStringOnLine
  <2>2. linepos = Column(current)
    BY <1>2, <2>1 DEF BlankRead, ColumnInv
  <2> QED BY <1>1, <1>2, <2>2, ColumnsStraight
<1>3. CASE TokenRead /\ Straight
  <2>1. PICK t \in TokenType : TokenTurn(t)
    BY <1>3 DEF TokenRead, TokenTurn
  <2>2. NoStringOnLine
    <3>1. line' = line
      BY <1>3 DEF Straight
    <3>2. ASSUME NEW k \in DOMAIN tokens
          PROVE  k \in DOMAIN tokens' /\ tokens'[k] = tokens[k]
      BY <2>1, TokensAfter
    <3> QED BY <3>1, <3>2 DEF NoStringOnLine
  <2>3. linepos = Column(current) \/ CharAt(current) = End
    BY <2>2 DEF ColumnInv
  <2>4. current' = current \/ CharAt(current) # End
    BY <2>1 DEF TokenTurn
  <2>5. CASE linepos = Column(current)
    BY <1>1, <1>3, <2>5, ColumnsStraight
  <2>6. CASE CharAt(current) = End
    BY <1>1, <1>3, <2>4, <2>6, ColumnsStraight
  <2> QED BY <2>3, <2>5, <2>6
<1>4. CASE SkipSpace /\ BlankRead
  <2>1. /\ Len(program) \in Nat /\ current \in Nat /\ linepos \in Nat /\ line \in Nat
        /\ current \in 0 .. (Len(program) - 1) /\ current' = current + 1
        /\ IF CharAt(current) = Newline THEN linepos' = 1 /\ line' = line + 1
           ELSE linepos' = linepos + 1 /\ line' = line
    BY <1>4, ReadingFacts, SpaceRead DEF LexInv
  <2>2. CASE CharAt(current) = Newline
    <3>1. current \in Passed(current, current')
      BY <2>1, <2>2 DEF Passed, LineEnds
    <3>2. \A r \in Passed(current, current') : r <= current
      BY <2>1 DEF Passed, LineEnds
    <3>3. linepos' = current' - current
      BY <2>1, <2>2
    <3> QED BY <1>1, <3>1, <3>2, <3>3, ColumnsBehind
  <2>3. CASE CharAt(current) # Newline
    <3>1. Passed(current, current + 1) = {}
      BY <2>1, <2>3 DEF Passed, LineEnds
    <3>2. Straight
      <4>1. linepos' = linepos + (current' - current)
        BY <2>1, <2>3
      <4> QED BY <2>1, <2>3, <3>1, <4>1 DEF Straight
    <3>3. NoStringOnLine
      BY <1>4, <3>2 DEF BlankRead, Straight, NoStringOnLine
    <3>4. linepos = Column(current)
      BY <1>4, <3>3 DEF BlankRead, ColumnInv
    <3> QED BY <1>1, <3>2, <3>4, ColumnsStraight
  <2> QED BY <2>2, <2>3
<1>5. CASE StringEnds
  <2>1. PICK t \in TokenType : TokenTurn(t)
    BY <1>5 DEF StringEnds, TokenRead, TokenTurn
  <2>2. t.type = "stringlit" \/ CharAt(current') = End
    <3>1. PICK u \in TokenType : /\ tokens' = Append(tokens, u)
                                 /\ (u.type = "stringlit" \/ CharAt(current') = End)
      BY <1>5 DEF StringEnds
    <3>2. tokens' = Append(tokens, t) /\ tokens \in Seq(TokenType)
      BY <2>1 DEF TokenTurn, LexInv
    <3>3. u = t
      <4>1. u \in TokenType /\ tokens' = Append(tokens, u) /\ tokens \in Seq(TokenType)
        BY <3>1, <3>2
      <4>2. tokens'[Len(tokens) + 1] = u
        BY ONLY <4>1, Appended
      <4> QED BY <2>1, <4>2, TokensAfter
    <3> QED BY <3>1, <3>3
  <2>3. CASE CharAt(current') = End
    BY <1>1, <2>3 DEF ReadOn, CharAt
  <2>4. CASE t.type = "stringlit" /\ line' = line
    <3>1. Len(tokens) + 1 \in DOMAIN tokens' /\ tokens'[Len(tokens) + 1] = t /\ t.line = line
      BY <2>1, TokensAfter DEF TokenTurn
    <3> QED BY <2>4, <3>1 DEF NoStringOnLine
  <2>5. CASE \E b \in Passed(current, current') :
               linepos' = current' - b /\ \A r \in Passed(current, current') : r <= b
    BY <1>1, <2>5, ColumnsBehind
  <2> QED BY <1>5, <2>2, <2>3, <2>4, <2>5 DEF StringEnds
<1> QED BY <1>2, <1>3, <1>4, <1>5 DEF Turn

LEMMA ColumnsRightStep ==
  ASSUME Known, LexInv, ColumnInv, ColumnsRightBeforeStrings, Turn
  PROVE  ColumnsRightBeforeStrings'
<1>1. program' = program /\ (tokens' = tokens \/ \E t \in TokenType : TokenTurn(t))
  BY TurnIs DEF ReadOn, BlankRead
<1>2. \A t : ColumnRight(t)' <=> ColumnRight(t)
  BY <1>1 DEF ColumnRight, Column, LineEnds, CharAt, First, IsString
<1>3. CASE tokens' = tokens
  <2>1. \A i \in DOMAIN tokens : ColumnRight(tokens[i])' <=> ColumnRight(tokens[i])
    BY <1>2, <1>3
  <2> QED BY ONLY <1>3, <2>1, ColumnsRightBeforeStrings DEF ColumnsRightBeforeStrings
<1>4. ASSUME NEW t \in TokenType, TokenTurn(t) PROVE ColumnsRightBeforeStrings'
  <2>1. /\ Len(tokens) \in Nat /\ DOMAIN tokens = 1 .. Len(tokens)
        /\ DOMAIN tokens' = 1 .. (Len(tokens) + 1) /\ tokens'[Len(tokens) + 1] = t
        /\ \A i \in 1 .. Len(tokens) : tokens'[i] = tokens[i]
    BY <1>4, TokensAfter
  <2>2. ASSUME NEW i \in DOMAIN tokens',
               \A k \in 1 .. (i - 1) :
                 tokens'[k].type = "stringlit" => tokens'[k].line # tokens'[i].line
        PROVE  ColumnRight(tokens'[i])
    <3>1. CASE i = Len(tokens) + 1
      <4>1. tokens'[i] = t /\ t.line = line /\ t.linepos = linepos /\ First(t) = current
        BY <1>4, <2>1, <3>1 DEF TokenTurn
      <4>2. NoStringOnLine
        <5>1. \A k \in DOMAIN tokens : k \in 1 .. (i - 1) /\ tokens'[k] = tokens[k]
          BY <2>1, <3>1
        <5> QED BY <2>2, <4>1, <5>1 DEF NoStringOnLine
      <4>3. t.type # "eof" => linepos = Column(current)
        BY <1>4, <4>2 DEF TokenTurn, ColumnInv
      <4> QED BY <4>1, <4>3 DEF ColumnRight
    <3>2. CASE i \in 1 .. Len(tokens)
      <4>1. tokens'[i] = tokens[i] /\ i \in DOMAIN tokens
        BY <2>1, <3>2
      <4>2. \A k \in 1 .. (i - 1) : tokens'[k] = tokens[k]
        BY <2>1, <3>2
      <4> QED BY <2>2, <4>1, <4>2 DEF ColumnsRightBeforeStrings
    <3> QED BY <2>1, <3>1, <3>2
  <2>3. ASSUME NEW i \in DOMAIN tokens',
               \A k \in 1 .. (i - 1) :
                 tokens'[k].type = "stringlit" => tokens'[k].line # tokens'[i].line
        PROVE  ColumnRight(tokens[i])'
    BY <1>2, <2>2, <2>3
  <2> QED BY <2>3 DEF ColumnsRightBeforeStrings
<1> QED BY <1>1, <1>3, <1>4

THEOREM LexColumnsRight ==
  ASSUME CharacterClasses, TextsAreSequences PROVE LexSpec => []ColumnsRightBeforeStrings
<1>1. Known
  BY DEF Known
<1> DEFINE Inv == LexInv /\ ColumnInv /\ ColumnsRightBeforeStrings
<1>2. LexInit => Inv
  <2> SUFFICES ASSUME LexInit PROVE ColumnInv /\ ColumnsRightBeforeStrings
    BY <1>1, LexInvInit
  <2>1. tokens = << >> /\ current = 0 /\ linepos = 1
    BY DEF LexInit, lexer_init
  <2>2. Column(0) = 1
    <3>1. {q \in LineEnds : q < 0} = {}
      BY DEF LineEnds
    <3> QED BY <3>1 DEF Column
  <2> QED BY <2>1, <2>2 DEF ColumnInv, ColumnsRightBeforeStrings
<1>3. Inv /\ [next_token]_lexVars => Inv'
  <2> SUFFICES ASSUME Inv, [next_token]_lexVars PROVE Inv'
    OBVIOUS
  <2>1. LexInv'
    BY <1>1, LexInvStep
  <2>2. CASE next_token
    BY <1>1, <2>1, <2>2, Turns, ColumnKept, ColumnsRightStep DEF LexInv
  <2>3. CASE UNCHANGED lexVars
    <3>1. UNCHANGED << program, current, line, linepos, tokens >>
      BY <2>3 DEF lexVars
    <3>2. ColumnInv'
      BY ONLY <3>1, ColumnInv DEF ColumnInv, NoStringOnLine, Column, LineEnds, CharAt
    <3>3. \A t : ColumnRight(t)' <=> ColumnRight(t)
      BY ONLY <3>1 DEF ColumnRight, Column, LineEnds, CharAt, First, IsString
    <3>4. \A i \in DOMAIN tokens : ColumnRight(tokens[i])' <=> ColumnRight(tokens[i])
      BY <3>1, <3>3
    <3>5. ColumnsRightBeforeStrings'
      BY ONLY <3>1, <3>4, ColumnsRightBeforeStrings DEF ColumnsRightBeforeStrings
    <3> QED BY <2>1, <3>2, <3>5
  <2> QED BY <2>2, <2>3
<1>4. Inv => ColumnsRightBeforeStrings
  OBVIOUS
<1> HIDE DEF Inv
<1> QED BY <1>2, <1>3, <1>4, PTL DEF LexSpec
-----------------------------------------------------------------------------
(***************************************************************************)
(* Progress.  A turn takes a character, or it is the one that returns the  *)
(* end of the text, after which there is none: what LexEnds needs besides  *)
(* fairness.                                                               *)
(***************************************************************************)
ReadsOn ==
  /\ program' = program
  /\ \/ current < current' /\ current' <= Len(program)
     \/ /\ ~AllRead /\ AllRead'
        /\ current = Len(program) /\ current' = current

LEMMA OperatorLonger ==
  ASSUME Known, Reading, set_operator_token
  PROVE  current' \in {current + 1, current + 2}
<1>1. CASE Fitting = {}
  <2>1. Return(NewToken("unexpected character", current, 1)) /\ Advance(1)
    BY <1>1 DEF set_operator_token
  <2>2. current' = current + 1
    BY <2>1, Zenon DEF Advance
  <2> QED BY <2>2
<1>2. CASE Fitting # {}
  <2> DEFINE first == CHOOSE k \in Fitting : \A m \in Fitting : k <= m
             name  == Operators[first]
             n     == Len(name)
  <2>1. first \in Fitting
    <3>1. Fitting \in SUBSET Nat
      BY OperatorTable DEF Fitting
    <3> QED BY <1>2, <3>1, LeastNumber
  <2>2. Return(NewToken(name, current, n)) /\ Advance(n)
    BY <1>2 DEF set_operator_token
  <2>4. current' = current + n
    BY <2>2 DEF Advance
  <2> HIDE DEF first
  <2>3. n \in {1, 2}
    BY <2>1, FittingFacts
  <2> HIDE DEF n
  <2> QED BY <2>3, <2>4
<1> QED BY <1>1, <1>2

(* A scan that the current character does not end.                          *)
LEMMA ScanTakes ==
  ASSUME Known, Reading, NEW places \in SUBSET (0 .. Len(program)),
         Len(program) \in places, current \notin places
  PROVE  /\ FirstFrom(current, places) \in Nat
         /\ current < FirstFrom(current, places)
<1>1. FirstFrom(current, places) \in current .. Len(program)
  BY ScanEnds DEF Known, Reading
<1>2. current < FirstFrom(current, places)
  BY ScanEnds DEF Known, Reading
<1> QED BY <1>1, <1>2, ReadingFacts

(* The handlers that scan take at least the character they begin with.      *)
LEMMA ScansLonger ==
  ASSUME Known, Reading,
         skip_comment \/ set_integerlit_token \/ set_identifier_token
  PROVE  current < current'
<1>1. Len(program) \in Nat /\ current \in Nat /\ CharAt(Len(program)) = End
  BY ReadingFacts, TextFacts DEF Known
<1>2. \A chars : End \in chars => /\ PlacesOf(chars) \in SUBSET (0 .. Len(program))
                                  /\ Len(program) \in PlacesOf(chars)
  BY <1>1 DEF PlacesOf
<1>3. \A chars : End \notin chars => /\ PlacesNot(chars) \in SUBSET (0 .. Len(program))
                                     /\ Len(program) \in PlacesNot(chars)
  BY <1>1 DEF PlacesNot, PlacesOf
<1>4. \A chars : /\ Here \notin chars => current \notin PlacesOf(chars)
                 /\ Here \in chars => current \notin PlacesNot(chars)
  BY ReadingFacts DEF PlacesOf, PlacesNot, Here, Reading
<1>5. \A c \in Nat : current + (c - current) = c
  BY <1>1
<1>6. CASE skip_comment
  <2> DEFINE places == PlacesOf({Newline, End})
  <2>1. Here \notin {Newline, End}
    <3>1. Here = "#"
      BY <1>6 DEF skip_comment
    <3> QED BY <3>1 DEF Newline, End
  <2>3. current' = current + (FirstFrom(current, places) - current)
    BY <1>6, Zenon DEF skip_comment, Advance
  <2>2. places \in SUBSET (0 .. Len(program)) /\ Len(program) \in places /\ current \notin places
    BY <1>2, <1>4, <2>1
  <2> HIDE DEF places
  <2> QED BY <1>5, <2>2, <2>3, ScanTakes
<1>7. CASE set_integerlit_token
  <2> DEFINE places == PlacesNot(Digits)
  <2>1. Here \in Digits /\ current' = current + (FirstFrom(current, places) - current)
    BY <1>7, Zenon DEF set_integerlit_token, Advance
  <2>2. places \in SUBSET (0 .. Len(program)) /\ Len(program) \in places /\ current \notin places
    <3>1. End \notin Digits
      BY Zenon DEF Known, CharacterClasses
    <3> QED BY <1>3, <1>4, <2>1, <3>1
  <2> HIDE DEF places
  <2> QED BY <1>5, <2>1, <2>2, ScanTakes
<1>8. CASE set_identifier_token
  <2> DEFINE places == PlacesNot(IdChars)
  <2>1. Here \in IdChars
    BY <1>8, Zenon DEF set_identifier_token, IdChars
  <2>4. current' = current + (FirstFrom(current, places) - current)
    BY <1>8, Zenon DEF set_identifier_token, Advance
  <2>2. End \notin IdChars
    <3>1. End \notin Letters /\ End \notin Digits
      BY Zenon DEF Known, CharacterClasses
    <3>2. End # "_"
      BY DEF End
    <3> QED BY <3>1, <3>2, Zenon DEF IdChars
  <2>3. places \in SUBSET (0 .. Len(program)) /\ Len(program) \in places /\ current \notin places
    BY <1>3, <1>4, <2>1, <2>2
  <2> HIDE DEF places
  <2> QED BY <1>5, <2>3, <2>4, ScanTakes
<1> QED BY <1>6, <1>7, <1>8

LEMMA StringLonger ==
  ASSUME Known, Reading, set_stringlit_token
  PROVE  current < current'
<1>1. Len(program) \in Nat /\ current \in Nat /\ CharAt(Len(program)) = End
  BY ReadingFacts, TextFacts DEF Known
<1>2. current + 1 \in 0 .. Len(program)
  <2>1. CharAt(current) # End
    <3>1. Here \in Quotes
      BY Zenon DEF set_stringlit_token
    <3> QED BY <3>1 DEF Here, Quotes, End
  <2> QED BY <1>1, <2>1, TextFacts DEF Known, Reading
<1> DEFINE places == PlacesOf({Here, End})
           close  == FirstFrom(current + 1, places)
           closed == IF CharAt(close) = End THEN 0 ELSE 1
<1>3. places \in SUBSET (0 .. Len(program)) /\ Len(program) \in places
  BY <1>1 DEF PlacesOf
<1>4. close \in (current + 1) .. Len(program)
  <2> HIDE DEF places
  <2> QED BY <1>2, <1>3, ScanEnds DEF Known, Reading
<1>5. current' = close + closed
  BY Zenon DEF set_stringlit_token
<1> HIDE DEF close
<1>6. closed \in {0, 1}
  OBVIOUS
<1> HIDE DEF closed
<1> QED BY <1>1, <1>4, <1>5, <1>6

LEMMA TurnReadsOn ==
  ASSUME Known, LexInv, next_token
  PROVE  ReadsOn
<1>1. Reading /\ tokens \in Seq(TokenType)
  BY DEF LexInv
<1>2. Len(program) \in Nat /\ current \in Nat /\ CharAt(Len(program)) = End
  BY <1>1, ReadingFacts, TextFacts DEF Known
<1>3. program' = program /\ current' \in current .. Len(program)
  BY <1>1, Turns, TurnReads DEF ReadOn
<1>4. CASE set_eof_token
  <2>1. current = Len(program)
    <3> SUFFICES ASSUME current < Len(program) PROVE FALSE
      BY <1>1, <1>2, ReadingFacts
    <3>1. CharAt(current) = SubSeq(program, current + 1, current + 1)
      BY DEF CharAt
    <3>2. /\ current + 1 \in 1 .. (Len(program) + 1) /\ current + 1 \in 0 .. Len(program)
          /\ current + 1 <= current + 1 + 1 /\ current + 1 + 1 - (current + 1) = 1
      BY <1>2
    <3>3. Len(SubSeq(program, current + 1, current + 1)) = 1
      BY <1>1, <3>2 DEF Known, Reading, TextsAreSequences
    <3>4. CharAt(current) = End
      BY <1>4 DEF set_eof_token, Here
    <3>5. Len(End) # 1
      BY Zenon DEF Known, CharacterClasses
    <3> QED BY <3>1, <3>3, <3>4, <3>5
  <2>2. ~AllRead /\ current' = current
    BY <1>4 DEF set_eof_token
  <2>3. AllRead'
    <3> DEFINE t == NewToken("eof", current, 0)
    <3>1. tokens' = Append(tokens, t) /\ t.type = "eof"
      BY <1>4 DEF set_eof_token, Return, NewToken
    <3>2. tokens' # << >> /\ tokens'[Len(tokens')] = t
      BY <1>1, <3>1
    <3> QED BY <3>1, <3>2 DEF AllRead
  <2> QED BY <1>3, <2>1, <2>2, <2>3 DEF ReadsOn
<1>5. CASE SkipSpace
  BY <1>1, <1>2, <1>3, <1>5, SpaceRead DEF ReadsOn
<1>6. CASE set_operator_token
  BY <1>1, <1>2, <1>3, <1>6, OperatorLonger DEF ReadsOn
<1>7. CASE set_stringlit_token
  BY <1>1, <1>2, <1>3, <1>7, StringLonger DEF ReadsOn
<1>8. CASE skip_comment \/ set_integerlit_token \/ set_identifier_token
  BY <1>1, <1>2, <1>3, <1>8, ScansLonger DEF ReadsOn
<1> QED BY <1>4, <1>5, <1>6, <1>7, <1>8 DEF next_token

(* next_token cannot be called for ever: every turn of it takes at least    *)
(* one character of the text, whatever the text is, or returns the token    *)
(* that ends it, and that only once and at its end.  No error, unterminated *)
(* string or unknown character makes it stay where it is.                   *)
THEOREM LexReadsOn ==
  ASSUME CharacterClasses, TextsAreSequences PROVE LexSpec => [][ReadsOn]_lexVars
<1>1. Known
  BY DEF Known
<1>2. LexInit => LexInv
  BY <1>1, LexInvInit
<1>3. LexInv /\ [next_token]_lexVars => LexInv'
  BY <1>1, LexInvStep
<1>4. LexInv /\ [next_token]_lexVars => [ReadsOn]_lexVars
  BY <1>1, TurnReadsOn
<1> QED BY <1>2, <1>3, <1>4, PTL DEF LexSpec
=============================================================================
