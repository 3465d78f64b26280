------------------------------- MODULE Lexer -------------------------------
(***************************************************************************)
(* next_token of frontend/lexer.c, called until the program is read.       *)
(*                                                                         *)
(* A token type is named by the spelling of the token, where it has only   *)
(* one; an error token by its message, and start and length are then the   *)
(* text that was dropped.  program is a string of characters, none of them *)
(* the '\0' that the file loader puts at its end.  Positions count from 0, *)
(* as pointers into program do.                                            *)
(***************************************************************************)
EXTENDS Naturals, Sequences, FiniteSets

CONSTANTS
  Texts,              \* the programs
  Letters, Digits,    \* isalpha, isdigit
  Spaces              \* isspace

Newline == "\n"
End     == "end of text"

Operators == << "==", "=", "!=", "!", ":", ",", ">=", ">", "<=", "<", "(", "[",
                "-", "+", ")", "]", ";", "/", "*", "." >>

Keywords == {"and", "begin", "boolean", "break", "do", "to", "else", "elsif",
             "end", "exit", "false", "for", "function", "if", "inout",
             "integer", "of", "or", "out", "procedure", "program", "read",
             "repeat", "string", "then", "true", "until", "vector", "while",
             "write", "writeln"}

VARIABLES
  program,    \* the text (never changes)
  current,    \* characters read
  line, linepos,
  tokens      \* the tokens returned

lexVars == << program, current, line, linepos, tokens >>

(* The character at a position, and the text of a given length there.       *)
CharAt(p)       == IF p < Len(program) THEN SubSeq(program, p + 1, p + 1) ELSE End
TextAt(p, length) == SubSeq(program, p + 1, p + length)

IdChars == Letters \cup Digits \cup {"_"}

(* The end is no character, the classes of characters do not overlap where  *)
(* next_token tells them apart, keywords begin with a letter, no operator   *)
(* has a character of another token, and an operator that another one       *)
(* begins with comes behind it in the table.                                *)
CharacterClasses ==
  /\ Len(End) # 1
  /\ Letters \cap Digits = {} /\ Newline \in Spaces
  /\ (Letters \cup Digits) \cap ({"#", "\"", "'"} \cup Spaces) = {}
  /\ End \notin Letters \cup Digits \cup Spaces
  /\ \A word \in Keywords : SubSeq(word, 1, 1) \in Letters
  /\ \A k \in DOMAIN Operators :
       /\ Len(Operators[k]) \in {1, 2}
       /\ \A j \in 1 .. Len(Operators[k]) :
            SubSeq(Operators[k], j, j) \notin IdChars \cup Spaces \cup {"\"", "'"}
       /\ \A m \in 1 .. (k - 1) : Len(Operators[m]) <= Len(Operators[k]) =>
            SubSeq(Operators[k], 1, Len(Operators[m])) # Operators[m]

(* A text is a sequence of characters, and so is each part of it.           *)
TextsAreSequences ==
  \A text \in Texts :
    /\ Len(text) \in Nat
    /\ \A from \in 1 .. (Len(text) + 1), to \in 0 .. Len(text) :
         from <= to + 1 =>
           LET part == SubSeq(text, from, to)
           IN  /\ Len(part) = to + 1 - from
               /\ \A k \in 1 .. 2 : k <= Len(part) =>
                    SubSeq(part, k, k) = SubSeq(text, from + k - 1, from + k - 1)

(* Where characters of a set stand, and where others do.  The end is one.   *)
PlacesOf(chars) == {p \in 0 .. Len(program) : CharAt(p) \in chars}
PlacesNot(chars) == (0 .. Len(program)) \ PlacesOf(chars)

(* The first of some places from p on.                                      *)
FirstFrom(p, places) == CHOOSE q \in places : p <= q /\ \A r \in places : r < p \/ q <= r

lexer_init == current = 0 /\ line = 1 /\ linepos = 1 /\ tokens = << >>

LexInit == program \in Texts /\ lexer_init

NewToken(type, start, length) ==
  [type |-> type, start |-> start, length |-> length,
   line |-> line, linepos |-> linepos]

Return(token) == tokens' = Append(tokens, token)

(* advance: over characters none of which is a newline.                     *)
Advance(length) ==
  /\ current' = current + length /\ linepos' = linepos + length
  /\ UNCHANGED << program, line >>

AllRead == tokens # << >> /\ tokens[Len(tokens)].type = "eof"
Here   == CharAt(current)
Quotes == {"\"", "'"}

set_eof_token ==
  /\ ~AllRead /\ Here = End
  /\ Return(NewToken("eof", current, 0))
  /\ UNCHANGED << program, current, line, linepos >>

skip_comment ==
  /\ Here = "#"
  /\ Advance(FirstFrom(current, PlacesOf({Newline, End})) - current)
  /\ UNCHANGED tokens

(* A slip in SkipSpace: only a newline is read past.                         *)
SkipSpace_OnlyNewline ==
  /\ Here \in Spaces
  /\ IF Here = Newline THEN current' = current + 1 /\ line' = line + 1 /\ linepos' = 1
     ELSE UNCHANGED << current, line, linepos >>
  /\ UNCHANGED << program, tokens >>

(* A slip in SkipSpace: linepos goes on counting behind a newline.           *)
SkipSpace_KeepsColumn ==
  /\ Here \in Spaces
  /\ current' = current + 1 /\ linepos' = linepos + 1
  /\ line' = IF Here = Newline THEN line + 1 ELSE line
  /\ UNCHANGED << program, tokens >>

SkipSpace ==
  /\ Here \in Spaces
  /\ current' = current + 1
  /\ IF Here = Newline THEN line' = line + 1 /\ linepos' = 1
     ELSE linepos' = linepos + 1 /\ UNCHANGED line
  /\ UNCHANGED << program, tokens >>

(* A slip in set_stringlit_token: the newlines of a string are not counted.  *)
set_stringlit_token_NoLines ==
  /\ Here \in Quotes
  /\ LET from   == current + 1
         close  == FirstFrom(from, PlacesOf({Here, End}))
         breaks == {p \in from .. (close - 1) : CharAt(p) = Newline}
         column == IF breaks = {} THEN linepos + (close - from)
                   ELSE close - (CHOOSE p \in breaks : \A q \in breaks : q <= p)
         closed == IF CharAt(close) = End THEN 0 ELSE 1
         type   == IF closed = 0 THEN "unterminated string" ELSE "stringlit"
     IN  /\ Return(NewToken(type, from, close - from))
         /\ current' = close + closed
         /\ linepos' = column + closed
         /\ UNCHANGED line
  /\ UNCHANGED program

(* A slip in set_stringlit_token: it reads past a quote that is not there.   *)
set_stringlit_token_PastEnd ==
  /\ Here \in Quotes
  /\ LET from   == current + 1
         close  == FirstFrom(from, PlacesOf({Here, End}))
         breaks == {p \in from .. (close - 1) : CharAt(p) = Newline}
         column == IF breaks = {} THEN linepos + (close - from)
                   ELSE close - (CHOOSE p \in breaks : \A q \in breaks : q <= p)
         closed == IF CharAt(close) = End THEN 0 ELSE 1
         type   == IF closed = 0 THEN "unterminated string" ELSE "stringlit"
     IN  /\ Return(NewToken(type, from, close - from))
         /\ current' = close + 1
         /\ linepos' = column + closed
         /\ line' = line + Cardinality(breaks)
  /\ UNCHANGED program

(* The characters between two quotes of a kind.  The opening quote is not   *)
(* counted in linepos.                                                     *)
set_stringlit_token ==
  /\ Here \in Quotes
  /\ LET from   == current + 1
         close  == FirstFrom(from, PlacesOf({Here, End}))
         breaks == {p \in from .. (close - 1) : CharAt(p) = Newline}
         column == IF breaks = {} THEN linepos + (close - from)
                   ELSE close - (CHOOSE p \in breaks : \A q \in breaks : q <= p)
         closed == IF CharAt(close) = End THEN 0 ELSE 1
         type   == IF closed = 0 THEN "unterminated string" ELSE "stringlit"
     IN  /\ Return(NewToken(type, from, close - from))
         /\ current' = close + closed
         /\ linepos' = column + closed
         /\ line' = line + Cardinality(breaks)
  /\ UNCHANGED program

set_integerlit_token ==
  /\ Here \in Digits
  /\ LET length == FirstFrom(current, PlacesNot(Digits)) - current
     IN  Return(NewToken("integerlit", current, length)) /\ Advance(length)

set_identifier_token ==
  /\ Here \in Letters
  /\ LET length == FirstFrom(current, PlacesNot(IdChars)) - current
         name   == TextAt(current, length)
     IN  /\ Return(NewToken(IF name \in Keywords THEN name ELSE "id", current, length))
         /\ Advance(length)

(* The operators the text goes on with, by their places in the table.       *)
Fitting == {k \in DOMAIN Operators :
              /\ current + Len(Operators[k]) <= Len(program)
              /\ TextAt(current, Len(Operators[k])) = Operators[k]}

(* A slip in set_operator_token: the last operator that fits.               *)
set_operator_token_Last ==
  /\ Here \notin {End, "#"} \cup Quotes \cup Letters \cup Digits \cup Spaces
  /\ IF Fitting = {} THEN
       Return(NewToken("unexpected character", current, 1)) /\ Advance(1)
     ELSE LET last == CHOOSE k \in Fitting : \A m \in Fitting : m <= k
              name == Operators[last]
          IN  Return(NewToken(name, current, Len(name))) /\ Advance(Len(name))

(* A slip in set_operator_token: a character no token begins with is dropped.*)
set_operator_token_Drops ==
  /\ Here \notin {End, "#"} \cup Quotes \cup Letters \cup Digits \cup Spaces
  /\ IF Fitting = {} THEN UNCHANGED tokens /\ Advance(1)
     ELSE LET first == CHOOSE k \in Fitting : \A m \in Fitting : k <= m
              name  == Operators[first]
          IN  Return(NewToken(name, current, Len(name))) /\ Advance(Len(name))

(* The first operator of the table that fits.                              *)
set_operator_token ==
  /\ Here \notin {End, "#"} \cup Quotes \cup Letters \cup Digits \cup Spaces
  /\ IF Fitting = {} THEN
       Return(NewToken("unexpected character", current, 1)) /\ Advance(1)
     ELSE LET first == CHOOSE k \in Fitting : \A m \in Fitting : k <= m
              name  == Operators[first]
          IN  Return(NewToken(name, current, Len(name))) /\ Advance(Len(name))

next_token ==
  \/ set_eof_token \/ skip_comment \/ SkipSpace \/ set_stringlit_token
  \/ set_integerlit_token \/ set_identifier_token \/ set_operator_token

LexSpec     == LexInit /\ [][next_token]_lexVars
LexFairSpec == LexSpec /\ WF_lexVars(next_token)

-----------------------------------------------------------------------------
IsString(t) == t.type \in {"stringlit", "unterminated string"}

(* The text a token takes, with its quotes: from First(t) up to Behind(t).   *)
First(t)  == IF IsString(t) THEN t.start - 1 ELSE t.start
Behind(t) == t.start + t.length + (IF t.type = "stringlit" THEN 1 ELSE 0)

(* Where the lines of the program end.                                      *)
LineEnds == {p \in 0 .. (Len(program) - 1) : CharAt(p) = Newline}

Column(p) ==
  LET before == {q \in LineEnds : q < p}
  IN  IF before = {} THEN p + 1 ELSE p - (CHOOSE q \in before : \A r \in before : r <= q)

(* Positions stay inside the text and every token is one of the language's. *)
LexTypeOK ==
  /\ current \in 0 .. Len(program) /\ line \in 1 .. (Len(program) + 1)
  /\ linepos \in 1 .. (Len(program) + 1)
  /\ \A i \in DOMAIN tokens :
       /\ tokens[i].type \in Keywords \cup {Operators[k] : k \in DOMAIN Operators}
            \cup {"id", "integerlit", "stringlit", "eof", "unterminated string",
                  "unexpected character"}
       /\ 0 <= First(tokens[i]) /\ Behind(tokens[i]) <= Len(program)

(* From one position up to another there is space and comments only.        *)
Blank(from, to) ==
  \A p \in from .. (to - 1) :
    \/ CharAt(p) \in Spaces
    \/ \E h \in from .. p : CharAt(h) = "#" /\ \A q \in h .. p : CharAt(q) # Newline

(* Tokens come in the order of the text, and between two of them, before    *)
(* the first and after the last there is nothing but space and comments: no *)
(* character of a program is dropped without a word (next_token).           *)
NothingSkipped ==
  LET from(i) == IF i = 0 THEN 0 ELSE Behind(tokens[i])
      to(i)   == IF i = Len(tokens) THEN current ELSE First(tokens[i + 1])
  IN  \A i \in 0 .. Len(tokens) : from(i) <= to(i) /\ Blank(from(i), to(i))

IsWordAt(p, n)   == CharAt(p) \in Letters /\ \A q \in p + 1 .. (p + n - 1) : CharAt(q) \in IdChars
IsNumberAt(p, n) == \A q \in p .. (p + n - 1) : CharAt(q) \in Digits
IsOperator(s)    == \E k \in DOMAIN Operators : Operators[k] = s

(* A word, a number or an operator goes as far as it can (what it begins     *)
(* with is one too, so one more character is enough to look at), and is a   *)
(* keyword just when it is spelt as one: "==" is one token and "tot" is no  *)
(* keyword (the order of the two tables and the length tests in them).      *)
LongestTokens ==
  \A i \in DOMAIN tokens :
    LET t    == tokens[i]
        n    == t.length
        text == TextAt(t.start, n)
    IN  CASE IsString(t) \/ t.type = "eof"    -> TRUE
          [] t.type = "unexpected character" -> ~IsOperator(text)
          [] OTHER ->
               /\ t.start + n < Len(program) =>
                    ~ \/ IsWordAt(t.start, n + 1) \/ IsNumberAt(t.start, n + 1)
                      \/ IsOperator(TextAt(t.start, n + 1))
               /\ t.type = IF text \in Keywords \/ IsOperator(text) THEN text
                           ELSE IF IsNumberAt(t.start, n) THEN "integerlit" ELSE "id"

(* The line of a token, which error messages name, is the line it begins    *)
(* on, behind strings of several lines too.                                 *)
LinesRight ==
  \A i \in DOMAIN tokens :
    tokens[i].line = 1 + Cardinality({p \in LineEnds : p < First(tokens[i])})

(* The end of the text is reported without a column.                        *)
ColumnRight(t) == t.type # "eof" => t.linepos = Column(First(t))

(* The column of a token, which error messages name next to the line, is    *)
(* where it begins, as long as no string comes before it on its line.       *)
ColumnsRightBeforeStrings ==
  \A i \in DOMAIN tokens :
    (\A k \in 1 .. (i - 1) : tokens[k].type = "stringlit" => tokens[k].line # tokens[i].line)
      => ColumnRight(tokens[i])

(* Lexing a text comes to its end: every turn of next_token reads on.       *)
LexEnds == <>AllRead
=============================================================================
