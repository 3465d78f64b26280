------------------------------ MODULE Frontend ------------------------------
(***************************************************************************)
(* Lexer and parser together, as parse of frontend/parser.c starts them: a *)
(* text, which may be a program written down, is lexed and its tokens are  *)
(* parsed.  In the code the parser asks for a token when it needs one; it  *)
(* never talks back to the lexer, so all of them can be made first.        *)
(***************************************************************************)
EXTENDS Parser, Lexer

CONSTANTS
  ParserOf(_),              \* parse; a parameter, so that TLC does not count its paths
  Programs,                 \* the parse trees written down
  Styles,                   \* how: what stands between tokens, and the quotes
  OtherTexts                \* texts that are not written from a tree

VARIABLES
  tree,      \* what was written down, or NoTree
  parsed     \* what parse returns

frontVars == << lexVars, tree, parsed >>

(* A literal is spelt by its number.                                        *)
Spelt(token, quote) ==
  CASE token.type = "integerlit" -> ToString(token.num)
    [] token.type = "stringlit"  -> quote \o ToString(token.num) \o quote
    [] OTHER                     -> token.text

IsWordly(token) ==
  \/ token.type = "integerlit"
  \/ token.type # "stringlit" /\ SubSeq(token.text, 1, 1) \in Letters

(* Two words are kept apart by a blank where nothing else stands there.      *)
TextOf(toks, style) ==
  LET gap(k) == IF k = 1 THEN ""
                ELSE IF style.gap = "" /\ IsWordly(toks[k - 1]) /\ IsWordly(toks[k]) THEN " "
                ELSE style.gap
      upTo[k \in 0 .. Len(toks)] ==
        IF k = 0 THEN "" ELSE upTo[k - 1] \o gap(k) \o Spelt(toks[k], style.quote)
  IN  upTo[Len(toks)]

AllTexts == OtherTexts
              \cup {TextOf(Front(WrittenProgram(p)), style) : p \in Programs, style \in Styles}

ASSUME TextsAssumption == Texts = AllTexts

ASSUME LexerAssumption == CharacterClasses /\ TextsAreSequences

NoTree    == [name |-> "none"]
NotParsed == [toks |-> << >>]

FrontInit ==
  /\ \/ /\ tree \in Programs
        /\ \E style \in Styles : program = TextOf(Front(WrittenProgram(tree)), style)
     \/ tree = NoTree /\ program \in OtherTexts
  /\ lexer_init
  /\ parsed = NotParsed

Lex == next_token /\ UNCHANGED << tree, parsed >>

(* The parser does not look into literals; those of programs are 0 to 9.     *)
OtherNum == 10

(* What the parser sees of a token.  (Concatenation makes TLC evaluate the   *)
(* sequence once instead of at every use.)                                  *)
Seen(token) ==
  LET spelt == TextAt(token.start, token.length)
  IN  CASE token.type = "id" -> Name(spelt)
        [] token.type \in {"integerlit", "stringlit"} ->
             Token(token.type, "",
                   IF \E n \in 0 .. 9 : ToString(n) = spelt
                   THEN CHOOSE n \in 0 .. 9 : ToString(n) = spelt ELSE OtherNum)
        [] token.type \in {"unterminated string", "unexpected character"} -> Word("error")
        [] OTHER -> Word(token.type)

Parse ==
  /\ AllRead /\ parsed = NotParsed
  /\ parsed' = ParserOf(<< >> \o [k \in DOMAIN tokens |-> Seen(tokens[k])])
  /\ UNCHANGED << lexVars, tree >>

FrontNext == Lex \/ Parse

FrontSpec == FrontInit /\ [][FrontNext]_frontVars

(* Lexing goes on as long as the parser asks for tokens.  (Whether parsing   *)
(* ends is a matter of one step, see NeverStuck.)                           *)
FrontFairSpec == FrontSpec /\ WF_frontVars(Lex)

-----------------------------------------------------------------------------
(* Whatever stands between its tokens, and with either quote, the text of a  *)
(* program is accepted and read as that program.                            *)
TextIsProgram ==
  parsed # NotParsed /\ tree # NoTree => Accepted(parsed) /\ parsed.node = tree
=============================================================================
