------------------------------- MODULE Edits -------------------------------
(***************************************************************************)
(* Somebody writes a program down and then changes its tokens: one is       *)
(* inserted, left out, or put before the one in front of it.  After every  *)
(* change the text is parsed.                                              *)
(***************************************************************************)
EXTENDS Parser

CONSTANTS
  ParserOf(_),  \* parse; a parameter, so that TLC does not count its paths
  Programs,     \* the parse trees written down
  Twice,        \* those of them whose text is changed twice, not once
  Extra,        \* the tokens inserted; "error" is one the lexer cannot make
  FewExtra      \* the tokens inserted into a text that is changed twice

VARIABLES
  program,  \* the tree
  text,     \* its tokens, an eof behind them
  edits,
  parsed    \* what parse makes of them

editVars == << program, text, edits, parsed >>

MaxEdits == IF program \in Twice THEN 2 ELSE 1
Insertable == IF program \in Twice THEN FewExtra ELSE Extra

EditInit ==
  /\ program \in Programs
  /\ text = WrittenProgram(program)
  /\ edits = 0
  /\ parsed = ParserOf(text)

Edited(new) ==
  /\ text' = new /\ edits' = edits + 1 /\ parsed' = ParserOf(new)
  /\ UNCHANGED program

Places == 1 .. (Len(text) - 1)

InsertToken ==
  edits < MaxEdits /\ \E k \in Places, t \in Insertable : Edited(InsertAt(text, k, t))
DropToken ==
  edits < MaxEdits /\ \E k \in Places : Edited(RemoveAt(text, k))
SwapTokens ==
  /\ edits < MaxEdits
  /\ \E k \in Places \ {1} : Edited([text EXCEPT ![k - 1] = text[k], ![k] = text[k - 1]])

EditNext == InsertToken \/ DropToken \/ SwapTokens

EditSpec == EditInit /\ [][EditNext]_editVars

-----------------------------------------------------------------------------
(* A program written as the language has it is accepted, and the tree is the *)
(* program: levels, sides and order of all that was written (parse).        *)
WrittenIsParsed == edits = 0 => Accepted(parsed) /\ parsed.node = program

(* No NULL and no missing label in a tree.                                  *)
RECURSIVE WholeNode(_), WholeModule(_)
WholeNode(node) ==
  /\ ~IsNull(node) /\ (node.kind = "var" => node.ty # VoidT)
  /\ \A k \in DOMAIN node.kids : WholeNode(node.kids[k])
WholeModule(m) ==
  /\ \A k \in DOMAIN m.params : m.params[k].ty # VoidT
  /\ \A k \in DOMAIN m.vars : WholeNode(m.vars[k])
  /\ \A k \in DOMAIN m.mods : WholeModule(m.mods[k])
  /\ \A k \in DOMAIN m.body : WholeNode(m.body[k])

(* The compiler follows the pointers of the tree it is given without a look  *)
(* at them: an accepted tree has everywhere a node where one belongs.        *)
AcceptedIsWhole == Accepted(parsed) => WholeModule(parsed.node)

Count(toks, type) == Len(SelectSeq(toks, LAMBDA t : t.type = type))
Bare(toks) == SelectSeq(toks, LAMBDA t : t.type \notin {"(", ")", ",", "eof"})

(* Nothing of an accepted text is left out of the tree, or read in another   *)
(* order: written down again it has the same tokens, but for parentheses    *)
(* and commas, and the parentheses of the text were pairs.  What comes       *)
(* behind the last full stop is not read.                                   *)
NothingLost ==
  Accepted(parsed) =>
    LET taken == SubSeq(text, 1, parsed.at - 1)
    IN  /\ Bare(taken) = Bare(WrittenProgram(parsed.node))
        /\ Count(taken, "(") = Count(taken, ")")

(* The parser gets to the end of every text: no loop of it turns without     *)
(* taking a token (stat_list_until_list, the blocks of module_decl_stat).    *)
NeverStuck == ~parsed.stuck

(* Where the parser follows a NULL pointer, it has at least told why: a      *)
(* program without errors never brings it down.                             *)
DownOnlyAfterError == parsed.undefined # "silent"
=============================================================================
