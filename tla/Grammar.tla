------------------------------ MODULE Grammar ------------------------------
(***************************************************************************)
(* How a program is written down: the tokens of a parse tree, with a pair  *)
(* of parentheses where the tree needs one and nowhere else.  It is what   *)
(* the parser is held against, and takes nothing from its code but the     *)
(* order of the levels of expressions.                                     *)
(***************************************************************************)
EXTENDS Syntax

(* struct token without its position.  text is what is compared of an       *)
(* identifier, num what a literal stands for.                              *)
Token(type, text, num) == [type |-> type, text |-> text, num |-> num]
Word(w) == Token(w, w, 0)
Name(s) == Token("id", s, 0)

Spelling == [and |-> "and", or |-> "or", eq |-> "==", neq |-> "!=", lt |-> "<",
          le |-> "<=", gt |-> ">", ge |-> ">=", plus |-> "+", minus |-> "-",
          times |-> "*", divide |-> "/"]

Level(kind) ==
  CASE kind \in {"and", "or"} -> 1
    [] kind \in {"eq", "neq", "lt", "le", "gt", "ge"} -> 2
    [] kind \in {"plus", "minus"} -> 3
    [] kind \in {"times", "divide"} -> 4
    [] OTHER -> 5

Enclosed(left, phrase, right) == << Word(left) >> \o phrase \o << Word(right) >>

(* Phrases with a separator between them, or one behind each.               *)
Separated(phrases, sep) ==
  FlattenSeq([k \in DOMAIN phrases |->
    IF k = 1 THEN phrases[k] ELSE << Word(sep) >> \o phrases[k]])
Ended(phrases, end) == FlattenSeq([k \in DOMAIN phrases |-> phrases[k] \o << Word(end) >>])

ScalarName == VAL_INTEGER :> "integer" @@ VAL_BOOLEAN :> "boolean" @@ VAL_STRING :> "string"

WrittenType(ty) ==
  FlattenSeq([k \in DOMAIN ty.dims |->
    << Word("vector"), Word("["), Token("integerlit", "", ty.dims[k]), Word("]"), Word("of") >>])
  \o << Word(ScalarName[ty.base]) >>

(* An expression where one of at least that level is wanted.                *)
RECURSIVE Written(_, _)
Written(e, level) ==
  LET own     == Level(e.kind)
      all(es) == [k \in DOMAIN es |-> Written(es[k], 1)]
      rest    == all(Tail(e.kids))
      arms    == [k \in DOMAIN Front(e.kids) |->
                    all(e.kids[k].kids)[1] \o << Word("then") >> \o all(e.kids[k].kids)[2]]
  IN
  IF own < level THEN Enclosed("(", Written(e, 1), ")") ELSE
  CASE own < 5          -> Written(e.kids[1], IF own = 2 THEN 3 ELSE own)
                             \o << Word(Spelling[e.kind]) >> \o Written(e.kids[2], own + 1)
    [] e.kind = "not"    -> << Word("!") >> \o Written(e.kids[1], 5)
    [] e.kind = "neg"    -> << Word("-") >> \o Written(e.kids[1], 5)
    [] e.kind = "int"    -> << Token("integerlit", "", e.val) >>
    [] e.kind = "str"    -> << Token("stringlit", "", e.val) >>
    [] e.kind = "bool"   -> << Word(IF e.val = 1 THEN "true" ELSE "false") >>
    [] e.kind = "id"     -> << Name(e.id) >>
    [] e.kind = "vector" -> Enclosed("[", Separated(all(e.kids), ","), "]")
    [] e.kind = "call"   -> Written(e.kids[1], 5) \o Enclosed("(", Separated(rest, ","), ")")
    [] e.kind = "index"  -> Written(e.kids[1], 5)
                             \o FlattenSeq([k \in DOMAIN rest |-> Enclosed("[", rest[k], "]")])
    [] e.kind = "condexpr" -> << Word("if") >> \o Separated(arms, "elsif") \o << Word("else") >>
                             \o Written(Last(e.kids), 1) \o << Word("end") >>

WrittenList(es) == Enclosed("(", Separated([k \in DOMAIN es |-> Written(es[k], 1)], ","), ")")

WrittenNames(ids) == Separated([k \in DOMAIN ids |-> << Name(ids[k]) >>], ",")

(* A statement that begins with if is no expression.                        *)
RECURSIVE WrittenStat(_)
WrittenStat(s) ==
  LET e(k)    == Written(s.kids[k], 1)
      list(l) == Ended([k \in DOMAIN l.kids |-> WrittenStat(l.kids[k])], ";")
      arm(a)  == Written(a.kids[1], 1) \o << Word("then") >> \o list(a.kids[2])
      arms    == SelectSeq(s.kids, LAMBDA kid : kid.kind = "cas")
  IN
  CASE s.kind = "assign" -> e(1) \o << Word("=") >> \o e(2)
    [] s.kind = "var"    -> WrittenNames(s.ids) \o << Word(":") >> \o WrittenType(s.ty)
    [] s.kind = "expr"   -> IF e(1)[1].type = "if" THEN Enclosed("(", e(1), ")") ELSE e(1)
    [] s.kind \in {"write", "writeln", "read"} -> << Word(s.kind) >> \o WrittenList(s.kids)
    [] s.kind \in {"exit", "break"} -> << Word(s.kind) >>
    [] s.kind = "while"  -> << Word("while") >> \o e(1) \o << Word("do") >> \o list(s.kids[2])
                              \o << Word("end") >>
    [] s.kind = "repeat" -> << Word("repeat") >> \o list(s.kids[1]) \o << Word("until") >> \o e(2)
    [] s.kind = "for"    -> << Word("for") >> \o WrittenStat(s.kids[1]) \o << Word("to") >> \o e(2)
                              \o << Word("do") >> \o list(s.kids[3]) \o << Word("end") >>
    [] s.kind = "if"     -> << Word("if") >> \o Separated([k \in DOMAIN arms |-> arm(arms[k])], "elsif")
                              \o (IF Len(arms) = Len(s.kids) THEN << >>
                                  ELSE << Word("else") >> \o list(Last(s.kids)))
                              \o << Word("end") >>

(* Parameters declared together: names with their qualifiers, and the type.  *)
(* (In Syntax, as for the compiler, every parameter has a type of its own.)  *)
Group(ids, ty) == [ids |-> ids, ty |-> ty]

WrittenGroup(g) ==
  Separated([k \in DOMAIN g.ids |->
               (IF g.ids[k].mod = "in" THEN << >> ELSE << Word(g.ids[k].mod) >>)
                 \o << Name(g.ids[k].id) >>], ",")
    \o << Word(":") >> \o WrittenType(g.ty)

(* The return that ends the body of a procedure is not written.  Which       *)
(* modules may have parameters, a result or modules of their own is not the *)
(* parser's business.  Parameters come in groups.                           *)
RECURSIVE WrittenModule(_)
WrittenModule(m) ==
  LET params == [k \in DOMAIN m.params |-> WrittenGroup(m.params[k])]
      body   == IF m.kind = "function" THEN Written(m.body[1].kids[1], 1)
                ELSE Ended([k \in DOMAIN Front(m.body) |-> WrittenStat(m.body[k])], ";")
  IN  << Word(m.kind), Name(m.name) >>
        \o (IF m.kind = "program" /\ params = << >> /\ m.ret = VoidT THEN << >>
            ELSE Enclosed("(", Separated(params, ","), ")"))
        \o (IF m.ret = VoidT THEN << >> ELSE << Word(":") >> \o WrittenType(m.ret))
        \o Ended([k \in DOMAIN m.vars |-> WrittenStat(m.vars[k])], ";")
        \o Ended([k \in DOMAIN m.mods |-> WrittenModule(m.mods[k])], ";")
        \o << Word("begin"), Name(m.name) >> \o body \o << Word("end"), Name(m.name) >>

WrittenProgram(p) == WrittenModule(p) \o << Word("."), Word("eof") >>
=============================================================================
