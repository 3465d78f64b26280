------------------------------- MODULE Parser -------------------------------
(***************************************************************************)
(* frontend/parser.c: the functions of the recursive descent, each from a  *)
(* parser to the parser it leaves, with what the function returns in node. *)
(*                                                                         *)
(* A parser holds the tokens still to come (toks from at on), previous,    *)
(* panic and error_detected, and two things the code has no variable for:  *)
(*   undefined  a NULL pointer was followed or a token read that was never *)
(*              written, and whether a message had been printed before;    *)
(*   stuck      a turn of a loop took no token and would be taken again.   *)
(* In both cases the rest of the text is not looked at any more.           *)
(***************************************************************************)
EXTENDS Grammar

NULL == Node("NULL", << >>)
IsNull(node) == node.kind = "NULL"

Current(ps)     == ps.toks[ps.at].type
Give(ps, node)  == [ps EXCEPT !.node = node]
check(ps, type) == Current(ps) = type
AtEnd(ps)       == [ps EXCEPT !.at = Len(ps.toks)]

Undefined(ps) ==
  AtEnd([ps EXCEPT !.undefined = IF @ # "no" THEN @
                                 ELSE IF ps.error THEN "reported" ELSE "silent"])

(* A turn of a loop is over.                                                *)
Turned(before, after) ==
  IF after.at = before.at THEN AtEnd([after EXCEPT !.stuck = TRUE]) ELSE after

parse_error(ps) == IF ps.panic THEN ps ELSE [ps EXCEPT !.panic = TRUE, !.error = TRUE]

(* Tokens the lexer could not make are reported and skipped.  The lexer      *)
(* stays at the end of the text.                                           *)
advance(ps) ==
  LET ahead == {k \in (ps.at + 1) .. Len(ps.toks) : ps.toks[k].type # "error"}
      next  == IF ahead = {} THEN ps.at ELSE Min(ahead)
      moved == [ps EXCEPT !.previous = ps.toks[ps.at], !.at = next]
  IN  IF next > ps.at + 1 THEN parse_error(moved) ELSE moved

eat_error(ps, type) == IF check(ps, type) THEN advance(ps) ELSE parse_error(ps)

RECURSIVE SkipToSemicolon(_)
SkipToSemicolon(ps) ==
  IF Current(ps) \in {"eof", ";"} THEN ps ELSE SkipToSemicolon(advance(ps))
synchronize(ps) == SkipToSemicolon([ps EXCEPT !.panic = FALSE])

(***************************************************************************)
(* Expressions.                                                            *)
(***************************************************************************)
RECURSIVE Binary(_, _), Operands(_, _), term(_), MoreExprs(_, _), MoreIndices(_, _, _),
          Postfix(_), Arms(_, _)

token_to_bin_node_type ==
  "and" :> "and" @@ "or" :> "or" @@ "==" :> "eq" @@ "!=" :> "neq" @@ "<" :> "lt"
  @@ "<=" :> "le" @@ ">" :> "gt" @@ ">=" :> "ge" @@ "+" :> "plus" @@ "-" :> "minus"
  @@ "*" :> "times" @@ "/" :> "divide"

(* boolean_expr, comp_expr, add_expr and mul_expr: each takes operands of    *)
(* the next and, but for comp_expr, as many operators as come.              *)
OperatorsAt == << {"and", "or"}, {"<", "<=", ">", ">=", "==", "!="}, {"+", "-"}, {"*", "/"} >>

Binary(ps, level) == IF level = 5 THEN term(ps) ELSE Operands(Binary(ps, level + 1), level)

(* A slip in Operands: the right operand takes all that follows.             *)
Operands_RightFirst(ps, level) ==
  IF Current(ps) \notin OperatorsAt[level] THEN ps
  ELSE LET right == Operands(Binary(advance(ps), level + 1), level)
       IN  Give(right, Bin(token_to_bin_node_type[Current(ps)], ps.node, right.node))

Operands(ps, level) ==
  IF Current(ps) \notin OperatorsAt[level] THEN ps
  ELSE LET right == Binary(advance(ps), level + 1)
           both  == Give(right, Bin(token_to_bin_node_type[Current(ps)], ps.node, right.node))
       IN  IF level = 2 THEN both ELSE Operands(both, level)

expr(ps) == Binary(ps, 1)

unary_expr(ps) ==
  LET child == term(advance(ps))
  IN  Give(child, IF check(ps, "!") THEN Not1(child.node) ELSE Neg(child.node))

const_expr(ps) ==
  LET token == ps.toks[ps.at]
  IN  Give(advance(ps), CASE token.type = "integerlit" -> IntC(token.num)
                          [] token.type = "stringlit"  -> StrC(token.num)
                          [] OTHER                     -> BoolC(token.type = "true"))

(* expr_list, with the expression just read in node and those before it in  *)
(* list.  Behind a comma the next one is linked to it.                      *)
MoreExprs(ps, list) ==
  LET read == Append(list, ps.node)
  IN  IF ~check(ps, ",") THEN Give(ps, Node("exprs", read))
      ELSE IF IsNull(ps.node) THEN Undefined(Give(ps, Node("exprs", read)))
      ELSE MoreExprs(expr(advance(ps)), read)

(* A slip in expr_list: nothing before a comma is an expression.             *)
expr_list_EmptyFirst(ps) ==
  MoreExprs(IF check(ps, ",") THEN Give(ps, NULL) ELSE expr(ps), << >>)

expr_list(ps) == MoreExprs(expr(ps), << >>)

(* indexing_expr, behind its first "[".                                     *)
MoreIndices(ps, indexed, list) ==
  LET index  == expr(ps)
      read   == Append(list, index.node)
      closed == eat_error(index, "]")
  IN  IF ~check(closed, "[") THEN Give(closed, Index(indexed, read))
      ELSE IF IsNull(index.node) THEN Undefined(Give(closed, Index(indexed, read)))
      ELSE MoreIndices(advance(closed), indexed, read)

indexing_expr(ps, indexed) == MoreIndices(ps, indexed, << >>)

vector_const(ps) ==
  LET elems  == expr_list(advance(ps))
      vector == Vec(elems.node.kids)
      closed == eat_error(elems, "]")
  IN  IF check(closed, "[") THEN indexing_expr(advance(closed), vector)
      ELSE Give(closed, vector)

grouping_expr(ps) == eat_error(expr(advance(ps)), ")")

(* conditional_expr, at its if or at an elsif.                              *)
Arms(ps, arms) ==
  LET c    == expr(advance(ps))
      e    == expr(eat_error(c, "then"))
      read == Append(arms, Node("cas", << c.node, e.node >>))
      last == expr(eat_error(e, "else"))
  IN  IF check(e, "elsif") THEN Arms(e, read)
      ELSE Give(eat_error(last, "end"), Node("condexpr", Append(read, last.node)))

conditional_expr(ps) == Arms(ps, << >>)

(* A token that is no identifier leaves the one before it as the name.       *)
id_expr(ps) == LET e == eat_error(ps, "id") IN Give(e, Id(e.previous.text))

call_expr(ps, called) ==
  LET args == IF check(ps, ")") THEN Give(ps, Node("exprs", << >>)) ELSE expr_list(ps)
  IN  Give(eat_error(args, ")"), CallE(called, args.node.kids))

Postfix(ps) ==
  CASE check(ps, "(") -> Postfix(call_expr(advance(ps), ps.node))
    [] check(ps, "[") -> Postfix(indexing_expr(advance(ps), ps.node))
    [] OTHER          -> ps

dispatch_id_expr(ps) == Postfix(id_expr(ps))

(* A slip in term: nothing before a closing parenthesis is an expression.    *)
term_EmptyList(ps) ==
  CASE Current(ps) \in {"-", "!"} -> unary_expr(ps)
    [] check(ps, "(")             -> grouping_expr(ps)
    [] Current(ps) \in {"integerlit", "stringlit", "true", "false"} -> const_expr(ps)
    [] check(ps, "[")             -> vector_const(ps)
    [] check(ps, "if")            -> conditional_expr(ps)
    [] check(ps, "id")            -> dispatch_id_expr(ps)
    [] check(ps, ")")             -> Give(ps, NULL)
    [] OTHER                      -> Give(parse_error(ps), NULL)

term(ps) ==
  CASE Current(ps) \in {"-", "!"} -> unary_expr(ps)
    [] check(ps, "(")             -> grouping_expr(ps)
    [] Current(ps) \in {"integerlit", "stringlit", "true", "false"} -> const_expr(ps)
    [] check(ps, "[")             -> vector_const(ps)
    [] check(ps, "if")            -> conditional_expr(ps)
    [] check(ps, "id")            -> dispatch_id_expr(ps)
    [] OTHER                      -> Give(parse_error(ps), NULL)

(***************************************************************************)
(* Names and types.                                                        *)
(***************************************************************************)
RECURSIVE MoreIds(_, _), type_label(_), MoreQualified(_, _), MoreParams(_, _)

(* id_list_empty.                                                           *)
MoreIds(ps, ids) ==
  LET one == eat_error(ps, "id")
  IN  IF ~check(ps, "id") THEN Give(ps, ids)
      ELSE MoreIds(IF check(one, ",") THEN advance(one) ELSE one,
                   Append(ids, one.previous.text))

(* A slip in type_label: a token that begins no type is not taken.           *)
type_label_Stays(ps) ==
  LET past  == advance(ps)
      dim   == eat_error(eat_error(past, "["), "integerlit")
      elem  == type_label(eat_error(eat_error(dim, "]"), "of"))
  IN  CASE check(ps, "string")  -> Give(past, StrT)
        [] check(ps, "integer") -> Give(past, IntT)
        [] check(ps, "boolean") -> Give(past, BoolT)
        [] check(ps, "vector")  ->
             Give(elem, TypeLabel(elem.node.base, << dim.previous.num >> \o elem.node.dims))
        [] OTHER -> Give(parse_error(ps), VoidT)

(* The label is in node; the NULL of the default case is no label.          *)
type_label(ps) ==
  LET past  == advance(ps)
      dim   == eat_error(eat_error(past, "["), "integerlit")
      elem  == type_label(eat_error(eat_error(dim, "]"), "of"))
  IN  CASE check(ps, "string")  -> Give(past, StrT)
        [] check(ps, "integer") -> Give(past, IntT)
        [] check(ps, "boolean") -> Give(past, BoolT)
        [] check(ps, "vector")  ->
             Give(elem, TypeLabel(elem.node.base, << dim.previous.num >> \o elem.node.dims))
        [] OTHER -> Give(parse_error(past), VoidT)

(* ps.node is what stands before the colon.                                 *)
var_decl_stat_trial(ps) ==
  LET names == MoreIds(IF check(ps, ",") THEN advance(ps) ELSE ps, << ps.node.id >>)
      label == type_label(eat_error(names, ":"))
  IN  IF ps.node.kind # "id" THEN parse_error(ps)
      ELSE Give(label, Var(names.node, label.node))

var_decl(ps) == var_decl_stat_trial(id_expr(ps))

(* id_list_qualified: the names of a declaration and their qualifiers.       *)
MoreQualified(ps, ids) ==
  LET qualified == Current(ps) \in {"inout", "out"}
      one  == eat_error(IF qualified THEN advance(ps) ELSE ps, "id")
      read == Append(ids, [id |-> one.previous.text,
                           mod |-> IF qualified THEN Current(ps) ELSE "in"])
  IN  IF check(one, ",") THEN MoreQualified(advance(one), read) ELSE Give(one, read)

(* var_decl_qualified_list.                                                 *)
MoreParams(ps, params) ==
  LET ids   == MoreQualified(ps, << >>)
      label == type_label(eat_error(ids, ":"))
      read  == Append(params, Group(ids.node, label.node))
  IN  IF check(label, ",") THEN MoreParams(advance(label), read) ELSE Give(label, read)

var_decl_qualified_list_until(ps, rightdelim) ==
  IF check(ps, rightdelim) THEN Give(ps, << >>) ELSE MoreParams(ps, << >>)

(***************************************************************************)
(* Statements.                                                             *)
(***************************************************************************)
RECURSIVE stat(_), Statements(_, _, _), IfArms(_, _)

is_node_lhs(node) == node.kind \in {"id", "index"}

Statements(ps, ends, list) ==
  LET one  == stat(ps)
      sync == IF one.panic THEN synchronize(one) ELSE one
      next == Turned(ps, eat_error(sync, ";"))
  IN  IF Current(ps) \in ends \cup {"eof"} THEN Give(ps, List(list))
      ELSE Statements(next, ends, Append(list, one.node))

stat_list_until(ps, ends) == Statements(ps, ends, << >>)

while_stat(ps) ==
  LET c    == expr(advance(ps))
      body == stat_list_until(eat_error(c, "do"), {"end"})
  IN  Give(eat_error(body, "end"), Node("while", << c.node, body.node >>))

repeat_stat(ps) ==
  LET body == stat_list_until(advance(ps), {"until"})
      c    == expr(eat_error(body, "until"))
  IN  Give(c, Node("repeat", << body.node, c.node >>))

for_stat(ps) ==
  LET var   == id_expr(advance(ps))
      from  == expr(eat_error(var, "="))
      limit == expr(eat_error(from, "to"))
      body  == stat_list_until(eat_error(limit, "do"), {"end"})
  IN  Give(eat_error(body, "end"),
           Node("for", << Assign(var.node, from.node), limit.node, body.node >>))

(* write_stat and writeln_stat.                                             *)
write_stat(ps) ==
  LET list == expr_list(eat_error(advance(ps), "("))
  IN  Give(eat_error(list, ")"), Node(Current(ps), list.node.kids))

(* What the loop of read_stat looks at: the children of the first of the     *)
(* expressions, not the expressions.                                       *)
ReadTargets(list) ==
  CASE list[1].kind = "vector"   -> SelectSeq(list[1].kids, LAMBDA kid : ~IsNull(kid))
    [] list[1].kind = "condexpr" -> list[1].kids
    [] OTHER                     -> << >>

read_stat(ps) ==
  LET list    == expr_list(eat_error(advance(ps), "("))
      targets == ReadTargets(list.node.kids)
      checked == IF \A k \in DOMAIN targets : is_node_lhs(targets[k]) THEN list
                 ELSE parse_error(list)
  IN  Give(IF IsNull(list.node.kids[1]) THEN Undefined(list) ELSE eat_error(checked, ")"),
           ReadS(list.node.kids))

(* if_stat, at its if or at an elsif.                                       *)
IfArms(ps, arms) ==
  LET ends == {"elsif", "else", "end"}
      c    == expr(advance(ps))
      then == stat_list_until(eat_error(c, "then"), ends)
      read == Append(arms, Node("cas", << c.node, then.node >>))
      last == stat_list_until(advance(then), ends)
  IN  CASE check(then, "elsif") -> IfArms(then, read)
        [] check(then, "else")  -> Give(eat_error(last, "end"), Node("if", Append(read, last.node)))
        [] OTHER                -> Give(eat_error(then, "end"), Node("if", read))

if_stat(ps) == IfArms(ps, << >>)

assign_stat_trial(ps) ==
  LET past  == advance(ps)
      right == expr(past)
  IN  IF is_node_lhs(ps.node) THEN Give(right, Assign(ps.node, right.node))
      ELSE parse_error(past)

dispatch_id_stat(ps) ==
  LET e == expr(ps)
  IN  CASE check(e, "=")              -> assign_stat_trial(e)
        [] Current(e) \in {",", ":"} -> var_decl_stat_trial(e)
        [] OTHER                      -> Give(e, ExprS(e.node))

expr_stat(ps) == LET e == expr(ps) IN Give(e, ExprS(e.node))

stat(ps) ==
  CASE check(ps, "id")     -> dispatch_id_stat(ps)
    [] check(ps, "if")     -> if_stat(ps)
    [] check(ps, "while")  -> while_stat(ps)
    [] check(ps, "repeat") -> repeat_stat(ps)
    [] check(ps, "for")    -> for_stat(ps)
    [] Current(ps) \in {"write", "writeln"} -> write_stat(ps)
    [] check(ps, "read")   -> read_stat(ps)
    [] check(ps, "exit")   -> Give(advance(ps), Exit)
    [] check(ps, "break")  -> Give(advance(ps), Break)
    [] OTHER               -> expr_stat(ps)

(***************************************************************************)
(* Modules.                                                                *)
(***************************************************************************)
RECURSIVE module_decl_stat(_, _), VarBlock(_, _), ModuleBlock(_, _)

(* A slip in eat_module_name_error: the name is not compared.                *)
eat_module_name_error_AnyName(ps, name) ==
  IF check(ps, "id") THEN advance(ps) ELSE parse_error(ps)

(* The name is compared with a token that was never written when the text    *)
(* begins with neither program nor an identifier.                          *)
eat_module_name_error(ps, name) ==
  IF name.type = "never written" /\ (check(ps, "id") \/ ~ps.panic) THEN Undefined(ps)
  ELSE IF check(ps, "id") /\ ps.toks[ps.at].text = name.text THEN advance(ps)
  ELSE parse_error(ps)

VarBlock(ps, vars) ==
  LET one  == var_decl(ps)
      next == Turned(ps, eat_error(one, ";"))
      read == Append(vars, one.node)
  IN  IF Current(next) \in {"function", "procedure", "begin", "eof"} THEN Give(next, read)
      ELSE VarBlock(next, read)

function_or_procedure_decl(ps) ==
  IF check(ps, "function") THEN module_decl_stat(advance(ps), "function")
  ELSE module_decl_stat(eat_error(ps, "procedure"), "procedure")

ModuleBlock(ps, mods) ==
  LET one  == function_or_procedure_decl(ps)
      next == Turned(ps, eat_error(one, ";"))
      read == Append(mods, one.node)
  IN  IF Current(next) \in {"begin", "eof"} THEN Give(next, read)
      ELSE ModuleBlock(next, read)

function_decl_body_fn(ps) == LET e == expr(ps) IN Give(e, << ReturnS(<< e.node >>) >>)

procedure_decl_body_fn(ps) ==
  LET list == stat_list_until(ps, {"end"})
  IN  Give(list, Append(list.node.kids, ReturnS(<< >>)))

(* The parameters and, if there is one, the type of the result.             *)
Header(ps) ==
  LET open   == advance(ps)
      params == var_decl_qualified_list_until(open, ")")
      closed == eat_error(params, ")")
      ret    == type_label(advance(closed))
  IN  IF ~check(ps, "(") THEN Give(ps, << << >>, VoidT >>)
      ELSE IF open.error THEN Give(open, << << >>, VoidT >>)
      ELSE IF ~check(closed, ":") THEN Give(closed, << params.node, VoidT >>)
      ELSE Give(ret, << params.node, ret.node >>)

module_decl_stat(ps, kind) ==
  LET named  == id_expr(ps)
      name   == named.previous
      header == Header(named)
      vars   == IF header.error \/ Current(header) \in {"function", "procedure", "begin"}
                THEN Give(header, << >>) ELSE VarBlock(header, << >>)
      mods   == IF vars.error \/ check(vars, "begin")
                THEN Give(vars, << >>) ELSE ModuleBlock(vars, << >>)
      begun  == eat_module_name_error(eat_error(mods, "begin"), name)
      body   == IF kind = "function" THEN function_decl_body_fn(begun)
                ELSE procedure_decl_body_fn(begun)
  IN  Give(eat_module_name_error(eat_error(body, "end"), name),
           [kind |-> kind, name |-> name.text, params |-> header.node[1],
            ret |-> header.node[2], vars |-> vars.node, mods |-> mods.node,
            body |-> body.node])

program_decl_stat(ps) ==
  eat_error(module_decl_stat(eat_error(ps, "program"), "program"), ".")

(* The tree is kept only if no error was detected.                          *)
parse(toks) ==
  program_decl_stat(
    [toks |-> toks, at |-> 1, previous |-> Token("never written", "", 0), node |-> NULL,
     panic |-> FALSE, error |-> FALSE, undefined |-> "no", stuck |-> FALSE])

Accepted(ps) == ~ps.error /\ ps.undefined = "no" /\ ~ps.stuck
=============================================================================
