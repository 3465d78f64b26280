----------------------------- MODULE Semantics -----------------------------
(***************************************************************************)
(* Semantic analysis and code generation (semantics/semantics.c): a parse  *)
(* tree is turned into an image, or rejected.                              *)
(*                                                                         *)
(* A compilation state st holds fns, the bytecode objects begun so far     *)
(* (a nested struct bytecode is an index into fns), and env, the struct    *)
(* environment of the function being compiled, whose parent is the         *)
(* environment around it.  An emit_ operator maps a state to the state     *)
(* after the C function of that name; where the C function returns a       *)
(* struct semantic_type, that is left in st.type.  Line information and    *)
(* the wording of errors are left out; the pools that hold dimensions and  *)
(* argument types are folded into the types themselves.                    *)
(***************************************************************************)
EXTENDS Syntax

CONSTANTS
  MaxLocals,        \* MAX_LOCALS
  MaxConstants,     \* MAX_CONSTANTS
  MaxSkipLong,      \* MAX_SKIP_LONG
  MaxConditional,   \* MAX_CONDITIONAL_LEN
  MaxRank           \* MAX_VECTOR_DIMENSIONS

-----------------------------------------------------------------------------
(* struct semantic_type.                                                   *)

semantic_type_scalar(id) ==
  [id |-> id, base |-> id, rank |-> 0, dims |-> << >>, size |-> 1,
   args |-> << >>, ret |-> << >>, mod |-> "in"]

IntType  == semantic_type_scalar(VAL_INTEGER)
BoolType == semantic_type_scalar(VAL_BOOLEAN)
StrType  == semantic_type_scalar(VAL_STRING)
semantic_type_void == semantic_type_scalar(VAL_VOID)

VectorType(base, dims, size) ==
  [semantic_type_scalar(VAL_VECTOR) EXCEPT
     !.base = base, !.rank = Len(dims), !.dims = dims, !.size = size]

IsOut(type) == type.mod \in {"out", "inout"}    \* ARG_MOD_OUT is set
IsIn(type)  == type.mod \in {"in", "inout"}     \* ARG_MOD_IN is set

RECURSIVE semantic_type_equal(_, _)
semantic_type_equal(a, b) ==
  /\ a.id = b.id
  /\ a.id = VAL_VECTOR =>
       a.base = b.base /\ a.rank = b.rank /\ a.dims = b.dims
  /\ a.id = VAL_FUNCTION =>
       /\ a.rank = b.rank
       /\ \A k \in 1 .. a.rank : semantic_type_equal(a.args[k], b.args[k])

semantic_types_comparable(a, b) ==
  a.id = b.id /\ a.id \in {VAL_STRING, VAL_INTEGER}

Product(dims) ==
  LET p[k \in 0 .. Len(dims)] == IF k = 0 THEN 1 ELSE p[k - 1] * dims[k]
  IN  p[Len(dims)]

SumOf(dims) ==
  LET p[k \in 0 .. Len(dims)] == IF k = 0 THEN 0 ELSE p[k - 1] + dims[k]
  IN  p[Len(dims)]

(* type_node_to_type, vector_type_node_to_type: the type of a label, and    *)
(* whether the label is rejected (a dimension <= 0, an element count that   *)
(* does not fit an int, too many dimensions).                               *)
type_node_to_type(ty) ==
  IF ty.dims = << >> THEN semantic_type_scalar(ty.base)
  ELSE VectorType(ty.base, ty.dims, Product(ty.dims))

BadTypeLabel(ty) ==
  \/ \E k \in DOMAIN ty.dims : ty.dims[k] <= 0
  \/ ty.dims # << >> /\ Product(ty.dims) > IntMax
  \/ Len(ty.dims) > 1 /\ Len(ty.dims) >= MaxRank

-----------------------------------------------------------------------------
(* struct environment, struct bytecode.                                    *)

(* A bytecode object; arity, level, slots (what the frame holds when the    *)
(* body begins: 0 for a value, else the index of a function), their types   *)
(* and the type of the function are not part of the program.                *)
Bytecode0(arity, level) ==
  [code |-> << >>, constants |-> << >>, arity |-> arity, level |-> level,
   slots |-> << >>, types |-> << >>,
   type |-> [semantic_type_void EXCEPT !.ret = << semantic_type_void >>]]

NoParent == << >>

(* environment_init for the environment of the object with index fn.       *)
environment_init(parent, fn) ==
  [fn |-> fn, code |-> << >>, constants |-> << >>, locals |-> << >>,
   break_likes |-> << >>, depth |-> 0, loopdepth |-> 0, error |-> FALSE,
   panic |-> FALSE, parent |-> parent,
   index |-> IF parent = NoParent THEN 0 ELSE parent.index + 1]

semantic_error(st) ==
  IF st.env.panic THEN st
  ELSE [st EXCEPT !.env.error = TRUE, !.env.panic = TRUE]

ErrorIf(st, b) == IF b THEN semantic_error(st) ELSE st

Returns(st, type) == [st EXCEPT !.type = type]

CodeLen(st) == Len(st.env.code)

(* True of every state: at least the root object is begun.  TLC evaluates a *)
(* state where it is first used; the loops over statements and modules use  *)
(* it at every turn, or a long program would nest as deep as it is long.    *)
Begun(st) == st.fns # << >>

emit_bytes(st, bytes) == [st EXCEPT !.env.code = @ \o bytes]

(* A slip in emit_constant: a string or a number is kept only once.         *)
emit_constant_Shared(st, val) ==
  LET known   == {k \in DOMAIN st.env.constants :
                    val.t # "fn" /\ st.env.constants[k] = val}
      address == IF known = {} THEN Len(st.env.constants)
                 ELSE (CHOOSE k \in known : TRUE) - 1
      st1 == ErrorIf(st, address >= MaxConstants)
  IN  [emit_bytes(st1, << left_byte(address), right_byte(address) >>)
         EXCEPT !.env.constants = IF known = {} THEN Append(@, val) ELSE @]

emit_constant(st, val) ==
  LET address == Len(st.env.constants)
      st1 == ErrorIf(st, address >= MaxConstants)
  IN  [emit_bytes(st1, << left_byte(address), right_byte(address) >>)
         EXCEPT !.env.constants = Append(@, val)]

emit_load_integer(st, x) ==
  IF x <= 255 THEN emit_bytes(st, << OP_PUSH_BYTE, x % 256 >>)
  ELSE emit_constant(emit_bytes(st, << OP_LOCI_LONG >>), IntV(x))

(* emit_load_scalar_constant.                                              *)
emit_load_scalar_constant(st, type, val) ==
  CASE type = VAL_INTEGER  -> emit_load_integer(st, val.i)
    [] type = VAL_BOOLEAN  ->
         emit_bytes(st, << IF val.i # 0 THEN OP_TRUE ELSE OP_FALSE >>)
    [] type = VAL_VOID     -> emit_bytes(st, << OP_FALSE >>)
    [] type = VAL_STRING   ->
         emit_constant(emit_bytes(st, << OP_LOCS_LONG >>), val)
    [] type = VAL_FUNCTION ->
         emit_constant(emit_bytes(st, << OP_LOCF_LONG >>), val)

emit_popv(st, type) ==
  emit_bytes(st, << IF type.id = VAL_VECTOR THEN OP_POPA ELSE OP_POPV >>)

-----------------------------------------------------------------------------
(* Jumps.  A jump is emitted with operand 0 and patched when the code it    *)
(* skips is known; codelen is the length of the code after the jump.        *)

emit_unpatched_skip_long(st, op) == emit_bytes(st, << op, 0, 0 >>)

(* A slip in patch_skip_long: a jump as long as the limit is refused.        *)
patch_skip_long_OffByOne(st, codelen) ==
  LET jumplen == CodeLen(st) - codelen
  IN  IF st.env.error THEN st
      ELSE IF jumplen >= MaxSkipLong THEN semantic_error(st)
      ELSE [st EXCEPT !.env.code[codelen - 1] = left_byte(jumplen),
                      !.env.code[codelen]     = right_byte(jumplen)]

patch_skip_long(st, codelen) ==
  LET jumplen == CodeLen(st) - codelen
  IN  IF st.env.error THEN st
      ELSE IF jumplen > MaxSkipLong THEN semantic_error(st)
      ELSE [st EXCEPT !.env.code[codelen - 1] = left_byte(jumplen),
                      !.env.code[codelen]     = right_byte(jumplen)]

RECURSIVE patch_skips(_, _)
patch_skips(st, codelens) ==
  IF codelens = << >> THEN st
  ELSE patch_skips(patch_skip_long(st, Head(codelens)), Tail(codelens))

(* A slip in emit_skip_back_long: back to here, not to codelen.            *)
emit_skip_back_long_Here(st, codelen) ==
  IF st.env.error THEN st
  ELSE emit_bytes(st, << OP_SKIP_BACK_LONG, left_byte(3), right_byte(3) >>)

emit_skip_back_long(st, codelen) ==
  LET jumplen == CodeLen(st) + 3 - codelen
  IN  IF st.env.error THEN st
      ELSE IF jumplen > MaxSkipLong
      THEN semantic_error(emit_bytes(st, << OP_SKIP_BACK_LONG, 0, 0 >>))
      ELSE emit_bytes(st, << OP_SKIP_BACK_LONG,
                             left_byte(jumplen), right_byte(jumplen) >>)

push_loop(st) == [st EXCEPT !.env.loopdepth = @ + 1]

(* The breaks of the innermost loop are the last ones of the list.         *)
pop_loop(st) ==
  [st EXCEPT
     !.env.break_likes = SelectSeq(@, LAMBDA b : b.loopdepth # st.env.loopdepth),
     !.env.loopdepth = @ - 1]

(* A jump out of the loop, from wherever in its body: the locals declared   *)
(* since the loop began stay on the stack.                                  *)
emit_break(st) ==
  IF st.env.loopdepth = 0 THEN semantic_error(st)
  ELSE LET st1 == emit_unpatched_skip_long(st, OP_SKIP_LONG)
       IN  [st1 EXCEPT !.env.break_likes =
              Append(@, [codelen |-> CodeLen(st1),
                         loopdepth |-> st.env.loopdepth])]

patch_breaks(st) ==
  LET here == SelectSeq(st.env.break_likes,
                        LAMBDA b : b.loopdepth = st.env.loopdepth)
  IN  patch_skips(st, [k \in DOMAIN here |-> here[k].codelen])

-----------------------------------------------------------------------------
(* Locals and scopes.                                                      *)

emit_push_scope(st) == [st EXCEPT !.env.depth = @ + 1]

(* A slip in emit_pop_scope: the locals are forgotten, but not popped.     *)
emit_pop_scope_Keeps(st) ==
  [st EXCEPT !.env.locals = SelectSeq(@, LAMBDA l : l.depth # st.env.depth),
             !.env.depth = @ - 1]

RECURSIVE emit_pop_scope(_)
emit_pop_scope(st) ==
  LET locals == st.env.locals
      last   == locals[Len(locals)]
  IN  IF locals = << >> THEN [st EXCEPT !.env.depth = @ - 1]
      ELSE IF last.depth # st.env.depth THEN [st EXCEPT !.env.depth = @ - 1]
      ELSE emit_pop_scope([emit_popv(st, last.type)
                             EXCEPT !.env.locals = Front(locals)])

(* environment_local_search: the innermost local of that name, offset       *)
(* environments out.                                                        *)
RECURSIVE environment_local_search(_, _)
environment_local_search(env, name) ==
  LET named == {k \in DOMAIN env.locals : env.locals[k].name = name}
      last  == CHOOSE k \in named : \A m \in named : m <= k
  IN  IF named # {}
      THEN [found |-> TRUE, offset |-> 0, index |-> last - 1]
      ELSE IF env.parent = NoParent
      THEN [found |-> FALSE, offset |-> 0, index |-> 0]
      ELSE LET outer == environment_local_search(env.parent, name)
           IN  [outer EXCEPT !.offset = @ + 1]

RECURSIVE environment_local_get(_, _)
environment_local_get(env, pos) ==
  IF pos.offset = 0 THEN env.locals[pos.index + 1]
  ELSE environment_local_get(env.parent, [pos EXCEPT !.offset = @ - 1])

(* environment_local_search_check_write.                                   *)
Writable(env, pos) == pos.found /\ environment_local_get(env, pos).writable

(* declare_local_in_env: the state and whether the local was declared.     *)
declare_local_in_env(st, name, type, writable) ==
  LET env == st.env
      declared == \E k \in DOMAIN env.locals :
                    env.locals[k].name = name /\ env.locals[k].depth = env.depth
  IN  IF Len(env.locals) = MaxLocals \/ declared
      THEN [ok |-> FALSE, st |-> semantic_error(st)]
      ELSE [ok |-> TRUE,
            st |-> [st EXCEPT !.env.locals =
                      Append(@, [name |-> name, type |-> type,
                                 writable |-> writable, depth |-> env.depth])]]

LastLocal(st) ==
  [found |-> TRUE, offset |-> 0, index |-> Len(st.env.locals) - 1]

emit_variable_default(st, type) ==
  CASE type.id = VAL_BOOLEAN -> emit_bytes(st, << OP_FALSE >>)
    [] type.id = VAL_INTEGER -> emit_bytes(st, << OP_ZERO >>)
    [] type.id = VAL_STRING  -> emit_bytes(st, << OP_EMPTY_STRING >>)
    [] type.id = VAL_VECTOR  ->
         emit_constant(
           emit_bytes(emit_load_integer(st, type.size),
                      << OP_ASTACK_SHIFT_UP, OP_LOC_ALINK_LONG >>),
           VecV(0, type.size))
    [] type.id = VAL_VOID    -> emit_load_scalar_constant(st, VAL_VOID, value_void)
    [] OTHER                 -> st

emit_declare_local_default(st, name, type, writable) ==
  LET d == declare_local_in_env(st, name, type, writable)
  IN  IF d.ok THEN [d EXCEPT !.st = emit_variable_default(d.st, type)] ELSE d

(* emit_var_decl: stops at the first name that cannot be declared.         *)
RECURSIVE emit_var_decl(_, _, _)
emit_var_decl(st, ids, ty) ==
  IF ids = << >> THEN st
  ELSE LET d == emit_declare_local_default(ErrorIf(st, BadTypeLabel(ty)),
                  Head(ids), type_node_to_type(ty), TRUE)
       IN  IF d.ok THEN emit_var_decl(d.st, Tail(ids), ty) ELSE d.st

emit_op_local_long(st, op, pos) ==
  emit_bytes(st, << op, left_byte(pos.offset), right_byte(pos.offset),
                    left_byte(pos.index), right_byte(pos.index) >>)

(* A slip in emit_op_set_local: as many indices as dimensions, always.     *)
emit_op_set_local_AllIndices(st, pos, rhs_type) ==
  LET type == environment_local_get(st.env, pos).type
  IN  IF type.id = VAL_VECTOR
      THEN emit_bytes(emit_op_local_long(st, OP_SET_INDEX_LOCAL_LONG, pos),
                      << type.rank % 256, type.rank % 256 >>)
      ELSE emit_op_local_long(st, OP_SET_LOCAL_LONG, pos)

(* emit_op_set_local: rhs_type is the type of what is stored.              *)
emit_op_set_local(st, pos, rhs_type) ==
  LET type == environment_local_get(st.env, pos).type
  IN  IF type.id = VAL_VECTOR
      THEN emit_bytes(emit_op_local_long(st, OP_SET_INDEX_LOCAL_LONG, pos),
                      << (type.rank - rhs_type.rank) % 256, type.rank % 256 >>)
      ELSE emit_op_local_long(st, OP_SET_LOCAL_LONG, pos)

(* compute_indexed_semantic_type: the size of a subvector is the sum of its *)
(* dimensions.                                                              *)
compute_indexed_semantic_type(index_count, type) ==
  IF index_count = type.rank THEN semantic_type_scalar(type.base)
  ELSE LET dims == IF index_count > type.rank THEN << >>
                   ELSE SubSeq(type.dims, index_count + 1, type.rank)
       IN  [VectorType(type.base, dims, SumOf(dims)) EXCEPT
              !.rank = type.rank - index_count]

-----------------------------------------------------------------------------
(* Expressions.                                                            *)

RECURSIVE emit_expression(_, _)
RECURSIVE emit_vector_element(_, _), emit_vector_elements(_, _, _, _)
RECURSIVE emit_cond_chain(_, _, _, _), emit_indices(_, _)
RECURSIVE emit_arguments(_, _, _, _, _), emit_copy_out(_, _, _, _)

ArithmeticOp == [plus |-> OP_ADDI, minus |-> OP_SUBI, times |-> OP_MULI,
                 divide |-> OP_DIVI]

OrderingOp == [ge |-> OP_GRTEQ, gt |-> OP_GRT, le |-> OP_LEQ, lt |-> OP_LT]

(* A slip in emit_and: the left operand is not popped.                     *)
emit_and_KeepsLeft(st, node) ==
  LET left  == emit_expression(st, node.kids[1])
      skip  == emit_unpatched_skip_long(left, OP_SKIPF_LONG)
      right == emit_expression(skip, node.kids[2])
  IN  Returns(patch_skip_long(right, CodeLen(skip)), BoolType)

(* NODE_AND_EXPR and NODE_OR_EXPR: the right operand is skipped when the    *)
(* left one decides.                                                        *)
emit_and(st, node) ==
  LET left  == emit_expression(st, node.kids[1])
      skip  == emit_unpatched_skip_long(left, OP_SKIPF_LONG)
      right == emit_expression(emit_bytes(skip, << OP_POPV >>), node.kids[2])
      typed == ErrorIf(right, left.type.id # VAL_BOOLEAN
                              \/ right.type.id # VAL_BOOLEAN)
  IN  Returns(patch_skip_long(typed, CodeLen(skip)), BoolType)

emit_or(st, node) ==
  LET left  == emit_expression(st, node.kids[1])
      skip  == emit_unpatched_skip_long(
                 emit_bytes(left, << OP_SKIPF_LONG, 0, 3 >>), OP_SKIP_LONG)
      right == emit_expression(emit_bytes(skip, << OP_POPV >>), node.kids[2])
      typed == ErrorIf(right, left.type.id # VAL_BOOLEAN
                              \/ right.type.id # VAL_BOOLEAN)
  IN  Returns(patch_skip_long(typed, CodeLen(skip)), BoolType)

emit_not(st, node) ==
  LET e == emit_expression(st, node.kids[1])
  IN  Returns(emit_bytes(ErrorIf(e, e.type.id # VAL_BOOLEAN), << OP_NOT >>),
              BoolType)

emit_arithmetic(st, node) ==
  LET left  == emit_expression(st, node.kids[1])
      right == emit_expression(left, node.kids[2])
      typed == ErrorIf(right, left.type.id # VAL_INTEGER
                              \/ right.type.id # VAL_INTEGER)
  IN  Returns(emit_bytes(typed, << ArithmeticOp[node.kind] >>), IntType)

emit_neg(st, node) ==
  LET e == emit_expression(emit_bytes(st, << OP_ZERO >>), node.kids[1])
  IN  Returns(emit_bytes(ErrorIf(e, e.type.id # VAL_INTEGER), << OP_SUBI >>),
              IntType)

emit_equality(st, node) ==
  LET left  == emit_expression(st, node.kids[1])
      right == emit_expression(left, node.kids[2])
      void  == ErrorIf(right, VAL_VOID \in {left.type.id, right.type.id})
      typed == ErrorIf(void, ~semantic_type_equal(left.type, right.type))
      equa  == emit_bytes(typed, << OP_EQUA, left.type.id, left.type.base >>)
  IN  Returns(IF node.kind = "neq" THEN emit_bytes(equa, << OP_NOT >>) ELSE equa,
              BoolType)

emit_ordering(st, node) ==
  LET left  == emit_expression(st, node.kids[1])
      right == emit_expression(left, node.kids[2])
      typed == ErrorIf(right, ~semantic_types_comparable(left.type, right.type))
  IN  Returns(emit_bytes(typed, << OrderingOp[node.kind], left.type.id >>),
              BoolType)

RECURSIVE emit_load_dimensions(_, _)
emit_load_dimensions(st, dims) ==
  IF dims = << >> THEN st
  ELSE emit_load_dimensions(emit_load_integer(st, Head(dims)), Tail(dims))

(* emit_id_expr: a vector variable is pushed by reference, or copied to the *)
(* top of the array stack (emit_vector_variable_copy).                      *)
emit_id_expr(st, node, array_by_ref) ==
  LET pos   == environment_local_search(st.env, node.id)
      type  == environment_local_get(st.env, pos).type
      get   == emit_op_local_long(st, OP_GET_LOCAL_LONG, pos)
      dims  == emit_load_dimensions(get, type.dims)
  IN  IF ~pos.found THEN Returns(semantic_error(st), IntType)
      ELSE IF type.id # VAL_VECTOR \/ array_by_ref THEN Returns(get, type)
      ELSE Returns(emit_bytes(dims, << OP_GET_INDEX, 0, type.rank >>),
                   compute_indexed_semantic_type(0, type))

emit_called_expression(st, node) ==
  IF node.kind = "id" THEN emit_id_expr(st, node, FALSE)
  ELSE emit_expression(st, node)

(* The indices of an indexing node; stops at the first that is no integer. *)
emit_indices(st, indices) ==
  IF indices = << >> THEN st
  ELSE LET e == emit_expression(st, Head(indices))
       IN  IF e.type.id # VAL_INTEGER THEN semantic_error(e)
           ELSE emit_indices(e, Tail(indices))

(* emit_indexing_prelude: the indices, then the dimensions.                *)
emit_indexing_prelude(st, type, indices) ==
  LET st1 == emit_load_dimensions(emit_indices(st, indices), type.dims)
  IN  Returns(st1, compute_indexed_semantic_type(Len(indices), type))

IndicesOf(node) == IF node.kind = "index" THEN Tail(node.kids) ELSE << >>

emit_indexing_expression(st, node) ==
  LET indexed == emit_expression(st, node.kids[1])
      typed   == ErrorIf(indexed, indexed.type.id # VAL_VECTOR)
      prelude == emit_indexing_prelude(typed, indexed.type, IndicesOf(node))
      n       == indexed.type.rank - prelude.type.rank
  IN  emit_bytes(prelude, << OP_GET_INDEX, n % 256, indexed.type.rank % 256 >>)

emit_lhs_prelude(st, pos, lhs) ==
  LET type == environment_local_get(st.env, pos).type
  IN  IF type.id = VAL_VECTOR
      THEN emit_indexing_prelude(st, type, IndicesOf(lhs))
      ELSE Returns(st, type)

emit_set_local(st, lhs, pos) ==
  LET st1 == emit_lhs_prelude(st, pos, lhs)
  IN  emit_op_set_local(st1, pos, st1.type)

compute_lhs_type(st, lhs) ==
  LET pos  == environment_local_search(st.env, lhs_variable(lhs).id)
      type == environment_local_get(st.env, pos).type
  IN  IF type.id = VAL_VECTOR
      THEN compute_indexed_semantic_type(Len(IndicesOf(lhs)), type)
      ELSE type

(* emit_cond_expression: toend holds the jumps to the end, type0 the type   *)
(* of the first branch (<< >> before it is known).                          *)
emit_cond_chain(st, kids, toend, type0) ==
  IF Len(kids) = 1
  THEN LET last == emit_expression(st, kids[1])
       IN  IF type0.id # last.type.id THEN Returns(semantic_error(last), type0)
           ELSE Returns(patch_skips(last, Reverse(toend)), type0)
  ELSE
    LET cond  == emit_expression(st, kids[1].kids[1])
        skip  == emit_unpatched_skip_long(cond, OP_SKIPF_LONG)
        value == emit_expression(emit_bytes(skip, << OP_POPV >>),
                                 kids[1].kids[2])
        type1 == IF toend = << >> THEN value.type ELSE type0
        jump  == emit_unpatched_skip_long(value, OP_SKIP_LONG)
        next  == emit_bytes(patch_skip_long(jump, CodeLen(skip)), << OP_POPV >>)
    IN  IF cond.type.id # VAL_BOOLEAN THEN Returns(semantic_error(cond), type0)
        ELSE IF type1.id # value.type.id
        THEN Returns(semantic_error(value), type1)
        ELSE IF Len(toend) = MaxConditional
        THEN Returns(semantic_error(value), type1)
        ELSE emit_cond_chain(next, Tail(kids), Append(toend, CodeLen(jump)),
                             type1)

emit_cond_expression(st, node) ==
  emit_cond_chain(st, node.kids, << >>, IntType)

(* emit_vector_constant: the scalars of the literal go to the array stack   *)
(* in order.  Elements are scalar expressions or literals.                  *)
emit_vector_element(st, node) ==
  IF node.kind = "vector"
  THEN LET first == emit_vector_element(st, Head(node.kids))
       IN  emit_vector_elements(first, Tail(node.kids), first.type, 1)
  ELSE emit_bytes(emit_expression(st, node), << OP_POP_TO_ASTACK >>)

(* The remaining elements of a literal after the first n; type is the type  *)
(* of an element.  Stops at the first element of another type.              *)
emit_vector_elements(st, elements, type, n) ==
  LET literal == VectorType(type.base, << n >> \o type.dims, n * type.size)
      e       == emit_vector_element(st, Head(elements))
  IN  IF elements = << >> THEN Returns(st, literal)
      ELSE IF ~semantic_type_equal(type, e.type)
      THEN Returns(semantic_error(e), literal)
      ELSE emit_vector_elements(e, Tail(elements), type, n + 1)

emit_vector_constant(st, node) ==
  LET st1 == emit_vector_element(st, node)
      st2 == emit_constant(emit_bytes(st1, << OP_LOC_ALINK_LONG >>),
                           VecV(0, st1.type.size))
  IN  Returns(st2, st1.type)

(* The arguments from the k-th on.  lhsides collects, for every out and     *)
(* inout parameter, the argument to copy back; ok is FALSE where the C      *)
(* function returns early.                                                  *)
emit_arguments(st, fn_type, args, k, lhsides) ==
  IF args = << >> \/ k > fn_type.rank
  THEN [st |-> st, lhsides |-> lhsides, ok |-> TRUE,
        count |-> k - 1 + (IF args = << >> THEN 0 ELSE 1)]
  ELSE
    LET param == fn_type.args[k]
        arg   == Head(args)
        var   == lhs_variable(arg)
        pos   == environment_local_search(st.env, var.id)
        st1   == ErrorIf(st, IsOut(param) /\ var.kind # "id")
        st2   == IF IsIn(param) THEN st1
                 ELSE emit_set_local(
                        emit_variable_default(st1, compute_lhs_type(st1, arg)),
                        arg, pos)
        e     == emit_called_expression(st2, arg)
    IN  IF ~IsIn(param) /\ ~Writable(st.env, pos)
        THEN [st |-> semantic_error(st1), lhsides |-> lhsides, ok |-> TRUE,
              count |-> k]
        ELSE IF ~semantic_type_equal(param, e.type)
        THEN [st |-> semantic_error(e), lhsides |-> lhsides, ok |-> FALSE,
              count |-> k]
        ELSE emit_arguments(e, fn_type, Tail(args), k + 1,
               Append(lhsides, IF IsOut(param) THEN << arg >> ELSE << >>))

(* After the call: the out and inout arguments, in order.  The k-th         *)
(* parameter is the next one.                                               *)
emit_copy_out(st, fn_type, lhsides, k) ==
  IF ~Begun(st) \/ k > Len(lhsides) THEN st
  ELSE IF lhsides[k] = << >> THEN emit_copy_out(st, fn_type, lhsides, k + 1)
  ELSE
    LET lhs == lhsides[k][1]
        pos == environment_local_search(st.env, lhs_variable(lhs).id)
        st1 == emit_set_local(emit_bytes(st, << OP_ARGSTACK_PEEK >>), lhs, pos)
        vec == IF fn_type.args[k].id = VAL_VECTOR THEN 1 ELSE 0
    IN  IF ~Writable(st.env, pos) THEN semantic_error(st)
        ELSE emit_copy_out(emit_bytes(st1, << OP_ARGSTACK_UNLOAD, vec >>),
                           fn_type, lhsides, k + 1)

emit_module_call(st, node) ==
  LET called == emit_expression(st, node.kids[1])
      type   == called.type
      args   == emit_arguments(called, type, Tail(node.kids), 1, << >>)
      call   == emit_bytes(args.st, << OP_CALL, type.rank >>)
  IN  IF type.id # VAL_FUNCTION THEN Returns(semantic_error(called), IntType)
      ELSE IF ~args.ok THEN Returns(args.st, IntType)
      ELSE IF args.count # type.rank THEN Returns(semantic_error(args.st), IntType)
      ELSE Returns(emit_copy_out(call, type, args.lhsides, 1), type.ret[1])

emit_expression(st, node) ==
  CASE node.kind = "and"    -> emit_and(st, node)
    [] node.kind = "or"     -> emit_or(st, node)
    [] node.kind = "not"    -> emit_not(st, node)
    [] node.kind \in DOMAIN ArithmeticOp -> emit_arithmetic(st, node)
    [] node.kind = "neg"    -> emit_neg(st, node)
    [] node.kind \in {"eq", "neq"} -> emit_equality(st, node)
    [] node.kind \in DOMAIN OrderingOp -> emit_ordering(st, node)
    [] node.kind = "condexpr" -> emit_cond_expression(st, node)
    [] node.kind = "bool"   -> Returns(
         emit_load_scalar_constant(st, VAL_BOOLEAN, IntV(node.val)), BoolType)
    [] node.kind = "int"    -> Returns(
         emit_load_scalar_constant(ErrorIf(st, node.val > IntMax), VAL_INTEGER,
                                   IntV(node.val)), IntType)
    [] node.kind = "str"    -> Returns(
         emit_load_scalar_constant(st, VAL_STRING, StrV(node.val)), StrType)
    [] node.kind = "vector" -> emit_vector_constant(st, node)
    [] node.kind = "id"     -> emit_id_expr(st, node, TRUE)
    [] node.kind = "index"  -> emit_indexing_expression(st, node)
    [] node.kind = "call"   -> emit_module_call(st, node)
    [] OTHER -> Returns(semantic_error(st), IntType)

-----------------------------------------------------------------------------
(* Statements.                                                             *)

RECURSIVE emit_statement(_, _), emit_statements(_, _)
RECURSIVE emit_if_chain(_, _, _), emit_writes(_, _, _), emit_reads(_, _, _)

emit_statements(st, stats) ==
  IF ~Begun(st) \/ stats = << >> THEN st
  ELSE emit_statements(emit_statement(st, Head(stats)), Tail(stats))

(* NODE_STAT_LIST.                                                         *)
emit_list(st, node) ==
  emit_pop_scope(emit_statements(emit_push_scope(st), node.kids))

(* NODE_WRITE_STAT: each value is followed by its type and base type.      *)
emit_writes(st, exprs, count) ==
  LET e == emit_expression(st, Head(exprs))
  IN  IF exprs = << >> THEN emit_bytes(st, << OP_WRITE, count >>)
      ELSE IF count = MaxArity
      THEN emit_bytes(semantic_error(st), << OP_WRITE, count >>)
      ELSE IF e.type.id = VAL_VOID
      THEN emit_bytes(semantic_error(e), << OP_WRITE, count >>)
      ELSE emit_writes(emit_bytes(e, << OP_PUSH_BYTE, e.type.id,
                                        OP_PUSH_BYTE, e.type.base >>),
                       Tail(exprs), count + 1)

emit_write(st, node) ==
  LET st1 == emit_writes(st, node.kids, 0)
  IN  IF node.kind = "writeln" THEN emit_bytes(st1, << OP_NEWLINE >>) ELSE st1

(* NODE_READ_STAT.                                                         *)
emit_reads(st, lhss, count) ==
  LET lhs  == Head(lhss)
      pos  == environment_local_search(st.env, lhs_variable(lhs).id)
      type == compute_lhs_type(st, lhs)
  IN  IF lhss = << >> THEN st
      ELSE IF count = MaxArity \/ ~Writable(st.env, pos) THEN semantic_error(st)
      ELSE IF type.id = VAL_VECTOR THEN semantic_error(st)
      ELSE emit_reads(emit_set_local(emit_bytes(st, << OP_READ, type.id >>),
                                     lhs, pos),
                      Tail(lhss), count + 1)

emit_assign_statement(st, node) ==
  LET lhs   == node.kids[1]
      pos   == environment_local_search(st.env, lhs_variable(lhs).id)
      right == emit_expression(st, node.kids[2])
      left  == emit_lhs_prelude(right, pos, lhs)
      typed == ErrorIf(left, ~semantic_type_equal(left.type, right.type))
  IN  IF ~Writable(st.env, pos) THEN semantic_error(st)
      ELSE emit_op_set_local(typed, pos, right.type)

(* emit_if_statement: toend holds the jumps over the remaining branches.   *)
emit_if_chain(st, kids, toend) ==
  IF kids = << >> THEN patch_skips(st, Reverse(toend))
  ELSE IF Head(kids).kind # "cas"
  THEN patch_skips(emit_statement(st, Head(kids)), Reverse(toend))
  ELSE
    LET cond == emit_expression(st, Head(kids).kids[1])
        skip == emit_unpatched_skip_long(cond, OP_SKIPF_LONG)
        body == emit_statement(emit_bytes(skip, << OP_POPV >>),
                               Head(kids).kids[2])
        jump == emit_unpatched_skip_long(body, OP_SKIP_LONG)
        next == emit_bytes(patch_skip_long(jump, CodeLen(skip)), << OP_POPV >>)
    IN  IF cond.type.id # VAL_BOOLEAN THEN semantic_error(cond)
        ELSE IF Len(toend) = MaxConditional THEN semantic_error(body)
        ELSE emit_if_chain(next, Tail(kids), Append(toend, CodeLen(jump)))

emit_while_statement(st, node) ==
  LET st0  == push_loop(st)
      cond == emit_expression(st0, node.kids[1])
      skip == emit_unpatched_skip_long(cond, OP_SKIPF_LONG)
      body == emit_statement(emit_bytes(skip, << OP_POPV >>), node.kids[2])
      back == emit_skip_back_long(body, CodeLen(st0))
      out  == emit_bytes(patch_skip_long(back, CodeLen(skip)), << OP_POPV >>)
  IN  IF cond.type.id # VAL_BOOLEAN THEN semantic_error(cond)
      ELSE pop_loop(patch_breaks(out))

(* The loop is left when the condition is false, and nothing pops it.      *)
emit_repeat_statement(st, node) ==
  LET st0  == push_loop(st)
      body == emit_statement(st0, node.kids[1])
      cond == emit_expression(body, node.kids[2])
      back == emit_skip_back_long(emit_bytes(cond, << OP_SKIPF_LONG, 0, 3 >>),
                                  CodeLen(st0))
  IN  IF cond.type.id # VAL_BOOLEAN THEN semantic_error(cond)
      ELSE pop_loop(patch_breaks(back))

(* The loop variable, which the body cannot assign, and a hidden local that *)
(* holds the upper limit.                                                   *)
emit_for_statement(st, node) ==
  LET int     == IntType
      assign  == node.kids[1]
      st0     == emit_push_scope(push_loop(st))
      inc     == emit_declare_local_default(st0, assign.kids[1].id, int, TRUE).st
      incpos  == LastLocal(inc)
      init    == emit_assign_statement(inc, assign)
      locked  == [init EXCEPT
                    !.env.locals[Len(init.env.locals)].writable = FALSE]
      cond    == emit_declare_local_default(locked, "0forcond", int, FALSE).st
      condpos == LastLocal(cond)
      limit   == emit_expression(cond, node.kids[2])
      start   == emit_op_set_local(limit, condpos, int)
      test    == emit_bytes(
                   emit_op_local_long(
                     emit_op_local_long(start, OP_GET_LOCAL_LONG, incpos),
                     OP_GET_LOCAL_LONG, condpos),
                   << OP_LEQ, VAL_INTEGER >>)
      skip    == emit_unpatched_skip_long(test, OP_SKIPF_LONG)
      body    == emit_statement(emit_bytes(skip, << OP_POPV >>), node.kids[3])
      step    == emit_op_set_local(
                   emit_bytes(emit_op_local_long(body, OP_GET_LOCAL_LONG, incpos),
                              << OP_ONE, OP_ADDI >>),
                   incpos, int)
      back    == emit_skip_back_long(step, CodeLen(start))
      out     == emit_bytes(patch_skip_long(back, CodeLen(skip)), << OP_POPV >>)
  IN  IF limit.type.id # VAL_INTEGER THEN semantic_error(limit)
      ELSE pop_loop(emit_pop_scope(patch_breaks(out)))

(* Every statement ends the suppression of messages after an error.        *)
emit_statement(st, node) ==
  LET done ==
    CASE node.kind = "list"  -> emit_list(st, node)
      [] node.kind = "var"   -> emit_var_decl(st, node.ids, node.ty)
      [] node.kind \in {"write", "writeln"} -> emit_write(st, node)
      [] node.kind = "read"  -> emit_reads(st, node.kids, 0)
      [] node.kind = "assign" -> emit_assign_statement(st, node)
      [] node.kind = "if"    -> emit_if_chain(st, node.kids, << >>)
      [] node.kind = "while" -> emit_while_statement(st, node)
      [] node.kind = "repeat" -> emit_repeat_statement(st, node)
      [] node.kind = "for"   -> emit_for_statement(st, node)
      [] node.kind = "expr"  ->
           LET e == emit_expression(st, node.kids[1]) IN emit_popv(e, e.type)
      [] node.kind = "exit"  -> emit_bytes(st, << OP_HALT >>)
      [] node.kind = "break" -> emit_break(st)
      [] OTHER -> semantic_error(st)
  IN [done EXCEPT !.env.panic = FALSE]

-----------------------------------------------------------------------------
(* Functions, procedures, the program.                                     *)

RECURSIVE patch_module_declaration(_, _, _), patch_module_declarations(_, _, _)

(* build_function_semantic_type.                                           *)
build_function_semantic_type(decl) ==
  [semantic_type_scalar(VAL_FUNCTION) EXCEPT
     !.rank = Len(decl.params),
     !.args = [k \in DOMAIN decl.params |->
                 [type_node_to_type(decl.params[k].ty)
                    EXCEPT !.mod = decl.params[k].mod]],
     !.ret = << type_node_to_type(decl.ret) >>]

BadSignature(decl) ==
  \/ Len(decl.params) > MaxArity
  \/ BadTypeLabel(decl.ret)
  \/ \E k \in DOMAIN decl.params : BadTypeLabel(decl.params[k].ty)

(* forward_declare_function: the constant's bytecode is patched later.     *)
forward_declare_function(st, decl) ==
  LET d == declare_local_in_env(ErrorIf(st, BadSignature(decl)), decl.name,
                                build_function_semantic_type(decl), FALSE)
  IN  emit_load_scalar_constant(d.st, VAL_FUNCTION, FnV(0, st.env.index + 1))

(* The checks of patch_procedure_declaration, patch_function_declaration    *)
(* and emit_program_declaration.                                            *)
BadDeclaration(decl) ==
  CASE decl.kind = "program"   -> decl.params # << >> \/ decl.ret # VoidT
    [] decl.kind = "procedure" -> decl.ret # VoidT
    [] decl.kind = "function"  ->
         \/ decl.ret = VoidT \/ decl.vars # << >> \/ decl.mods # << >>
         \/ \E k \in DOMAIN decl.params : decl.params[k].mod # "in"

(* The out and inout parameters go to the argument stack, the k-th and then *)
(* the ones before it.                                                      *)
RECURSIVE emit_argstack_loads(_, _, _)

emit_argstack_loads(st, params, k) ==
  IF k = 0 THEN st
  ELSE LET vec == IF params[k].id = VAL_VECTOR THEN 1 ELSE 0
       IN  emit_argstack_loads(
             IF IsOut(params[k])
             THEN emit_bytes(st, << OP_ARGSTACK_LOAD, k - 1, vec >>) ELSE st,
             params, k - 1)

(* A slip in emit_return: a returned vector stays where the function has    *)
(* built it.                                                                *)
emit_return_NotMoved(st, node, decl) ==
  LET fn_type == build_function_semantic_type(decl)
      value   == IF decl.ret = VoidT
                 THEN Returns(emit_load_scalar_constant(st, VAL_VOID, value_void),
                              semantic_type_void)
                 ELSE emit_expression(st, node.kids[1])
      loaded  == emit_argstack_loads(value, fn_type.args, fn_type.rank)
  IN  emit_bytes(loaded, << OP_RETURN, fn_type.rank >>)

(* The return of a body: the value, the out and inout parameters, a         *)
(* returned vector moved down.                                              *)
emit_return(st, node, decl) ==
  LET fn_type == build_function_semantic_type(decl)
      arity   == fn_type.rank
      value   == IF decl.ret = VoidT
                 THEN Returns(emit_load_scalar_constant(st, VAL_VOID, value_void),
                              semantic_type_void)
                 ELSE emit_expression(st, node.kids[1])
      loaded  == emit_argstack_loads(value, fn_type.args, arity)
      moved   == IF fn_type.ret[1].id = VAL_VECTOR
                 THEN emit_bytes(loaded, << OP_SHIFT_ASTACKENT_TO_BASE >>)
                 ELSE loaded
  IN  IF ~semantic_type_equal(fn_type.ret[1], value.type)
      THEN semantic_error(value)
      ELSE emit_bytes(moved, << OP_RETURN, arity >>)

RECURSIVE emit_body(_, _, _)
emit_body(st, stats, decl) ==
  IF ~Begun(st) \/ stats = << >> THEN st
  ELSE emit_body(IF Head(stats).kind = "return"
                 THEN emit_return(st, Head(stats), decl)
                 ELSE emit_statement(st, Head(stats)),
                 Tail(stats), decl)

RECURSIVE declare_parameters(_, _)
declare_parameters(st, params) ==
  IF params = << >> THEN st
  ELSE LET p == Head(params)
       IN  declare_parameters(
             declare_local_in_env(ErrorIf(st, BadTypeLabel(p.ty)), p.id,
                                  type_node_to_type(p.ty), TRUE).st,
             Tail(params))

RECURSIVE emit_var_decls(_, _)
emit_var_decls(st, vars) ==
  IF vars = << >> THEN st
  ELSE emit_var_decls(emit_var_decl(st, Head(vars).ids, Head(vars).ty),
                      Tail(vars))

RECURSIVE forward_declare_functions(_, _)
forward_declare_functions(st, mods) ==
  IF mods = << >> THEN st
  ELSE forward_declare_functions(forward_declare_function(st, Head(mods)),
                                 Tail(mods))

(* The function constants of mods are at addr and after.                    *)
patch_module_declarations(st, mods, addr) ==
  IF ~Begun(st) \/ mods = << >> THEN st
  ELSE patch_module_declarations(
         IF BadDeclaration(Head(mods)) THEN semantic_error(st)
         ELSE patch_module_declaration(st, Head(mods), addr),
         Tail(mods), addr + 1)

(* patch_module_declaration: the body of decl is compiled in an environment *)
(* of its own and becomes the bytecode of the function constant addr of the *)
(* environment around it.  A new bytecode object is appended to fns first.  *)
patch_module_declaration(st, decl, addr) ==
  LET id     == Len(st.fns) + 1
      level  == st.env.index + 1
      sub0   == [st EXCEPT !.fns = Append(@, Bytecode0(Len(decl.params), level)),
                           !.env = environment_init(st.env, id)]
      params == declare_parameters(sub0, decl.params)
      vars   == emit_var_decls(params, decl.vars)
      fwd    == forward_declare_functions(vars, decl.mods)
      first  == Len(vars.env.constants)
      mods   == patch_module_declarations(fwd, decl.mods, first + 1)
      values == Len(mods.env.locals) - Len(decl.mods)
      slots  == [k \in DOMAIN mods.env.locals |->
                   IF k <= values THEN 0
                   ELSE mods.env.constants[first + k - values].i]
      body   == emit_body(mods, decl.body, decl)
  IN  [body EXCEPT
         !.fns[id].slots = slots,
         !.fns[id].types = [k \in DOMAIN slots |-> mods.env.locals[k].type],
         !.fns[id].type = build_function_semantic_type(decl),
         !.fns[id].code = body.env.code,
         !.fns[id].constants = body.env.constants,
         !.env = [st.env EXCEPT
                    !.error = @ \/ body.env.error,
                    !.panic = @ \/ body.env.panic,
                    !.constants[addr] = FnV(id, level)]]

(* generate_bytecode: [ok, fns]; the root object calls the program and      *)
(* halts.                                                                   *)
generate_bytecode(program) ==
  LET st0  == [fns |-> << Bytecode0(0, 0) >>, type |-> IntType,
               env |-> environment_init(NoParent, 1)]
      fwd  == forward_declare_function(st0, program)
      main == emit_bytes(patch_module_declaration(fwd, program, 1),
                         << OP_CALL, 0 >>)
      done == IF BadDeclaration(program) THEN semantic_error(st0) ELSE main
      halt == emit_bytes(done, << OP_HALT >>)
  IN  [ok  |-> ~done.env.error,
       fns |-> [halt.fns EXCEPT ![1].code = halt.env.code,
                                ![1].constants = halt.env.constants]]
=============================================================================
