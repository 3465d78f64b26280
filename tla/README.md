# Yala in TLA+

Yala (`README.md:3`) is "a statically typed, virtual machine based programming
language": a compiler of about 2300 lines of C that turns a source into
bytecode in one pass, and a stack machine of 550 lines that runs it. This
directory states what the two promise each other and what they promise the
programmer, checks it with TLC on families of small programs, and proves what
holds of every image the machine may be given, every text the lexer may read,
every object that may be serialized, every vector label and every list of
arguments.

Yala is one thread; only `compile` and `execute` are two processes, with a file
between them. What is hard to test is less interleaving than *agreement across
distance*: the machine checks nothing but the upper end of two of its stacks, so
that no cell is popped twice, no variable is looked for in the wrong frame, no
string is taken for an integer, and no vector is overwritten while it is in use,
rests on what the compiler emitted many instructions earlier. The same holds of
the serialized form, which says nothing of what the reader has to guess, and of
the parser, which goes on after an error with trees that have holes. A test shows
that one program prints the right thing; it does not show that the stack is where
the compiler believes it to be.

## The system

| part | source | state | operations |
| --- | --- | --- | --- |
| Command line | `yala.c` | none beyond a run: options, files | `run`, `compile`, `execute`, each with its flags |
| Lexer | `frontend/lexer.c` | position in the source, line | `next_token` |
| Parser | `frontend/parser.c`, `frontend.h` | current token, error and panic flags | one function per production, a tree of nodes out |
| Semantic analysis and code generation | `semantics/semantics.c`, `semantics.h` | a chain of `struct environment`, one per function: its locals with depth, type and permissions, its open breaks, its bytecode with constants, an error and a panic flag, pools for dimensions and parameter types | one `emit_` function per kind of node |
| Values and types | `semantics/value.c`, `value.h` | none; growing arrays (`LIST_DECLARE`) and untagged `union value` | constructors, comparison, printing, `index_flattened`, overflow tests |
| Virtual machine | `vm/vm.c`, `vm.h` | `stack`, `astack` (vectors), `framestack`, `argstack` (values leaving a call) and indices into them | `vm_run`: one turn of its loop per opcode |
| Serialization | `serialization/` | bytecode as text, being written or read | `serialize`, `deserialize` |
| Tests and build | `test/`, `Makefile` | none | programs with `# expect:` comments and no runner |

How they interact. The parser hands the compiler a tree; the compiler hands the
machine a root `struct bytecode` that holds one function, the program, and calls
it. Bytecode objects form a tree through their constants. At run time the two
share three conventions and no data structure:

* **slots.** A local is `(offset, slot)`: `offset` function levels outward,
  `slot` cells above the base of that frame. The compiler counts pushes and pops
  to know the slots (`semantics.c:279`, `:341`, `:398`); the machine adds.
* **vectors.** A vector on the value stack is `(astackent, size)`, a reference
  into `astack`. The compiler knows from the type whether an expression leaves
  cells there and emits `OP_POPA` or a shift.
* **calls.** Arguments are on the caller's stack, below the new frame's top, and
  become its first locals. Out arguments leave through `argstack`, and their
  vectors through the far end of `astack`.

What must be right, part by part (the list `hazards` of `PROJECT.json` gives the
line of each):

* machine: indices stay in their arrays; frames do not overlap; the function a
  call finds is a function; a limit that is met ends the program with an error
  before anything else is wrong;
* code generation: each construct leaves the stack as it promises on every
  path; jumps reach the instruction they mean; every operand fits its bytes;
  offset, slot and constant address name the right thing; arguments are copied
  in and out in an order the source understands;
* both: the program prints, reads and ends as the source says; loops end;
* values: comparison, arithmetic and indexing at their boundaries;
* serialization: what is read back is what was written, of a file that was cut
  off nothing else comes, and a whole one is accepted;
* parser: a program is read as it was written, after an error no tree is
  compiled, no text is accepted in part, recovery ends;
* lexer: no character is dropped, tokens are as long as they can be, positions in
  messages are right;
* command line: a call that fails leaves files alone, one that succeeds has
  written what it says.

## The modules

```
Bytecode ── Values ──────── YalaVM ──────────────┐
    │          ├─ TypeLabels                     │
    │          └─ Syntax ─┬─ Semantics           │
    │                     ├─ Reference ─ Language│
    │                     └─ Grammar ─ Parser ─┬─ Edits
    │                                          └─ Frontend (Parser, Lexer)
    └───── Verifier ─┬─── StackDiscipline (YalaVM, Verifier; Activations as INSTANCE)
                     └─── Shapes (Semantics) ─ CompilerLimits
Yala          = StackDiscipline + Reference + Shapes, with Language as INSTANCE
ImageFormat   ─ Serialization
Toolchain     = Yala + Serialization
CommandLine   on its own
```

Families of programs: `ControlFamily`, `ProcedureFamily`, `VectorFamily` (put
together by `MCPrograms`), `WrittenFamily` (`MCParser`, `MCFrontend`); `Families`
has what they share. `MCToolchain`, `MCLimits`, `MCCompilerLimits`, `MCTypeLabels`,
`MCCommandLine` and `MCDefects` hold theirs; `MCAnyCode` needs no program.

Proofs. `Induction` has induction over the natural numbers in a form that can be
cited. `YalaVM_proofs` extends `YalaVM` and `Induction`, `StackDiscipline_proofs`
extends `StackDiscipline` and `YalaVM_proofs`, and `ArrayDiscipline_proofs` extends
that. `TypeLabels_proofs` and `Lexer_proofs` extend their component and `Induction`,
`Serialization_proofs` and `CommandLine_proofs` their component and `TLAPS`.

| module | models | how it corresponds |
| --- | --- | --- |
| `Bytecode` | `semantics.h` opcodes, operand layout | an opcode is its number in `enum opcode`; `OperandBytes` is `advance_ip`'s count per opcode |
| `Values` | `value.h`, `value.c` | a cell is `[t, i, n]`. `t` is a ghost that no action of the machine reads: it says which member of `union value` was last written, and lets properties say that the right one is read. Integers are `IntMin .. IntMax` and wrap; strings are members of the constant `Strings` |
| `YalaVM` | `vm.c` | variables are the arrays and indices of `struct vm`, plus what was printed and read and how the loop ended; one action per case of `vm_run`'s switch (`LoadConstant` stands for the three cases that share a body), each with every early return |
| `Syntax` | the trees `frontend/parser.c` builds | parse trees as records with constructors; a name is a string, which is never taken apart |
| `Semantics` | `semantics.c` | a compilation state `[fns, env, ...]`; every `emit_` function is an operator from states to states that keeps the C name, order of effects and error exits. A jump is emitted with a hole and patched, as in the code |
| `CompilerLimits` | the compiler under each value of `MAX_SKIP_LONG`, the number of constants and of branches | a program is compiled again and again, one limit raised by one each time |
| `TypeLabels` | `vector_type_node_to_type`, `is_mult_overflow`, `is_add_overflow` | a step per digit, a step per call that returns; `Semantics` has the outcome in one operator, and the run compares them |
| `Lexer` | `lexer.c` | the text, the position in it and the tokens so far; an action per kind of token, of space and of comment |
| `Grammar` | (specification) | how a program is written down, from the levels of operators and nothing else of the parser |
| `Parser` | `parser.c` | every function of the descent is an operator on the parser: tokens, place, panic, error, the node it returns, `undefined` where the code follows a NULL pointer and `stuck` where a loop turns without taking a token |
| `Edits` | (environment) | somebody writes a program down and changes tokens |
| `Frontend` | `parse` with `next_token` | text in, tree out |
| `ImageFormat`, `Serialization` | `serialization.c` | writer and reader with their recursion as explicit stacks, one action per line of the file; `Crash` cuts the file off anywhere |
| `Toolchain` | `yala.c` `compile`, then `execute` | compiler, writer, file, reader and machine, one after the other |
| `CommandLine` | `yala.c` `main` | arguments, options, files and exit status; an action per function `main` calls |
| `Verifier` | (specification) | what an image must satisfy so that the machine's lack of checks is harmless: per reached instruction a *shape*, the height of the frame and which cells hold which function, that agrees with every instruction. And what it must satisfy so that vectors are safe (`ArraysWellFormed`): per reached instruction a *view*, which of the frame's values are vectors and where their cells lie, that agrees with every instruction as well |
| `Shapes` | (computes shapes and views) | follows the code of an image; TLC only. The code generator's types give the kinds of parameters, variables and results, everything else is found |
| `StackDiscipline` | (specification) | the invariant a well-formed image keeps at run time, and what is meant by a vector that is live |
| `Activations` | (specification) | calls without a stack: each activation has a function and values of its own. `Enter` hands the topmost values over, `Leave` puts the result where the function was, `Work` and `Assign` are all that an instruction may do in between |
| `Reference`, `Language` | (specification) | the meaning of a source without bytecode or stacks, and the abstract state machine "prints, reads, ends as that meaning says" |
| `Yala` | `yala.c` `run` | composes compiler and machine and states what they promise together |

`status` of `YalaVM` says how `vm_run` goes on: `run`; `error` after
`runtime_error` (in the code the rest of the handler still takes effect, and
does here); `halt`; `abort` for `exit(100)` and for the signal that a division
with an unrepresentable quotient raises; `wild` once a handler has read or
written outside the array it means to use. Nothing is promised after `wild`,
which is why properties say that it is not reached, or what holds until it is.

In `Serialization` `torn` is the kind of the line that a crash cut in two;
`phase` goes from `write` over `read` to `loaded` (and `execute` in `Toolchain`),
`panic` (`link_panic`) or `wild` (past the end of the buffer). A crash may come
between any two lines and in the middle of one.

`Semantics`, `Reference`, `Grammar` and `Parser` use `RECURSIVE` operators, and so
do the modules above them. `YalaVM`, `Verifier`, `StackDiscipline`, `Lexer`,
`TypeLabels`, `Serialization` and `CommandLine` do not, so that theorems can be
proved about them.

A *slip* next to a definition (`emit_and_KeepsLeft`, `Push_Front`, ...) is the
definition with a plausible mistake in it. No specification uses slips:
`mutants` in `PROJECT.json` says which property each one breaks when it takes
the definition's place.

## The runs

| run | what is enumerated | checks |
| --- | --- | --- |
| `programs` | 840 programs on every input. 600 of `ControlFamily`: if, elsif, while, nested for, for up to the greatest integer, break, exit and short-circuit conditions, combined. 120 of `ProcedureFamily`: every useful pair of parameter modes, aliased arguments, arguments whose index the call changes, recursion, nested procedures, globals changed below a call. 120 of `VectorFamily`: two of fifteen statements, in the order of the list, that copy, index, pass, return, compare and overwrite vectors and rows of a matrix, with indices in and out of range | `StackDiscipline`, `CompilesToWellFormed`, `UnionsReadAsWritten`, `VectorsLive`, `ArgumentCopies`, `ImplementsCalls`, `ImplementsSource`, `Terminates` |
| `limits` | 257 programs: recursion without end in three forms, vectors and loops that do not fit, stacks of 13 cells; a program of nothing but calls of itself | `FrameLimit`, `ImplementsUpToLimit`, `Terminates` |
| `any_code` | every opcode and one that does not exist, with operands no compiler emits, after six ways to fill the stacks | `TypeOK`, `Guarded` |
| `compiler_limits` | 32 programs, each limit from 0 to 80 | `LimitsExact` |
| `type_labels` | 1,719 labels of up to four dimensions around the limits of an 8-bit int | `LabelTypeOK`, `DimensionsRead`, `TrapsOnlyAfterError`, `LabelsAsInSemantics` |
| `toolchain` | 48 programs with a constant of every kind in every order, in functions inside functions; every place where the file may be cut off; then the machine on what was loaded | `SerialTypeOK`, `LoadedAsCompiled`, `WholeFileAccepted`, `CompilesToSerializable`, `ExecuteImplementsSource`, `ExecuteEnds` |
| `frontend` | 18 programs with every production of the language, written down in ten ways (nothing, space, lines or comments between the tokens, either quote); all 22,621 texts of up to 4 characters of an alphabet of 12 | `TextIsProgram`, `LexTypeOK`, `NothingSkipped`, `LongestTokens`, `LinesRight`, `ColumnsRightBeforeStrings`, `LexEnds` |
| `parser` | the 18 programs and all texts one token away from one of them (41 tokens inserted anywhere, one left out, two exchanged); two smaller programs and all texts two such steps away, with 9 tokens to insert | `WrittenIsParsed`, `AcceptedIsWhole`, `NothingLost`, `NeverStuck`, `DownOnlyAfterError` |
| `command_line` | all 11,111 calls of up to four words from ten, six contents of the input file, an output file in the way or not, files that cannot be opened, writes that fail | `FailureLeavesFiles`, `SuccessIsWritten`, `RunsOnlyWhenAsked`, `OverrunOnlyBehindOutput` |

Programs that the compiler rejects have no image and no behaviour (`break`
outside of a loop in `ControlFamily`).

The properties of compiler and machine:

* `ImplementsSource` - refinement. The machine's steps, seen through `source`,
  `output`, `input` and `status`, are steps of `Language`: nothing is printed but
  what comes next, nothing is read before everything due is printed, the program
  halts or fails exactly where the source does. Nothing is promised once a source
  has used an element it never assigned, or past `Fuel` loop turns and calls.
* `ImplementsUpToLimit` - the same, where the machine may also stop with an error.
* `CompilesToWellFormed` - what the compiler emits is `WellFormed`: on every path
  to an instruction the frame has the same height, calls find a function that
  takes that many arguments, slots and constants exist. And it is
  `ArraysWellFormed`: a literal is made of as many elements as were pushed, only
  temporaries are popped off `astack` again, a call gets and gives vectors where
  it should, a returned vector has been moved, a caller unloads the out arguments
  its callee has loaded.
* `StackDiscipline` - at run time each frame is as high as its shape says, frames
  are stacked without overlap and a caller's `sp` is where the return expects it,
  function slots hold those functions.
* `ImplementsCalls` - refinement. The frames, seen through `ActiveFrames` as the
  function and the cells each of them has by its shape, behave as the activations
  of `Activations`: a call hands its arguments over in order, a return puts the
  result where the function was, and no instruction changes a value of another
  activation, but for an assignment to a variable of the program itself.
* `UnionsReadAsWritten` - every handler reads the member of `union value` that
  was last written to the cell.
* `VectorsLive` - every vector on the value stack lies below the top of `astack`
  or among the argument copies: the next push does not overwrite it.
* `ArgumentCopies` - the copies at the far end of `astack` are exactly those of
  the vectors on `argstack`, `astack` has not grown into them, none is left at
  the end.
* `FrameLimit` - `OP_CALL` does not check `framestack`; the value stack of the
  same size, which holds a function per call, is full first, so the array is left
  by at most one frame, and never from there.
* `Terminates` - every run ends: by halting, by an error, or by an overflow.
* `TypeOK`, `Guarded` - the machine's own state, for any code at all.
* `LimitsExact` - a program is rejected if and only if it does not fit the limit,
  and one that fits is compiled to what it would be without limits: no jump,
  address or branch is cut off, wherever in the program the limit is met.
* `DimensionsRead`, `LabelsAsInSemantics` - without an error no int has wrapped and
  every dimension is the number written; a label is rejected, or given a rank and a
  size, exactly as `Semantics` and the digits (`AcceptedIfFits`) say.
  `TrapsOnlyAfterError` - the compiler dies of no label that it has not reported
  before (it does die of a dimension 0, see below).

Of the toolchain:

* `LoadedAsCompiled` - whatever the file, what the reader accepts is the program
  that was compiled, object by object and constant by constant, but for the
  `envindex` of functions; of a file that was cut off nothing else comes.
* `WholeFileAccepted` - a file whose writer has finished is never refused.
* `CompilesToSerializable` - what the serializer takes for granted of the code
  generator: each constant is loaded exactly once, in the order of addresses, by
  the opcode of its type, and the writer's walk meets every load.
* `ExecuteImplementsSource` - `compile` then `execute` prints, reads and ends as
  the source says: the same refinement of `Language`, with a file in between.
  `ExecuteEnds` - and it ends, with a run or a refusal.

Of the frontend:

* `TextIsProgram`, `WrittenIsParsed` - a tree that is written down (`Grammar`) is
  lexed and parsed back to itself: levels, sides, order, every production.
* `NothingSkipped`, `LongestTokens`, `LinesRight`, `ColumnsRightBeforeStrings` -
  about every text: tokens and space and comments between them cover it, tokens
  are maximal and keywords exactly those spelt so, and the positions in messages
  are those in the text.
* `AcceptedIsWhole` - no accepted tree has a NULL or a missing label in it, which
  the compiler would follow. `NothingLost` - written down again, an accepted tree
  has the tokens of the text, but for parentheses and commas: error recovery
  never drops part of a program that is then compiled.
* `NeverStuck` - no loop of the parser turns without taking a token.
  `DownOnlyAfterError` - where the parser follows a NULL pointer, it has reported
  an error before.

Of the command line:

* `FailureLeavesFiles` - a call that fails leaves every file as it was.
  `SuccessIsWritten` - when `compile` ends with success, the output is the whole
  image of an accepted program, unless a write was lost, which nobody looks at.
* `RunsOnlyWhenAsked` - a program is started only if it was accepted, in `run` and
  `execute`, and never behind `--no-execute`.
* `OverrunOnlyBehindOutput` - arguments are taken from behind the end of `argv`
  only when the last one is `--output` (where they are, see below).

**Bounds.** `StackMax` is 40 in `programs` and 30 in `toolchain`, more than any
program there needs, as the refinements show: they allow no overflow. It is 13 in
`limits`, where programs take 4 to 11 cells before they start, so that each kind
of push, copy and call meets the end of its stack in some program; 5 in
`any_code`. The compiler's limits are 20 locals and constants and the real 65535
for jumps in `programs`, which meets none of them; `compiler_limits` meets them from
both sides. Integers are -256 .. 255 (-512 .. 511 in `toolchain` and
`compiler_limits`, so that some constants do not fit a byte), the least range
that holds an operand byte, and wrap there as they do at 32 bits. `AnyInt` is what
a cell that was never written may hold: two values are enough to tell that one
was used. `ReadInts` has two or three inputs, chosen to take both branches of the
conditions and to fall inside and outside of the vectors. `Fuel` is larger than
any terminating program of the families needs, except in `limits`, where the
stacks (13 cells) are full before 14 calls or the loop leaks. In `type_labels`
`MAX_VECTOR_DIMENSIONS` is 4 and labels have up to as many dimensions. Texts of
four characters hold every pair of neighbours of the lexer's tokens and a string
or comment with something before, in and behind it; the programs of
`WrittenFamily` bring longer ones. Two changed tokens are what it takes for an
error that meets the recovery from another. Four words hold the longest call that
does something (`compile --output out in`).

**Fairness.** `FairSpec` asks `WF_vars(Execute)`: `vm_run` is a loop that does
not pause while it has an instruction to execute. A `read` is part of it: a
program whose input ends gets an empty line from `fgets` and goes on.
`ToolFairSpec` asks the same of the writer, the reader and the start of the
machine, each a process that runs alone; it asks nothing of `Crash`, which may
never come. `FrontFairSpec` asks it of lexing, since the parser asks for tokens
until it has the last. Only `Terminates`, `ExecuteEnds` and `LexEnds` depend on
fairness. Lexer and parser are put one after the other: the parser never talks
back to the lexer.

**Validation.** 845 programs of the three families (with pairs of vector
statements in the other order, too) were printed as Yala sources and given to
the compiler built from this repository: its verdict, the disassembly it lists
and what the machine prints agree with `Semantics` and `YalaVM` for every one of
them. (The 100 with a `for` up to the greatest integer came later; so did one
other index in a vector statement.) 19,723 texts of the parser's runs were given
to it as well: it accepts and rejects as `Parser` does.

## Findings

Three have a run of their own, in which a property that the families satisfy is
violated by one small program (`MCDefects`, `MCToolchain`).

| run | what the code does |
| --- | --- |
| `until` | `repeat ... until c` goes on while `c` holds, and never pops `c` (`semantics.c:795-818`) |
| `nested` | a variable of an enclosing procedure is looked for in `framestack[envindex - offset]` (`vm.c:435`), a frame found by nesting depth; if the enclosing procedure was called from a sibling, that is the sibling's frame |
| `lost_envindex` | the serialized form has no `envindex` (`serialization.c:199-203`): under `execute` a variable of an enclosing function is looked for from whatever the word held |

Also met while modelling. The models have all of these; the families of the
passing runs stay clear of them, and each was seen in the program built from the
repository unless it says otherwise.

* Compiler. `break` jumps past the pops of locals declared inside the loop
  (`semantics.c:666-676`): a string declared afterwards is read from an integer's
  cell, and the program dies. The branches of a conditional expression are
  compared by type id alone (`semantics.c:1340`), so that a vector of integers
  passes for one of strings. The size of a subvector's type is the sum of its
  dimensions (`semantics.c:1396`): with an out argument `m[0]` of a 2 x 1 x 1
  vector, `m[1]` is cleared. A dimension 0 inside another label makes
  `is_mult_overflow` divide by zero after it was reported (`value.c:426`).
* Machine. `writeln(v)` gives the cells of `v` back although `v` was pushed by
  reference (`vm.c:354`), and `v;` as a statement does too (`vm.c:327`). Integers
  are compared by a difference that overflows (`value.c:297`); a `for` whose upper
  limit is the greatest integer ends only because of that, as its variable wraps
  and the comparison wraps as well (`semantics.c:993`). Strings are compared over the
  length of the left one (`value.c:296`, read in the source). `INT_MIN / -1` raises
  a signal (`vm.c:257`, read) while division by zero gives 0. Returning a vector to
  a caller whose `astack` is full writes past its end (`vm.c:376`, model).
  `OP_CALL` writes one frame past `framestack` before the overflow is reported
  (`vm.c:367-372`, model; `FrameLimit` says it is no more than one).
* Serializer. Blanks at the beginning of a string constant are lost
  (`serialization.c:167`). A file cut off inside a string is read past the end of
  the buffer (`serialization.c:178-195`, model).
* Lexer and parser. The opening quote of a string is not counted as a column
  (`lexer.c:59`). `read()` and other lists that are empty or end in a comma make the
  parser follow a NULL pointer after it has reported the error (`parser.c:331`,
  `:789`, `:810`).
* Command line. A write that fails is not noticed (`yala.c:247`). The help of
  `--no-execute` lists other modes than the code takes it in (`yala.c:59`, `:71`).
  `--output` as the last word makes `argc` negative, and the input file's name is
  taken from the environment (`yala.c:74`). What `vm_run` returns is dropped, so
  that a runtime error ends with status 0 (`yala.c:222`).

## The proofs

The theorems hold for all values of the constants that satisfy the assumptions
which the modules name, and TLC evaluates those in the runs: `SizesAssumption`
(`StackMax` is positive), `ImagesAssumption` (an image has a root, its code is
bytes and its constants are values), `InputAssumption`, `AnyIntAssumption`,
`IntRangeAssumption`, `MaxArityAssumption`, `StringsAssumption`,
`StringsReadAssumption` (a string without its leading blanks is a string),
`WordsAssumption` (arguments are words), `LabelsAssumption` (a label has at least
one dimension and each of them a digit).

### The machine, whatever the code

`YalaVM_proofs`, for every image, and therefore for code no compiler would emit:

* `VMTypes`: `Spec => []TypeOK`. The current frame is in `framestack` or just past
  it, `argsp` never passes `MAX_ARITY`, cells hold values.
* `VMGuarded`: `Spec => []Guarded`. While the machine runs or has halted, `sp` and
  `asp` of every live frame are at most `STACK_MAX`.
* `ElementsInVector`, `ElementsApart`: what `index_flattened` computes for indices
  that `is_out_of_bounds` let pass. For every rank, all dimensions and as many
  indices as there may be, the element or row selected lies within the vector, and
  different indices select different elements, or rows that have none in common.
* `VMStoresInVector`: `Spec => [][StoresInVector]_vars`. An assignment to an element
  or a row changes no cell of `astack` outside of the vector it is given.

Neither invariant is inductive alone. `TypeOK` says nothing of `sp`, and without
a bound on it `pushv` may write a cell that does not exist; `Guarded` needs
the type of the frames to say anything of a step. The inductive invariant is
their conjunction `IInv`. `framese` is bounded because the model goes to `wild` where
`OP_CALL`, which has no check of its own, would write beyond the one frame past
the array; that well-formed code does not is `VMFrameLimit`, below. The argument
has three layers: lemmas about values and operators (`WrapType`, `CellType`,
`CopyCellsType`, ...); lemmas about the tails that handlers share (`pushvKeeps`,
`GotoKeeps`, `ResumeKeeps`, `runtime_errorKeeps`); then one lemma per group of
opcodes, which checks that what a handler pushes is a value and where it leaves
the pointers.

A flattened index is a sum of products, as many as the rank says. The proof puts
blocks into blocks: after `k` indices the element lies in one of `dims[1] * ... *
dims[k]` blocks of equal size (`BlocksOf`), and the next index picks a block inside
of it (`BlockWithin`); two lists of indices that differ pick two blocks at the first
difference and stay apart from there (`NowApart`, `StillApart`). That the products
and sums exist as functions is `Recursion` (module `Induction`), which TLAPS does
not get from a recursive definition.

### The machine on well-formed images

`StackDiscipline_proofs`, for every image that is `WellFormed`, of any number and
nesting of functions:

* `VMStackDiscipline`: `Spec /\ WellFormed(image) => []StackDiscipline`.
* `VMFrameLimit`: `... => []FrameLimit`. The argument is about counting: frames are
  stacked at least one cell apart (`FramesStacked`), the frame that calls holds
  the function it calls, and `sp` is at most `STACK_MAX`, so that a caller's
  index is below it.
* `VMInstructionWhole`: the machine only ever fetches whole instructions; `BadCode`
  never happens.
* `VMWildOnlyByVectors`: a step reads or writes outside of its array only in the
  handlers of vectors and of the argument stack (`VectorOps`). Constants,
  arithmetic, jumps, locals, calls, returns, `read` and `write` do not
  (`VMWildOnlyForRoom`, below, leaves three of those handlers).
* `VMLowerFramesKept`: no step changes what the frames below the current one
  hold, but for the cell in which a return leaves its result and for an
  assignment to a variable of the program from a function in it.

Together with the invariant `CompilesToWellFormed`, which TLC checks of what the
compiler emits for the families, they and those of the next section say that compiled
code keeps the machine's unchecked promises. `StackDiscipline` is not inductive
either. A return writes the result into the last cell of the caller, and a shape must
not promise a function there (`ResultSlots`); a function finds the program itself in
cell 0, which the shape of the root no longer mentions once the program has been
called (`ProgramCell`); a frame found by nesting depth lies below the one that looks
(`framestack[f].env <= f`, in `FramesKnown`); and a step that overflows a stack is an
error only because of `IInv`. `DInv` is their conjunction with `WellFormed(image)`;
`ResultSlots` and `ProgramCell` were checked with TLC on the families before they were
used. The proof reads an instruction once as the verifier does (`Effects`,
`JumpEffects`, `LocalEffect`) and shows that it is what the machine does, per group of
actions; `StepKeeps` says once what any handler that stays in its frame has to keep,
and `CallStep` and `ReturnStep` are the two that change frames.

Its second half proves the refinement:

* `VMImplementsCalls`: `Spec /\ WellFormed(image) => ImplementsCalls`.

The step simulation has `DInv` on both sides of a step. Before the step the shapes
say where each activation lies on the stack; after it they say how long it is,
so that a call and a return need nothing of the shapes of their own. What the other
activations hold is `VMLowerFramesKept`. A `CALL` is an `Enter`, a `RETURN` a `Leave`, the
assignment to a variable of an enclosing function an `Assign`, any other
instruction a `Work`, and whatever ends `vm_run` is a `Stop`.

### Vectors and arguments

`ArrayDiscipline_proofs`, for every image that is `WellFormed` and any views (the
constant `views`) with which it is `ArraysWellFormed`; whatever the sizes of the
stacks, the widths of the integers and the nesting of calls and literals:

* `VMVectorsLive`: `Spec /\ WellFormed(image) /\ ArraysWellFormed(image, views) =>
  []VectorsLive`.
* `VMWildOnlyForRoom`: `... => [][OnlyRoomRunsOut]_vars`. Of all handlers only the
  three that write a whole vector without looking for room (`OP_SET_INDEX_LOCAL_LONG`,
  `OP_SHIFT_ASTACKENT_TO_BASE`, `OP_ARGSTACK_LOAD`) may leave their arrays. No element
  is taken off an empty `astack`, no argument is taken back that was not left, no
  vector gets more indices than it has dimensions.
* `VMArgumentsCounted`: `... => []ArgumentsCounted`, which is `ArgumentCopies` but for
  the room that nothing reserves (see below).
* `VMReadAsWritten`: `... => []ReadAsWritten`, the conjunct of `UnionsReadAsWritten`
  that the views can tell. Where a handler gives up as many cells as the size it finds
  in a `union value` (`popa`, the write of a vector, the taking back of an argument),
  it finds a vector; what is called is a function; no vector is put into an element;
  what is written is of a type there is, so that `writev` does not come to its `exit`.

`VectorsLive` is about one stack and one moment; what keeps it true is an agreement
of all frames, so the invariant speaks of them together. `AInv` adds to `DInv`, for
the frames `0 .. framese` with their values `V`, the kinds `K` their views give these,
the ends `A` of what they have on `astack` and the ends `R` of their vectors:

* `FrameArrays`: values have their kinds (`KindsIn`), the rooms of the frames lie one
  above the other (`RoomsIn`), the vectors of a frame end in its room (`VectorsIn`), and
  a temporary begins above whatever came before it (`TempsIn`), so that popping it
  gives up nobody else's cells;
* `CallersAgree`: what a waiting caller's view says after the call is what the callee
  will leave it. `BlindAbove`: a function that reads nothing of the frames around it
  calls only such functions. `GlobalsAgree`: a variable of the program keeps its kind
  when a function assigns to it. `ScalarElements`: elements are not vectors;
* `ResultMoved`: between `OP_SHIFT_ASTACKENT_TO_BASE` and `OP_RETURN` the result has been
  written over the frame's other vectors and is the only one that is still live,
  which is why `VectorsLive` has a case for it;
* `Arguments`: the kinds on `argstack` are those the views list (`ArgsAgree`), and the
  copies lie at the far end of `astack`, where they were put (`CopiesIn`,
  `CopiesStacked`).

TLC checked `AInv` on every image of `programs` and `limits` before it was proved. The
lemmas are stated over functions `V`, `K`, `A`, `R` on the frames and not over the
machine: `StaysArrays` for a step that keeps its frame, `CallArrays`, `ShiftArrays` and
`ReturnArrays` for the others; then one lemma per handler says which of them it is.
`CInv` adds `Counted`, that `argasp` is what the sizes of the vectors on `argstack` leave of
`STACK_MAX`. The sum is followed step by step, as one is added or taken off
(`SumsExtended`, `SumsShortened`); that it is the recursive function of `ArgumentsCounted`
is shown at the end (`SumsUnique`).

What a view can say is deliberately little, and some programs have none that agrees
with their code. Some of them are those in which the machine does give up cells of a
live vector (`v;` and `writeln(v)` of a vector passed by reference, literals whose
later elements leave temporaries). Others are harmless and merely beyond it: a scalar
of an enclosing procedure that is stored as it was read, a variable of a procedure
two levels out, an out argument whose index calls a function that has out arguments.
The compiled programs of the families all have views (`CompilesToWellFormed`).

### The lexer

`Lexer_proofs`, for every text: `LexTypes`, `LexNothingSkipped`, `LexLongestTokens`,
`LexLinesRight`, `LexColumnsRight`, each `LexSpec => []P` for the property `P` that
the run `frontend` checks on short texts. A string is an atom to the provers. That a
text is a sequence of characters, and how the characters of words, numbers, operators
and space differ, and that what stands behind the text is none of them, are hypotheses
(`TextsAreSequences`, `CharacterClasses`); `Frontend`, which extends `Lexer`, assumes
both (`LexerAssumption`), so that TLC evaluates them.

`LexInv` ties the line to the number of newlines before `current` and every token to
a place before `current`. Each kind of turn is read once, as what it takes
(`TokenRead`, `BlankRead`, and `LongestTokens` by position: where the next character
of another kind stands); `NothingSkipped` then needs the gaps between tokens (`Gaps`),
of which the one before `current` is still open. Columns are right until a string
ends on the line, since its opening quote is not counted: `ColumnInv` says so of the
lexer itself before it says it of tokens.

`LexReadsOn`: `LexSpec => [][ReadsOn]_lexVars`. Every turn of `next_token` takes a
character or returns the end token, once and at the end of the text; no error,
unterminated string or unknown character makes it stay where it is. The scans are
the hard part: `FirstFrom` stands for a loop, and that it has gone further needs that the
character it began at does not end it. With this `LexEnds` asks for nothing but that
`next_token` be called again.

### The serialized form

`Serialization_proofs`, for every image that is `Serializable`, of any shape and size of
its tree of objects: `SerialTypes`, `SerialLoadedAsCompiled`,
`SerialWholeFileAccepted`. `Serializable` says that each function has code, that its
constants are loaded each once and in the order of addresses, and that each of
them is something the text can express (no number is negative, no string begins
with a blank); that the compiler emits nothing else is `CompilesToSerializable`, which
TLC checks.

When the reader runs, the writer has gone, and the file does not say what it was
doing; the invariant has to remember. `SInv` says that there is a *history*, the calls
of the writer that were open at each line of the file, and that the reader's calls are
those of the history at the line it is about to read, each with as many constants done
(`ReaderAt`); and a map from what was read to what was written (`CopiesOf`). A file
that was cut off has a history too, which ends earlier, and the reader is inside of a
call when it gets there. Hence it can only refuse.

### Labels and the command line

`TypeLabels_proofs`, for every label, every width of integers and every limit on the
rank: `LabelTypeCorrect`, `NoTrapWithoutError`, `DimensionsAsWritten`,
`LabelAcceptedIfFits`. `LabelInv` adds to
the two invariants that, as long as no error was reported, no dimension is 0
(`Positive`), so that `is_mult_overflow` divides by none. `DimensionsRead` compares with
a function that is recursive over the digits; `DecimalOfDigits` gives its values one
digit at a time.

`LabelAcceptedIfFits` is `LabelSpec => []AcceptedIfFits`, in both directions: a label
comes to an error exactly if a dimension is 0 or no int, if the product of some of
the innermost dimensions is no int, or if it has two dimensions or more and as many
as `MAX_VECTOR_DIMENSIONS` (a single one is not compared with it); otherwise its type
has the rank and the number of cells it says. `AcceptInv` follows the product: with no
error, `Spans(r)` says that the `r` calls that have returned have multiplied the `r`
innermost dimensions. That the helpers of `value.c` let through what fits is `ProductFits`
and `SumFits`, that they stop only what does not is `ProductTooLarge`.

`CommandLine_proofs`, for every list of arguments of any length: `CliTypeCorrect` and
`CliFailureLeavesFiles`, `CliSuccessIsWritten`, `CliRunsOnlyWhenAsked`,
`CliOverrunOnlyBehindOutput`. What `main` has found out is not in a variable but in
where the control is; `CliInv` writes it down: which mode and which contents of the
input file each stage implies (`StageKnows`), which arguments have been taken
(`Taken`), that `--no-execute` has not been passed by unnoticed (`OptionsKnown`), and
that files change last (`FilesKept`). `CliTypeOK` is proved and not checked in a run.

### Checked by TLC only

* What goes through `Semantics`, `Reference`, `Grammar`, `Parser` and the modules
  above them, which are recursive over trees and texts: `CompilesToWellFormed`,
  `CompilesToSerializable`, `ImplementsSource`, `ImplementsUpToLimit`, `LimitsExact`,
  `TextIsProgram`, the comparison with `Semantics` in `LabelsAsInSemantics`, and all
  of `Edits`. A module that reaches a recursive operator has no theorem. Where a proof
  needs induction over data it goes through sets (`LeastNumber`, `InductionUpTo`) and
  functions (`Recursion`).
* `UnionsReadAsWritten` but for its conjunct `ReadAsWritten`. A view tells vectors
  from other values and not integers from strings; and an element that was never
  assigned may hold a value of another type, which the code does nothing against, so
  that the theorem would need to follow which elements were.
* Of `ArgumentCopies`, that `astack` has not grown into the copies (`ASP <= argasp`):
  it holds of the programs of the families, because they are small. `OP_POP_TO_ASTACK`
  compares with `STACK_MAX` and not with `argasp`, and no theorem could say otherwise.
* The room of the three handlers `VMWildOnlyForRoom` names.
* Liveness (`Terminates`, `ExecuteEnds`, `LexEnds`). Of `LexEnds` the part without fairness
  is a theorem (`LexReadsOn`).


## Not modelled

* The displays: `--display-tree` and `--display-bytecode` (the printers of trees,
  types and values of types, the disassembler) change no state that anything else
  reads. Wording and layout of messages; which line a runtime error names (line
  information travels through compiler, serializer and machine next to the code
  and decides nothing).
* In `Values`: string hashes (equality compares them and then the bytes, which
  decides alone), the growing of arrays (`LIST_DECLARE`) and `malloc` failure, which
  the code does not handle.
* In `Serialization`: digits. A line is a record with its kind, its number and
  its code; a number that is cut off in the middle is one the reader refuses or
  takes for its beginning, as the code does, at the granularity of lines.
* In `Frontend`: the interleaving of lexer and parser, which share nothing but the
  next token.
* The test programs and the `Makefile` have no state. The tests have no runner;
  their `# expect:` comments were read for what the language means.

## Plan

Modelling is complete but for the list above. What is left is proof:

1. Types of cells: views that tell strings from integers and list what has been
   assigned; with them the rest of `UnionsReadAsWritten` that is about the value stack.
2. The room of `OP_ARGSTACK_LOAD` from a bound on the vectors of an image, as
   `VMFrameLimit` has one on its frames.
3. Lemmas about `Wrap` and `join_bytes`, on which nothing rests so far but types.
