---------------------------- MODULE CommandLine ----------------------------
(***************************************************************************)
(* yala.c: main, from the arguments to the exit status, and what it does   *)
(* to the files on the way.  Compiling, executing and reading an image are *)
(* the business of other modules; here a file is                           *)
(*   absent, unparsable, rejected (it parses, the compiler reports an      *)
(*   error), program (it compiles), image (a whole compiled program), torn *)
(*   (the beginning of one) or other.                                      *)
(***************************************************************************)
EXTENDS Naturals, Sequences, FiniteSets

CONSTANTS
  Arguments,    \* the argument lists, without the name of the program
  Words,        \* every word of them
  Inputs        \* what the first file may hold

ASSUME WordsAssumption == Arguments \subseteq Seq(Words)

(* Behind the last argument there is a NULL, and then the environment.       *)
NoPath      == "NULL"
Environment == "environment"

Modes == {"run", "compile", "execute", "help"}

VARIABLES
  argv,
  at,           \* the next argument
  run_mode, options, input_path, output_path,
  stage,        \* what main does next
  before, disk, \* the files, when main was called and now, by their paths
  lost,         \* whether the disk was full and a write failed
  executed,     \* whether a program has been started
  exit          \* the exit status, or "none"

cliVars == << argv, at, run_mode, options, input_path, output_path, stage, before, disk,
              lost, executed, exit >>

Argument(k) == IF k <= Len(argv) THEN argv[k]
               ELSE IF k = Len(argv) + 1 THEN NoPath ELSE Environment

Paths == Words \cup {Environment}

CliInit ==
  /\ argv \in Arguments
  /\ \E input \in Inputs, old \in {"absent", "other"} :
       before = [p \in Paths |-> IF p = "in" THEN input ELSE IF p = "out" THEN old ELSE "absent"]
  /\ disk = before /\ lost = FALSE
  /\ at = 1 /\ run_mode = "none" /\ options = {} /\ input_path = NoPath /\ output_path = NoPath
  /\ stage = "mode" /\ executed = FALSE /\ exit = "none"

Exits(status) == stage' = "exit" /\ exit' = status
Goes(next)    == stage' = next /\ UNCHANGED exit

cliArgs  == << argv, at, run_mode, options, input_path, output_path >>
cliFiles == << before, disk, lost >>

(***************************************************************************)
(* parse_cli_arguments.                                                    *)
(***************************************************************************)
PickMode ==
  /\ stage = "mode"
  /\ at' = IF argv = << >> THEN at ELSE at + 1
  /\ IF Argument(at) \in Modes THEN run_mode' = Argument(at) /\ Goes("options")
     ELSE UNCHANGED run_mode /\ Exits("failure")
  /\ UNCHANGED << argv, options, input_path, output_path, cliFiles, executed >>

IsLong(word) == SubSeq(word, 1, 2) = "--"
IsOption     == at <= Len(argv) /\ IsLong(argv[at])

Applicable(option, mode) ==
  CASE option = "--display-tree"     -> mode \in {"run", "compile"}
    [] option = "--display-bytecode" -> mode # "help"
    [] option = "--no-execute"       -> mode \in {"run", "execute"}
    [] option = "--output"           -> mode = "compile"
    [] OTHER                         -> FALSE

(* A slip in parse_option: every option is taken to have a word behind it.   *)
parse_option_AllTakeAName ==
  /\ stage = "options" /\ IsOption
  /\ IF ~Applicable(argv[at], run_mode) THEN
            Exits("failure") /\ UNCHANGED << at, options, output_path >>
     ELSE /\ options' = options \cup {argv[at]} /\ at' = at + 2 /\ Goes("options")
          /\ output_path' = IF argv[at] = "--output" THEN Argument(at + 1) ELSE output_path
  /\ UNCHANGED << argv, run_mode, input_path, cliFiles, executed >>

parse_option ==
  /\ stage = "options" /\ IsOption
  /\ \/ /\ ~Applicable(argv[at], run_mode)
        /\ Exits("failure") /\ UNCHANGED << at, options, output_path >>
     \/ /\ Applicable(argv[at], run_mode) /\ argv[at] = "--output"
        /\ output_path' = Argument(at + 1) /\ at' = at + 2
        /\ Goes("options") /\ UNCHANGED options
     \/ /\ Applicable(argv[at], run_mode) /\ argv[at] # "--output"
        /\ options' = options \cup {argv[at]} /\ at' = at + 1
        /\ Goes("options") /\ UNCHANGED output_path
  /\ UNCHANGED << argv, run_mode, input_path, cliFiles, executed >>

(* argc is 0 just behind the last argument; one word too many has been taken *)
(* when it is not.                                                         *)
TakeInput ==
  /\ stage = "options" /\ ~IsOption
  /\ IF at = Len(argv) + 1 THEN UNCHANGED << at, input_path >>
     ELSE input_path' = Argument(at) /\ at' = at + 1
  /\ Goes(IF run_mode = "help" THEN "help" ELSE "load")
  /\ UNCHANGED << argv, run_mode, options, output_path, cliFiles, executed >>

(***************************************************************************)
(* The modes.                                                              *)
(***************************************************************************)
print_help == stage = "help" /\ Exits("success") /\ UNCHANGED << cliArgs, cliFiles, executed >>

load_program ==
  /\ stage = "load"
  /\ IF input_path = NoPath \/ disk[input_path] = "absent" THEN Exits("failure")
     ELSE Goes(IF run_mode = "execute" THEN "deserialize" ELSE "parse")
  /\ UNCHANGED << cliArgs, cliFiles, executed >>

parse_file ==
  /\ stage = "parse"
  /\ IF disk[input_path] \in {"program", "rejected"} THEN Goes("compile") ELSE Exits("failure")
  /\ UNCHANGED << cliArgs, cliFiles, executed >>

(* A slip in compile_tree: the output file is opened before the compiler has  *)
(* accepted the program.                                                   *)
compile_tree_OpensFirst ==
  /\ stage = "compile"
  /\ disk' = IF run_mode = "run" \/ output_path = NoPath THEN disk
             ELSE [disk EXCEPT ![output_path] = "torn"]
  /\ IF disk[input_path] # "program" THEN Exits("failure")
     ELSE Goes(IF run_mode = "run" THEN "execute" ELSE "open")
  /\ UNCHANGED << cliArgs, before, lost, executed >>

compile_tree ==
  /\ stage = "compile"
  /\ IF disk[input_path] # "program" THEN Exits("failure")
     ELSE Goes(IF run_mode = "run" THEN "execute" ELSE "open")
  /\ UNCHANGED << cliArgs, cliFiles, executed >>

(* A slip in open_output: a file that cannot be opened is reported, no more.  *)
open_output_NoExit ==
  /\ stage = "open"
  /\ IF output_path = NoPath THEN Exits("failure") /\ UNCHANGED disk
     ELSE \/ Exits("success") /\ UNCHANGED disk
          \/ Goes("serialize") /\ disk' = [disk EXCEPT ![output_path] = "torn"]
  /\ UNCHANGED << cliArgs, before, lost, executed >>

(* fopen with "w" empties the file.                                         *)
open_output ==
  /\ stage = "open"
  /\ IF output_path = NoPath THEN Exits("failure") /\ UNCHANGED disk
     ELSE \/ Exits("failure") /\ UNCHANGED disk
          \/ Goes("serialize") /\ disk' = [disk EXCEPT ![output_path] = "torn"]
  /\ UNCHANGED << cliArgs, before, lost, executed >>

(* Nobody looks at what fprintf and fclose return.                          *)
serialize_output ==
  /\ stage = "serialize"
  /\ \/ disk' = [disk EXCEPT ![output_path] = "image"] /\ UNCHANGED lost
     \/ lost' = TRUE /\ UNCHANGED disk
  /\ Exits("success")
  /\ UNCHANGED << cliArgs, before, executed >>

(* Of a torn image the end may be missing only (see module Serialization).   *)
deserialize ==
  /\ stage = "deserialize"
  /\ \/ disk[input_path] \in {"image", "torn"} /\ Goes("execute")
     \/ disk[input_path] # "image" /\ Exits("failure")
  /\ UNCHANGED << cliArgs, cliFiles, executed >>

(* A slip in execute_code: --no-execute is not looked at.                     *)
execute_code_Always ==
  /\ stage = "execute" /\ executed' = TRUE /\ Exits("success")
  /\ UNCHANGED << cliArgs, cliFiles >>

(* What vm_run returns is dropped.                                          *)
execute_code ==
  /\ stage = "execute"
  /\ executed' = ("--no-execute" \notin options)
  /\ Exits("success")
  /\ UNCHANGED << cliArgs, cliFiles >>

main ==
  \/ PickMode \/ parse_option \/ TakeInput
  \/ print_help \/ load_program \/ parse_file \/ compile_tree
  \/ open_output \/ serialize_output \/ deserialize \/ execute_code

CliSpec == CliInit /\ [][main]_cliVars

-----------------------------------------------------------------------------
(* The input file's name comes from the words of the call or from what lies   *)
(* just behind them, the output file's from the words, and there is a status *)
(* at the end, and only there.                                             *)
CliTypeOK ==
  /\ at \in 1 .. (Len(argv) + 3)
  /\ input_path \in Paths \cup {NoPath} /\ output_path \in Words \cup {NoPath}
  /\ (stage = "exit") = (exit \in {"success", "failure"})

(* A call that fails leaves every file as it was: the compiled program of    *)
(* yesterday is not lost to a syntax error of today (run_compile opens the   *)
(* output file last).                                                      *)
FailureLeavesFiles == exit = "failure" => disk = before

(* When compile says that all went well, the output file is the whole image  *)
(* of a program the compiler accepted (run_compile), but for writes that     *)
(* were lost: of those nothing is said.                                     *)
SuccessIsWritten ==
  exit = "success" /\ run_mode = "compile" =>
    before[input_path] = "program" /\ (disk[output_path] = "image" \/ lost)

(* A program is started only if it was accepted, and never if --no-execute   *)
(* stands before the input file; compile starts none.                       *)
RunsOnlyWhenAsked ==
  executed =>
    /\ before[input_path] \in IF run_mode = "run" THEN {"program"} ELSE {"image", "torn"}
    /\ run_mode \in {"run", "execute"}
    /\ \A k \in 2 .. Len(argv) :
         argv[k] = "--no-execute" => \E j \in 2 .. k : ~IsLong(argv[j])

(* The words that follow the mode are all that is taken for a file's name,   *)
(* unless --output is the last of them: parse_option takes a word behind it  *)
(* that is not there, and parse_cli_arguments then one of the environment.   *)
OverrunOnlyBehindOutput == at > Len(argv) + 1 => argv[Len(argv)] = "--output"
=============================================================================
