------------------------- MODULE CommandLine_proofs -------------------------
(***************************************************************************)
(* Theorems about main (yala.c), for every list of arguments of any        *)
(* length, every set of words and everything the input file may hold.      *)
(***************************************************************************)
EXTENDS CommandLine, TLAPS

-----------------------------------------------------------------------------
(***************************************************************************)
(* The inductive invariant.  What main has found out of the arguments and  *)
(* of the input file is not in a variable of its own: it is in where the   *)
(* control is.                                                             *)
(***************************************************************************)
Stages == {"mode", "options", "help", "load", "parse", "compile", "open", "serialize",
           "deserialize", "execute", "exit"}

CliTypes ==
  /\ argv \in Seq(Words)
  /\ at \in Nat \ {0}
  /\ run_mode \in Modes \cup {"none"}
  /\ input_path \in Paths \cup {NoPath} /\ output_path \in Words \cup {NoPath}
  /\ DOMAIN disk = Paths
  /\ stage \in Stages /\ exit \in {"none", "success", "failure"} /\ executed \in BOOLEAN

(* The words that were taken: a step goes past the end only behind           *)
(* --output.                                                               *)
Taken ==
  /\ stage = "mode" => at = 1
  /\ stage = "options" =>
       /\ at \in 2 .. (Len(argv) + 2)
       /\ at = Len(argv) + 2 => argv[Len(argv)] = "--output"
  /\ stage \notin {"mode", "options"} =>
       /\ at \in 1 .. (Len(argv) + 3)
       /\ at > Len(argv) + 1 => argv[Len(argv)] = "--output"

(* Only options have been passed by, and --no-execute not without being     *)
(* noticed; a mode that executes has no option with a word of its own.      *)
Noticed(k) ==
  argv[k] = "--no-execute" =>
    "--no-execute" \in options \/ \E j \in 2 .. k : ~IsLong(argv[j])

OptionsKnown ==
  run_mode \in {"run", "execute"} =>
    /\ stage = "options" =>
         /\ at <= Len(argv) + 1
         /\ \A k \in 2 .. (at - 1) : argv[k] = "--no-execute" => "--no-execute" \in options
    /\ stage \notin {"mode", "options", "exit"} => \A k \in 2 .. Len(argv) : Noticed(k)

(* What the control is at says of the mode and the input file.              *)
StageKnows ==
  /\ stage # "mode" => run_mode \in Modes \/ stage = "exit"
  /\ stage = "help" => run_mode = "help"
  /\ stage = "load" => run_mode \in {"run", "compile", "execute"}
  /\ stage \in {"parse", "compile"} => run_mode \in {"run", "compile"}
  /\ stage = "deserialize" => run_mode = "execute"
  /\ stage \in {"open", "serialize"} =>
       run_mode = "compile" /\ before[input_path] = "program"
  /\ stage = "serialize" => output_path \in Words
  /\ stage = "execute" =>
       \/ run_mode = "run" /\ before[input_path] = "program"
       \/ run_mode = "execute" /\ before[input_path] \in {"image", "torn"}
  /\ executed => stage = "exit"

(* Files change last.                                                       *)
FilesKept == stage # "serialize" /\ exit # "success" => disk = before

CliInv ==
  /\ CliTypes /\ Taken /\ OptionsKnown /\ StageKnows /\ FilesKept
  /\ (stage = "exit") = (exit \in {"success", "failure"})
  /\ SuccessIsWritten /\ RunsOnlyWhenAsked

-----------------------------------------------------------------------------
(* The words of the call.                                                   *)
LEMMA ArgumentFacts ==
  ASSUME argv \in Seq(Words), NEW k \in Nat \ {0}
  PROVE  /\ Len(argv) \in Nat
         /\ k <= Len(argv) => Argument(k) = argv[k] /\ argv[k] \in Words
         /\ k = Len(argv) + 1 => Argument(k) = NoPath
         /\ k > Len(argv) + 1 => Argument(k) = Environment
         /\ Argument(k) \in Paths \cup {NoPath}
<1>1. Len(argv) \in Nat
  OBVIOUS
<1>2. k <= Len(argv) => Argument(k) = argv[k] /\ argv[k] \in Words
  BY <1>1 DEF Argument
<1>3. /\ k = Len(argv) + 1 => Argument(k) = NoPath
      /\ k > Len(argv) + 1 => Argument(k) = Environment
  BY <1>1 DEF Argument
<1> QED
  BY <1>1, <1>2, <1>3 DEF Paths

(* A step that only leads to another one.                                   *)
LEMMA Passing ==
  ASSUME CliInv, stage \notin {"mode", "options", "serialize", "exit"},
         UNCHANGED << cliArgs, cliFiles, executed >>,
         \/ Exits("failure")
         \/ \E next \in Stages \ {"mode", "options", "exit"} : Goes(next),
         StageKnows'
  PROVE  CliInv'
<1> USE DEF CliInv, CliTypes, cliArgs, cliFiles, Exits, Goes
<1>1. CliTypes'
  BY DEF Stages
<1>2. Taken'
  BY DEF Taken, Stages
<1>3. OptionsKnown'
  BY DEF OptionsKnown, Noticed
<1>4. FilesKept'
  BY DEF FilesKept
<1>5. ((stage = "exit") = (exit \in {"success", "failure"}))'
  BY DEF Stages
<1>6. SuccessIsWritten' /\ RunsOnlyWhenAsked'
  BY DEF SuccessIsWritten, RunsOnlyWhenAsked, StageKnows
<1> QED
  BY <1>1, <1>2, <1>3, <1>4, <1>5, <1>6

LEMMA PickModeInv == CliInv /\ PickMode => CliInv'
<1> SUFFICES ASSUME CliInv, PickMode
             PROVE  CliInv'
  OBVIOUS
<1> USE DEF CliInv, CliTypes, Exits, Goes, cliFiles
<1>1. /\ stage = "mode" /\ at = 1 /\ argv \in Seq(Words) /\ Len(argv) \in Nat
      /\ argv # << >> => Len(argv) # 0
      /\ exit = "none" /\ disk = before /\ ~executed
      /\ UNCHANGED << argv, options, input_path, output_path, before, disk, lost, executed >>
  BY DEF PickMode, Taken, FilesKept, StageKnows
<1>2. CASE argv = << >>
  <2>1. ~(Argument(at) \in Modes)
    BY <1>1, <1>2, ArgumentFacts DEF Modes, NoPath
  <2>2. at' = 1 /\ stage' = "exit" /\ exit' = "failure" /\ UNCHANGED run_mode
    BY <1>1, <1>2, <2>1 DEF PickMode
  <2> QED
    BY <1>1, <2>2 DEF Taken, OptionsKnown, StageKnows, FilesKept, SuccessIsWritten,
                      RunsOnlyWhenAsked, Stages
<1>3. CASE argv # << >>
  <2>1. at' = 2 /\ 2 <= Len(argv) + 1
    BY <1>1, <1>3 DEF PickMode
  <2>2. CASE Argument(at) \in Modes
    <3>1. run_mode' \in Modes /\ stage' = "options" /\ UNCHANGED exit
      BY <2>2 DEF PickMode
    <3>2. CliTypes'
      BY <1>1, <2>1, <3>1 DEF Stages
    <3>3. Taken' /\ OptionsKnown'
      BY <1>1, <2>1, <3>1 DEF Taken, OptionsKnown
    <3> QED
      BY <1>1, <3>1, <3>2, <3>3 DEF StageKnows, FilesKept, SuccessIsWritten, RunsOnlyWhenAsked
  <2>3. CASE Argument(at) \notin Modes
    <3>1. stage' = "exit" /\ exit' = "failure" /\ UNCHANGED run_mode
      BY <2>3 DEF PickMode
    <3> QED
      BY <1>1, <2>1, <3>1 DEF Taken, OptionsKnown, StageKnows, FilesKept, SuccessIsWritten,
                              RunsOnlyWhenAsked, Stages
  <2> QED
    BY <2>2, <2>3
<1> QED
  BY <1>2, <1>3

LEMMA ParseOptionInv == CliInv /\ parse_option => CliInv'
<1> SUFFICES ASSUME CliInv, parse_option
             PROVE  CliInv'
  OBVIOUS
<1> USE DEF CliInv, CliTypes, Exits, Goes, cliFiles
<1>1. /\ stage = "options" /\ IsOption /\ argv \in Seq(Words) /\ Len(argv) \in Nat
      /\ at \in 2 .. Len(argv) /\ exit = "none" /\ disk = before /\ ~executed
      /\ UNCHANGED << argv, run_mode, input_path, before, disk, lost, executed >>
  <2>1. stage = "options" /\ IsOption /\ argv \in Seq(Words) /\ Len(argv) \in Nat
    BY DEF parse_option
  <2>2. at \in 2 .. Len(argv)
    BY <2>1 DEF Taken, IsOption
  <2>3. UNCHANGED << argv, run_mode, input_path, before, disk, lost, executed >>
    BY DEF parse_option
  <2> QED
    BY <2>1, <2>2, <2>3 DEF FilesKept, StageKnows
<1>2. CASE ~Applicable(argv[at], run_mode)
  <2>1. stage' = "exit" /\ exit' = "failure" /\ UNCHANGED << at, options, output_path >>
    BY <1>2 DEF parse_option
  <2> QED
    BY <1>1, <2>1 DEF Taken, OptionsKnown, StageKnows, FilesKept, SuccessIsWritten,
                      RunsOnlyWhenAsked, Stages
<1>3. CASE Applicable(argv[at], run_mode) /\ argv[at] = "--output"
  <2>1. /\ output_path' = Argument(at + 1) /\ at' = at + 2
        /\ stage' = "options" /\ UNCHANGED << exit, options >>
    BY <1>3 DEF parse_option
  <2>2. run_mode = "compile"
    BY <1>3 DEF Applicable
  <2>3. output_path' \in Words \cup {NoPath}
    <3>1. at + 1 \in Nat \ {0} /\ (at + 1 <= Len(argv) \/ at + 1 = Len(argv) + 1)
      BY <1>1
    <3> QED
      BY <1>1, <2>1, <3>1, ArgumentFacts
  <2>4. Taken'
    BY <1>1, <1>3, <2>1 DEF Taken
  <2>5. CliTypes'
    BY <1>1, <2>1, <2>3
  <2> QED
    BY <1>1, <2>1, <2>2, <2>4, <2>5 DEF OptionsKnown, StageKnows, FilesKept, SuccessIsWritten,
                                        RunsOnlyWhenAsked
<1>4. CASE Applicable(argv[at], run_mode) /\ argv[at] # "--output"
  <2>1. /\ options' = options \cup {argv[at]} /\ at' = at + 1
        /\ stage' = "options" /\ UNCHANGED << exit, output_path >>
    BY <1>4 DEF parse_option
  <2>2. OptionsKnown'
    <3> SUFFICES ASSUME run_mode \in {"run", "execute"}
                 PROVE  /\ at' <= Len(argv) + 1
                        /\ \A k \in 2 .. (at' - 1) :
                             argv[k] = "--no-execute" => "--no-execute" \in options'
      BY <1>1, <2>1 DEF OptionsKnown
    <3>1. \A k \in 2 .. (at' - 1) : k \in 2 .. (at - 1) \/ k = at
      BY <1>1, <2>1
    <3>2. \A k \in 2 .. (at - 1) : argv[k] = "--no-execute" => "--no-execute" \in options
      BY <1>1 DEF OptionsKnown
    <3>3. at' <= Len(argv) + 1
      BY <1>1, <2>1
    <3> QED
      BY <2>1, <3>1, <3>2, <3>3
  <2>3. CliTypes' /\ Taken'
    BY <1>1, <2>1 DEF Taken
  <2> QED
    BY <1>1, <2>1, <2>2, <2>3 DEF StageKnows, FilesKept, SuccessIsWritten, RunsOnlyWhenAsked
<1> QED
  BY <1>2, <1>3, <1>4

LEMMA TakeInputInv == CliInv /\ TakeInput => CliInv'
<1> SUFFICES ASSUME CliInv, TakeInput
             PROVE  CliInv'
  OBVIOUS
<1> USE DEF CliInv, CliTypes, Exits, Goes, cliFiles
<1>1. /\ stage = "options" /\ ~IsOption /\ argv \in Seq(Words) /\ Len(argv) \in Nat
      /\ at \in 2 .. (Len(argv) + 2) /\ exit = "none" /\ disk = before /\ ~executed
      /\ stage' = (IF run_mode = "help" THEN "help" ELSE "load") /\ UNCHANGED exit
      /\ UNCHANGED << argv, run_mode, options, output_path, before, disk, lost, executed >>
  BY DEF TakeInput, Taken, FilesKept, StageKnows
<1>2. run_mode \in Modes
  BY <1>1 DEF StageKnows
<1>3. at' \in 2 .. (Len(argv) + 3) /\ input_path' \in Paths \cup {NoPath}
  BY <1>1, ArgumentFacts DEF TakeInput
<1>4. CliTypes'
  BY <1>1, <1>3 DEF Stages
<1>5. Taken'
  BY <1>1, <1>3 DEF Taken, TakeInput
<1>6. OptionsKnown'
  <2> SUFFICES ASSUME run_mode \in {"run", "execute"}, NEW k \in 2 .. Len(argv)
               PROVE  Noticed(k)'
    BY <1>1 DEF OptionsKnown
  <2>1. CASE k \in 2 .. (at - 1)
    BY <1>1, <2>1 DEF OptionsKnown, Noticed
  <2>2. CASE k \notin 2 .. (at - 1)
    <3>1. at \in 2 .. k /\ at <= Len(argv)
      BY <1>1, <2>2
    <3>2. ~IsLong(argv[at])
      BY <1>1, <3>1 DEF IsOption
    <3> QED
      BY <1>1, <3>1, <3>2 DEF Noticed
  <2> QED
    BY <2>1, <2>2
<1>7. StageKnows' /\ FilesKept'
  BY <1>1, <1>2 DEF StageKnows, FilesKept, Modes
<1> QED
  BY <1>1, <1>4, <1>5, <1>6, <1>7 DEF SuccessIsWritten, RunsOnlyWhenAsked

(* The modes.                                                               *)
LEMMA ModesInv ==
  CliInv /\ (print_help \/ load_program \/ parse_file \/ compile_tree \/ deserialize) => CliInv'
<1> USE DEF Exits, Goes
<1>1. ASSUME CliInv, print_help
      PROVE  CliInv'
  <2>1. /\ stage = "help" /\ stage' = "exit" /\ exit' = "success" /\ run_mode = "help"
        /\ UNCHANGED << cliArgs, cliFiles, executed >> /\ ~executed
    BY <1>1 DEF print_help, CliInv, StageKnows
  <2> USE DEF CliInv, CliTypes, cliArgs, cliFiles
  <2>2. CliTypes' /\ Taken' /\ OptionsKnown'
    BY <1>1, <2>1 DEF Stages, Taken, OptionsKnown
  <2> QED
    BY <1>1, <2>1, <2>2 DEF StageKnows, FilesKept, SuccessIsWritten, RunsOnlyWhenAsked
<1>2. ASSUME CliInv, load_program
      PROVE  CliInv'
  <2>1. /\ stage = "load" /\ run_mode \in {"run", "compile", "execute"}
        /\ UNCHANGED << cliArgs, cliFiles, executed >>
        /\ \/ Exits("failure")
           \/ Goes("deserialize") /\ run_mode = "execute"
           \/ Goes("parse") /\ run_mode # "execute"
    BY <1>2 DEF load_program, CliInv, StageKnows
  <2>2. StageKnows'
    BY <1>2, <2>1 DEF CliInv, StageKnows, cliArgs, cliFiles, Modes
  <2> QED
    BY <1>2, <2>1, <2>2, Passing DEF Stages
<1>3. ASSUME CliInv, parse_file
      PROVE  CliInv'
  <2>1. /\ stage = "parse" /\ run_mode \in {"run", "compile"}
        /\ UNCHANGED << cliArgs, cliFiles, executed >>
        /\ Exits("failure") \/ Goes("compile")
    BY <1>3 DEF parse_file, CliInv, StageKnows
  <2>2. StageKnows'
    BY <1>3, <2>1 DEF CliInv, StageKnows, cliArgs, cliFiles, Modes
  <2> QED
    BY <1>3, <2>1, <2>2, Passing DEF Stages
<1>4. ASSUME CliInv, compile_tree
      PROVE  CliInv'
  <2>1. /\ stage = "compile" /\ run_mode \in {"run", "compile"} /\ disk = before
        /\ UNCHANGED << cliArgs, cliFiles, executed >>
        /\ \/ Exits("failure")
           \/ Goes("execute") /\ run_mode = "run" /\ disk[input_path] = "program"
           \/ Goes("open") /\ run_mode # "run" /\ disk[input_path] = "program"
    BY <1>4 DEF compile_tree, CliInv, StageKnows, FilesKept
  <2>2. StageKnows'
    BY <1>4, <2>1 DEF CliInv, StageKnows, cliArgs, cliFiles, Modes
  <2> QED
    BY <1>4, <2>1, <2>2, Passing DEF Stages
<1>5. ASSUME CliInv, deserialize
      PROVE  CliInv'
  <2>1. /\ stage = "deserialize" /\ run_mode = "execute" /\ disk = before
        /\ UNCHANGED << cliArgs, cliFiles, executed >>
        /\ \/ Exits("failure")
           \/ Goes("execute") /\ disk[input_path] \in {"image", "torn"}
    BY <1>5 DEF deserialize, CliInv, StageKnows, FilesKept
  <2>2. StageKnows'
    BY <1>5, <2>1 DEF CliInv, StageKnows, cliArgs, cliFiles, Modes
  <2> QED
    BY <1>5, <2>1, <2>2, Passing DEF Stages
<1> QED
  BY <1>1, <1>2, <1>3, <1>4, <1>5

(* The output file, and the run.                                            *)
LEMMA OutputInv ==
  CliInv /\ (open_output \/ serialize_output \/ execute_code) => CliInv'
<1> USE DEF Exits, Goes, CliInv, CliTypes, cliArgs, cliFiles
<1>1. ASSUME CliInv, open_output
      PROVE  CliInv'
  <2>1. /\ stage = "open" /\ run_mode = "compile" /\ before[input_path] = "program"
        /\ disk = before /\ ~executed
        /\ UNCHANGED << cliArgs, before, lost, executed >>
        /\ \/ Exits("failure") /\ UNCHANGED disk
           \/ /\ Goes("serialize") /\ output_path # NoPath
              /\ disk' = [disk EXCEPT ![output_path] = "torn"]
    BY <1>1 DEF open_output, StageKnows, FilesKept
  <2>2. CliTypes'
    BY <1>1, <2>1 DEF Stages
  <2>3. Taken' /\ OptionsKnown'
    BY <1>1, <2>1 DEF Taken, OptionsKnown
  <2>4. StageKnows' /\ FilesKept'
    BY <1>1, <2>1 DEF StageKnows, FilesKept
  <2> QED
    BY <1>1, <2>1, <2>2, <2>3, <2>4 DEF SuccessIsWritten, RunsOnlyWhenAsked
<1>2. ASSUME CliInv, serialize_output
      PROVE  CliInv'
  <2>1. /\ stage = "serialize" /\ run_mode = "compile" /\ before[input_path] = "program"
        /\ output_path \in DOMAIN disk /\ ~executed
        /\ UNCHANGED << cliArgs, before, executed >>
        /\ Exits("success")
        /\ \/ disk' = [disk EXCEPT ![output_path] = "image"]
           \/ lost' = TRUE /\ UNCHANGED disk
    BY <1>2 DEF serialize_output, StageKnows, Paths
  <2>2. CliTypes' /\ (disk'[output_path] = "image" \/ lost')
    BY <1>2, <2>1 DEF Stages
  <2>3. Taken' /\ OptionsKnown'
    BY <1>2, <2>1 DEF Taken, OptionsKnown
  <2> QED
    BY <1>2, <2>1, <2>2, <2>3 DEF StageKnows, FilesKept, SuccessIsWritten, RunsOnlyWhenAsked
<1>3. ASSUME CliInv, execute_code
      PROVE  CliInv'
  <2>1. /\ stage = "execute"
        /\ \/ run_mode = "run" /\ before[input_path] = "program"
           \/ run_mode = "execute" /\ before[input_path] \in {"image", "torn"}
        /\ disk = before /\ ~executed
        /\ executed' = ("--no-execute" \notin options) /\ Exits("success")
        /\ UNCHANGED << cliArgs, cliFiles >>
    BY <1>3 DEF execute_code, StageKnows, FilesKept
  <2>2. CliTypes' /\ Taken' /\ OptionsKnown'
    BY <1>3, <2>1 DEF Stages, Taken, OptionsKnown
  <2>3. RunsOnlyWhenAsked'
    <3>1. \A k \in 2 .. Len(argv) : Noticed(k)
      BY <1>3, <2>1 DEF OptionsKnown
    <3> QED
      BY <2>1, <3>1 DEF RunsOnlyWhenAsked, Noticed
  <2> QED
    BY <1>3, <2>1, <2>2, <2>3 DEF StageKnows, FilesKept, SuccessIsWritten
<1> QED
  BY <1>1, <1>2, <1>3

LEMMA CliInductive == CliSpec => []CliInv
<1>1. CliInit => CliInv
  <2> SUFFICES ASSUME CliInit
               PROVE  CliInv
    OBVIOUS
  <2>1. /\ argv \in Seq(Words) /\ DOMAIN before = Paths /\ disk = before
        /\ at = 1 /\ run_mode = "none" /\ options = {} /\ input_path = NoPath
        /\ output_path = NoPath /\ stage = "mode" /\ executed = FALSE /\ exit = "none"
    BY WordsAssumption DEF CliInit
  <2>2. CliTypes
    <3>1. at \in Nat \ {0}
      BY <2>1
    <3>2. executed \in BOOLEAN
      BY <2>1
    <3> QED
      BY <2>1, <3>1, <3>2, Zenon DEF CliTypes, Stages
  <2>3. Taken /\ OptionsKnown
    BY <2>1 DEF Taken, OptionsKnown
  <2>4. StageKnows /\ FilesKept
    BY <2>1 DEF StageKnows, FilesKept
  <2> QED
    BY <2>1, <2>2, <2>3, <2>4 DEF CliInv, SuccessIsWritten, RunsOnlyWhenAsked
<1>2. CliInv /\ [main]_cliVars => CliInv'
  <2>1. ASSUME CliInv, UNCHANGED cliVars
        PROVE  CliInv'
    BY <2>1 DEF cliVars, CliInv, CliTypes, Taken, OptionsKnown, Noticed, StageKnows, FilesKept,
                SuccessIsWritten, RunsOnlyWhenAsked
  <2> QED
    BY <2>1, PickModeInv, ParseOptionInv, TakeInputInv, ModesInv, OutputInv DEF main
<1> QED
  BY <1>1, <1>2, PTL DEF CliSpec

-----------------------------------------------------------------------------
(* The file names are words of the call or of what lies behind them, and    *)
(* there is a status exactly at the end (parse_cli_arguments, main).        *)
THEOREM CliTypeCorrect == CliSpec => []CliTypeOK
<1>1. CliInv => CliTypeOK
  <2> SUFFICES ASSUME CliInv
               PROVE  CliTypeOK
    OBVIOUS
  <2>1. Len(argv) \in Nat
    BY DEF CliInv, CliTypes
  <2>2. at \in 1 .. (Len(argv) + 3)
    BY <2>1 DEF CliInv, Taken
  <2> QED
    BY <2>2 DEF CliInv, CliTypes, CliTypeOK
<1> QED
  BY <1>1, CliInductive, PTL

(* A call that fails leaves every file as it was (run_compile opens the     *)
(* output file last).                                                       *)
THEOREM CliFailureLeavesFiles == CliSpec => []FailureLeavesFiles
<1>1. CliInv => FailureLeavesFiles
  BY DEF CliInv, FilesKept, FailureLeavesFiles
<1> QED
  BY <1>1, CliInductive, PTL

(* When compile says that all went well, the program was accepted and the   *)
(* output file is its image, but for writes that were lost (run_compile).   *)
THEOREM CliSuccessIsWritten == CliSpec => []SuccessIsWritten
<1>1. CliInv => SuccessIsWritten
  BY DEF CliInv
<1> QED
  BY <1>1, CliInductive, PTL

(* No program is started that was not accepted, or in spite of a            *)
(* --no-execute before the input file (run_run, run_execute).               *)
THEOREM CliRunsOnlyWhenAsked == CliSpec => []RunsOnlyWhenAsked
<1>1. CliInv => RunsOnlyWhenAsked
  BY DEF CliInv
<1> QED
  BY <1>1, CliInductive, PTL

(* The arguments are read past their end only behind a last --output        *)
(* (parse_option, parse_cli_arguments).                                     *)
THEOREM CliOverrunOnlyBehindOutput == CliSpec => []OverrunOnlyBehindOutput
<1>1. CliInv => OverrunOnlyBehindOutput
  <2> SUFFICES ASSUME CliInv, at > Len(argv) + 1
               PROVE  argv[Len(argv)] = "--output"
    BY DEF OverrunOnlyBehindOutput
  <2>1. Len(argv) \in Nat
    BY DEF CliInv, CliTypes
  <2> QED
    BY <2>1 DEF CliInv, Taken
<1> QED
  BY <1>1, CliInductive, PTL
=============================================================================
