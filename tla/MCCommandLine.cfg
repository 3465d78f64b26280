SPECIFICATION CliSpec
CONSTANTS
  MaxArguments = 4
  Arguments <- MCArguments
  Words <- MCWords
  Inputs <- MCInputs
INVARIANTS
  FailureLeavesFiles
  SuccessIsWritten
  RunsOnlyWhenAsked
  OverrunOnlyBehindOutput
CHECK_DEADLOCK FALSE
