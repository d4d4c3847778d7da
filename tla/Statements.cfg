SPECIFICATION ParserSpec
CONSTANTS
  Inputs <- Sources
  Files <- MCFiles
  Programs <- MCPrograms
  Broken <- MCBroken
  MaxCalls = 6
  N = 3
  M = 8
INVARIANTS
  NothingSkipped
  ProgramsAccepted
  FaultsOnStatement
PROPERTIES
  Parses
  StaysInFile
