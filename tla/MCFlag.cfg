SPECIFICATION Spec
CONSTANTS
  Imm = 9
  High = 3
  Programs <- FlagPrograms
INVARIANTS
  ResultsAgree
