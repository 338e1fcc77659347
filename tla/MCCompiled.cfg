SPECIFICATION Spec
CONSTANTS
  Imm = 9
  High = 3
  Programs <- Legal
INVARIANTS
  ResultsAgree
  AssignmentsTurned
  AssertionsHold
  CodeAssembles
  ReadsWritten
