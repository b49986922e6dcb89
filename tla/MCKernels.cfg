CONSTANTS
  Calls <- MCCalls
  Program <- MCProgram
SPECIFICATION Spec
INVARIANTS
  TypeOK
  RightMessage
  NeverStuck
  RequestsComplete
  IInv
  InStep
  NothingLeft
