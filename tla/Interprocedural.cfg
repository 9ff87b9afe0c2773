SPECIFICATION InterSpec
CONSTANTS
  Modules <- RecursiveModules
  Defined <- DefinedIn
  Extern <- ExternIn
  Callees <- CalleesIn
  Default <- DefaultIn
  Infer <- InferIn
  Rounds = 8
INVARIANTS SummariesAgree StaleIsQueued OrderIndependent
PROPERTY SummariesComputed
CHECK_DEADLOCK FALSE
