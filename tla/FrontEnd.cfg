SPECIFICATION Spec
CONSTANTS
  Programs <- MCPrograms
  Extras <- MCExtras
  Own <- MCOwn
  Library <- MCLibrary
  Mains <- MCMains
INVARIANTS
  OnlyHomonymsMistype
  CodeIsClosed
  CoherenceIsExact
