SPECIFICATION Spec
CONSTANTS
  Programs <- MCPrograms
  Extras <- MCPairExtras
  Own <- MCOwn
  Library <- MCLibrary
  Mains <- MCPairMains
INVARIANT
  ApplicableIsEntered
