CONSTANTS
  Entities <- MCFew
  vruntime <- MCEqual
  RbNodes <- MCFewNodes
  NULL = 0
SPECIFICATION RbSpec
INVARIANT RemoveFinds
