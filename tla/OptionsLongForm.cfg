SPECIFICATION Spec
CONSTANTS
  Programs = {"hackbench", "launcher"}
  Options = {"groups", "file"}
  Arguments <- SmallArguments
  MaxLength = 2
  IntBits = 4
INVARIANTS
  NothingMissing
CHECK_DEADLOCK FALSE
