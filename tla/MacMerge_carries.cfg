\* What the comments on the merge say of every setting it carries.
SPECIFICATION MergeSpec
CONSTANTS
  Mac = {"a", "b", "c"}
  Old = "a"
  New = "b"
  MaxMerges = 2
  MaxFail = 1
  MaxCrash = 1
INVARIANT MergesUnlessBroken
CHECK_DEADLOCK FALSE
