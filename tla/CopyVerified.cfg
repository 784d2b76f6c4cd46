SPECIFICATION Spec
CONSTANTS
  f1 = f1
  f2 = f2
  f3 = f3
  Files = {f1}
  Groups <- OneDownload
  ResumeModes = {TRUE}
  Verify = TRUE
  Parallel = 2
  Sizes = {2}
  MayReplace <- BeforeResuming
  MaxReplaced = 1
  MaxFails = 1
INVARIANTS RightCopy
CHECK_DEADLOCK FALSE
