CONSTANTS M = 20
          N = 4
          MSS = 3
          IRS = 2
          StreamLen = 7
          ReadSizes = {2}
          Workers = 1
          Fitting = FALSE
SPECIFICATION Spec
INVARIANT NeverFails
CHECK_DEADLOCK FALSE
