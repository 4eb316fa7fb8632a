CONSTANTS M = 20
          N = 4
          MSS = 2
          IRS = 2
          StreamLen = 7
          ReadSizes = {1, 3, 5}
          Workers = 1
          Fitting = TRUE
SPECIFICATION Spec
INVARIANTS TypeOK
           ReadableIntact
           EarlySound
           NoLostReaderWakeup
           FailsOnlyBeyondFin
PROPERTY StreamSpec
CHECK_DEADLOCK FALSE
