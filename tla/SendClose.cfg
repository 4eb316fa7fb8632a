CONSTANTS M = 11
          N = 2
          MSS = 2
          ISN = 7
          MaxRetransmissions = 0
          InitWnds = {0}
          Wnds = {0, 2}
          WriteSizes = {3}
          AckThreads = 1
          Closers = {c1}
          MaxFins = 2
SPECIFICATION Spec
INVARIANTS TypeOK
           PointerOrder
           InFlightCovered
           PayloadIntact
           WindowRespected
           NoLostWriterWakeup
CHECK_DEADLOCK FALSE
