CONSTANTS M = 10
          N = 2
          MSS = 2
          ISN = 5
          MaxRetransmissions = 1
          InitWnds = {9}
          Wnds = {0, 3}
          WriteSizes = {}
          AckThreads = 1
          Closers = {}
          MaxFins = 0
SPECIFICATION FairSpec
PROPERTY OpenResolved
CHECK_DEADLOCK FALSE
