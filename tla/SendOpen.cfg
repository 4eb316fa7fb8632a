CONSTANTS M = 10
          N = 2
          MSS = 2
          ISN = 7
          MaxRetransmissions = 1
          InitWnds = {0, 3}
          Wnds = {0, 2, 3}
          WriteSizes = {2}
          AckThreads = 1
          Closers = {}
          MaxFins = 0
SPECIFICATION FairSpec
PROPERTY OpenResolvedBelowWrap
CHECK_DEADLOCK FALSE
