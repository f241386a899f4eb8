SPECIFICATION FairSpec
CONSTANTS
    t1 = t1
    t2 = t2
    Threads <- TwoThreads
    Pids <- TwoPids
    Polls = 1
    MaxStarts = 2
    MaxStrangers = 1
    MaxRequests = 3
INVARIANTS AtMostOneDaemon NoneForgotten StopIsTrue
PROPERTIES RequestsAnswered RowRecovers
CHECK_DEADLOCK FALSE
