SPECIFICATION FairSpec
CONSTANTS
    t1 = t1
    d1 = d1
    d2 = d2
    Deliveries = {d1, d2}
    Tasks = {t1}
    Workers = {w1, w2}
    Rate = 2
    MaxEntries = 1
    MaxServers = 2
    Traffic <- MCTraffic
INVARIANTS WorkedOnce RetriesAreFree
PROPERTIES RequestAnswered
CHECK_DEADLOCK FALSE
