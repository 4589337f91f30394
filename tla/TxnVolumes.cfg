SPECIFICATION XFairSpec
CONSTANTS
    Threads = {t1, t2}
    NoThread = NoThread
    Shards = {0, 1}
    StoreShards = {0, 1}
    KeyShard <- Spread
    MaxOps = 4
    Restorable = {1, 2}
    Budget <- Few
 
PROPERTY  TxnsReturn
CHECK_DEADLOCK FALSE
