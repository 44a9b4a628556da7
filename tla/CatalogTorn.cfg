CONSTANTS
    Tables = {t1, t2}
    Writers = {w1, w2}
    CachePath = TRUE
    MaxPuts = 3
SPECIFICATION StoreSpec
INVARIANT NeverTorn
