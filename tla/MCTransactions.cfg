CONSTANTS
    q1 = q1
    q2 = q2
    q3 = q3
    t1 = t1
    t2 = t2
    t3 = t3
    Queries = {q1, q2, q3}
    TxnIDs = {t1, t2, t3}
    None = None
SPECIFICATION FairSpec
INVARIANT NoPanic
INVARIANT NoLeak
PROPERTY QueryEnds
