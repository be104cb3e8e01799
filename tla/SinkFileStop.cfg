SPECIFICATION Spec
CONSTANTS
    Kinds = {"filesystem"}
    Results <- plainResults
    ChanSize = 1
    Writers = {w1, w2}
    MaxLen = 1
    MaxResults = 2
INVARIANTS
    StopCommitsAll
