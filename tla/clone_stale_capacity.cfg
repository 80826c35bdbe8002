CONSTANTS
    n1 = n1  n2 = n2  s1 = s1  s2 = s2  c1 = c1  e1 = e1  e2 = e2  r1 = r1
    Nodes = {n1}
    Snaps = {}
    Clones = {c1}
    Expands = {e1}
    CreateSize = 1
    CloneSize <- MCCloneSize
    CloneLimit <- MCCloneLimit
    ExpandSize <- MCExpandSize
    ExpandLimit <- MCExpandLimit
    Restores = {}
    RestoreSnap <- MCRestoreSnap
    RestoreSize <- MCRestoreSize
    MaxSize = 3
    MaxInodes = 5
    MaxFailures = 0
    Cancellable = {}
SPECIFICATION Spec
INVARIANT DerivedCapacityCoversSource
