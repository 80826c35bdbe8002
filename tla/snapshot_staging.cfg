CONSTANTS
    n1 = n1  n2 = n2  s1 = s1  s2 = s2  c1 = c1  e1 = e1  e2 = e2  r1 = r1
    Nodes = {n1, n2}
    Snaps = {s1}
    Clones = {}
    Expands = {}
    CreateSize = 2
    CloneSize <- MCCloneSize
    CloneLimit <- MCCloneLimit
    ExpandSize <- MCExpandSize
    ExpandLimit <- MCExpandLimit
    Restores = {r1}
    RestoreSnap <- MCRestoreSnap
    RestoreSize <- MCRestoreSize
    MaxSize = 3
    MaxInodes = 5
    MaxFailures = 1
    Cancellable = {}
SPECIFICATION Spec
SYMMETRY NodeSymmetry
INVARIANT TypeOK StagedNodesCoverWorkers StagedWorkerSeesVolume RestoreCoversSnapshot
PROPERTY ImplementsVolumeStateMachine
