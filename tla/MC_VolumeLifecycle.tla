------------------------- MODULE MC_VolumeLifecycle -------------------------
(* Instantiation of VolumeLifecycle for TLC.  Sizes count 512-byte         *)
(* sectors; the requests of each run are chosen in its .cfg.               *)
EXTENDS VolumeLifecycle, TLC

CONSTANTS n1, n2, s1, s2, c1, e1, e2, r1

\* The clone asks for the size V is created with, with no limit; the two
\* expansions grow V to different sizes.
MCCloneSize == [c \in Clones |-> 1]
MCCloneLimit == [c \in Clones |-> 0]
MCExpandSize == [e \in Expands |-> IF e = e1 THEN 2 ELSE 3]
MCExpandLimit == [e \in Expands |-> 0]

\* The clone request is limited to the size V is created with, smaller than
\* what the expansion grows V to.
MCCloneLimitSmall == [c \in Clones |-> 1]

\* The restore asks for the size V is created with, from the first snapshot.
MCRestoreSnap == [r \in Restores |-> s1]
MCRestoreSize == [r \in Restores |-> 1]

\* Nodes are interchangeable: no constant or action singles one out.
NodeSymmetry == Permutations(Nodes)
=============================================================================
