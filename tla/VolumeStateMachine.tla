-------------------------- MODULE VolumeStateMachine --------------------------
(***************************************************************************)
(* What the annotations of a volume's claim promise, with the handlers,    *)
(* Jobs and files left out.  The state annotation serialises the           *)
(* operations on the volume: a snapshot, clone or expansion starts only    *)
(* from idle and ends back in idle; staging starts only from idle or       *)
(* staged, and the state is staged exactly while some node is listed; the  *)
(* capacity is set once by provisioning and afterwards only grows, at the  *)
(* end of an expansion.  A claim being deleted takes no new operation and  *)
(* is removed once no node has it staged.                                  *)
(***************************************************************************)
EXTENDS Naturals

CONSTANTS
    Nodes,      \* nodes that may stage the volume
    MaxSize     \* largest capacity, in sectors

VARIABLES
    present,    \* the claim exists
    deleting,   \* the claim carries a deletion timestamp
    state,      \* the state annotation ("none" before provisioning)
    stagedOn,   \* the staged-on-nodes annotation
    capacity    \* the capacity annotation (0 before provisioning)

avars == <<present, deleting, state, stagedOn, capacity>>

Operations == {"snapshotting", "cloning", "expanding"}

Init ==
    /\ present = TRUE
    /\ deleting = FALSE
    /\ state = "none"
    /\ stagedOn = {}
    /\ capacity = 0

\* Provisioning labels the claim, sets it idle with its capacity; a retry
\* before the volume is handed out repeats the same values.
Provision ==
    /\ present /\ stagedOn = {}
    /\ \/ state = "none" /\ ~deleting /\ capacity' \in 1..MaxSize
       \/ state = "idle" /\ capacity' = capacity
    /\ state' = "idle"
    /\ UNCHANGED <<present, deleting, stagedOn>>

\* An operation takes the volume from idle.
Begin(op) ==
    /\ present /\ ~deleting /\ state = "idle"
    /\ state' = op
    /\ UNCHANGED <<present, deleting, stagedOn, capacity>>

\* An operation hands the volume back; only an expansion changes the
\* capacity, and only upwards.
End(op) ==
    /\ present /\ state = op
    /\ state' = "idle"
    /\ IF op = "expanding" THEN capacity' \in capacity..MaxSize
                           ELSE capacity' = capacity
    /\ UNCHANGED <<present, deleting, stagedOn>>

Stage(n) ==
    /\ present /\ ~deleting /\ state \in {"idle", "staged"}
    /\ state' = "staged"
    /\ stagedOn' = stagedOn \cup {n}
    /\ UNCHANGED <<present, deleting, capacity>>

Unstage(n) ==
    /\ present /\ state = "staged"
    /\ stagedOn' = stagedOn \ {n}
    /\ state' = IF stagedOn' = {} THEN "idle" ELSE "staged"
    /\ UNCHANGED <<present, deleting, capacity>>

\* The user deletes the claim; one not yet provisioned carries no
\* finalizer and goes away at once.
MarkDeleted ==
    /\ present /\ ~deleting
    /\ deleting' = TRUE
    /\ present' = (state # "none")
    /\ UNCHANGED <<state, stagedOn, capacity>>

\* The cleanup finalizer is removed once no node has the volume staged.
\* The reaper does not look at the state (monitor.go:151), so neither does
\* this action, although spec section 3, invariant 4 asks for idle; the
\* delete_during_create run shows what that costs.
Remove ==
    /\ present /\ deleting /\ state # "none" /\ stagedOn = {}
    /\ present' = FALSE
    /\ UNCHANGED <<deleting, state, stagedOn, capacity>>

Next ==
    \/ Provision
    \/ \E op \in Operations : Begin(op) \/ End(op)
    \/ \E n \in Nodes : Stage(n) \/ Unstage(n)
    \/ MarkDeleted
    \/ Remove

Spec == Init /\ [][Next]_avars

=============================================================================
