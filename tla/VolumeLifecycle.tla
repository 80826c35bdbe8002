--------------------------- MODULE VolumeLifecycle ---------------------------
(***************************************************************************)
(* The lifecycle of one subprovisioner volume V: its PersistentVolumeClaim *)
(* (the single source of truth: state, staged-on-nodes, capacity,          *)
(* finalizer, deletion timestamp), the controller RPC handlers that        *)
(* provision, snapshot, clone and expand it, the node RPC handlers that    *)
(* stage and unstage it, the one-shot Jobs that run the image scripts on   *)
(* the shared directory, the staging workers, and the deletion reaper.     *)
(*                                                                         *)
(* Every handler is a process whose steps are its API calls; between two  *)
(* steps any other process may move.  A handler whose call fails (context *)
(* deadline, lost response, exhausted conflict retries) returns an error   *)
(* and its caller (sidecar or kubelet) retries the RPC from the start;    *)
(* such failures are bounded by MaxFailures.                               *)
(***************************************************************************)
EXTENDS Naturals, FiniteSets, FiniteSetsExt

CONSTANTS
    Nodes,        \* nodes running the node plugin
    Snaps,        \* CreateSnapshot requests, one per VolumeSnapshot
    Clones,       \* CreateVolume requests whose content source is V
    Expands,      \* ControllerExpandVolume requests for V
    CreateSize,   \* capacity of the CreateVolume request that provisions V
    CloneSize,    \* [Clones -> capacity requested by the clone]
    CloneLimit,   \* [Clones -> capacity limit of the clone request, 0 = none]
    ExpandSize,   \* [Expands -> capacity requested by the expansion]
    ExpandLimit,  \* [Expands -> capacity limit of the expansion, 0 = none]
    Restores,     \* CreateVolume requests whose content source is a snapshot of V
    RestoreSnap,  \* [Restores -> the snapshot restored]
    RestoreSize,  \* [Restores -> capacity requested by the restore]
    MaxSize,      \* sizes are counted in 512-byte sectors, 1..MaxSize
    MaxInodes,    \* inodes the shared directory may hold at once
    MaxFailures,  \* bound on injected RPC/pod failures
    Cancellable   \* snapshots and clones whose object the user may delete

ASSUME CreateSize \in 1..MaxSize
ASSUME CloneSize \in [Clones -> 1..MaxSize] /\ ExpandSize \in [Expands -> 1..MaxSize]
ASSUME CloneLimit \in [Clones -> 0..MaxSize] /\ ExpandLimit \in [Expands -> 0..MaxSize]
ASSUME RestoreSnap \in [Restores -> Snaps] /\ RestoreSize \in [Restores -> 1..MaxSize]
ASSUME Cancellable \subseteq Snaps \cup Clones

VARIABLES
    pvc,        \* the claim object of V
    bound,      \* CreateVolume returned success: the CO now issues the other RPCs
    files,      \* directory entries of the shared directory: path -> inode (0 = none)
    inode,      \* inode -> [size, backing path, sealed (write bits cleared)]
    jobs,       \* Job objects: name -> [phase, arg, step]
    snapSize,   \* the size annotation of each VolumeSnapshot (0 = not set)
    prov,       \* pc of the CreateVolume handler provisioning V
    ctl,        \* controller handlers: request -> [pc, cap (capacity read from the claim)]
    kubelet,    \* node handlers: node -> pc
    rs,         \* node -> the staging ReplicaSet exists
    attached,   \* node -> inode opened by its running staging worker (0 = none)
    dev,        \* node -> a block node exists at the staging path
    reaper,     \* the deletion reaper: [pc, queued]
    seen,       \* the claim as last delivered by the reaper's informer
    failures

vars == <<pvc, bound, files, inode, jobs, snapSize, prov, ctl, kubelet, rs,
          attached, dev, reaper, seen, failures>>

-----------------------------------------------------------------------------
(* Files and inodes of the shared directory.                               *)

PvcPath      == <<"pvc", "V">>        \* pvc-<vid>.qcow2
NewPath      == <<"new", "V">>        \* pvc-<vid>.qcow2.new
SnapPath(s)  == <<"snapshot", s>>     \* snapshot-<sid>.qcow2
AncPath(c)   == <<"cloned", c>>       \* cloned-<vid>-to-<dstvid>.qcow2
DestPath(c)  == <<"dest", c>>         \* pvc-<dstvid>.qcow2
RestPath(r)  == <<"restored", r>>     \* pvc-<dstvid>.qcow2 of a restore
NoPath       == <<"none", "none">>
Paths == {PvcPath, NewPath} \cup {SnapPath(s) : s \in Snaps}
           \cup {AncPath(c) : c \in Clones} \cup {DestPath(c) : c \in Clones}
           \cup {RestPath(r) : r \in Restores}

InodeIds == 1..MaxInodes
Inode == [size : 0..MaxSize, backing : Paths \cup {NoPath}, sealed : BOOLEAN]
FreeInode == [size |-> 0, backing |-> NoPath, sealed |-> FALSE]

\* An inode lives while a directory entry or an open file refers to it.
Referenced(f, att) == ({f[p] : p \in Paths} \cup {att[n] : n \in Nodes}) \ {0}
Reclaim(ino, f, att) ==
    [i \in InodeIds |-> IF i \in Referenced(f, att) THEN ino[i] ELSE FreeInode]

\* Replace the directory, freeing the inodes nothing refers to any more.
SetFiles(f) == /\ files' = f
               /\ inode' = Reclaim(inode, f, attached)

\* qemu-img create -f qcow2 [-b backing] path size: truncates and rewrites
\* the file at path if there is one (failing on a read-only file), else
\* creates a new one.
QemuImgCreate(path, size, backing) ==
    LET img == [size |-> size, backing |-> backing, sealed |-> FALSE] IN
    \/ /\ files[path] # 0
       /\ ~inode[files[path]].sealed
       /\ inode' = [inode EXCEPT ![files[path]] = img]
       /\ UNCHANGED files
    \/ /\ files[path] = 0
       /\ \E i \in InodeIds \ Referenced(files, attached) :
             /\ files' = [files EXCEPT ![path] = i]
             /\ inode' = [inode EXCEPT ![i] = img]

SizeAt(p) == inode[files[p]].size

-----------------------------------------------------------------------------
(* Jobs.  Names are deterministic: one creation, deletion and expansion    *)
(* Job for V, one snapshotting Job per snapshot, one creation Job per      *)
(* clone or restore destination.                                           *)

JobNames == {"create", "delete", "expand"} \cup Snaps \cup Clones \cup Restores
NoJob == [phase |-> "absent", arg |-> 0, step |-> 0]

\* CreateJob: idempotent, an existing Job (and its arguments) is kept.
CreateJob(j, arg) ==
    jobs' = IF jobs[j].phase = "absent"
            THEN [jobs EXCEPT ![j] = [phase |-> "active", arg |-> arg, step |-> 0]]
            ELSE jobs

\* DeleteJobSynchronously: foreground deletion kills a running pod.
DeleteJob(j) == jobs' = [jobs EXCEPT ![j] = NoJob]

JobAt(j, k) == jobs[j].phase = "active" /\ jobs[j].step = k
JobNext(j) == jobs' = [jobs EXCEPT ![j].step = @ + 1]
JobDone(j) == jobs' = [jobs EXCEPT ![j].phase = "succeeded", ![j].step = 0]

-----------------------------------------------------------------------------
(* The claim.                                                              *)

States == {"none", "idle", "expanding", "cloning", "snapshotting", "staged"}
Claim == [exists : BOOLEAN, labelled : BOOLEAN, state : States,
          stagedOn : SUBSET Nodes, capacity : 0..MaxSize,
          deleting : BOOLEAN, finalizer : BOOLEAN]

\* Mutant of StateAccepts: a claim being deleted is accepted too.
StateAcceptsWhileDeleting(newState) ==
    pvc.state \in {newState, "idle"}

\* SetPvcStateTo, the branch taken on the freshly read claim: TRUE when the
\* claim may enter newState (already in it, or idle).
StateAccepts(newState) ==
    /\ ~pvc.deleting
    /\ pvc.state \in {newState, "idle"}

\* The handler-local variables: pc and the capacity read from the claim.
CtlPc == {"start", "setState", "patchSnap", "createJob", "waitJob",
          "deleteJob", "setIdle", "patch", "done", "abandoned"}
Requests == Snaps \cup Clones \cup Expands \cup Restores
KubeletPc == {"unstaged", "stagePvc", "createRS", "waitDev", "staged",
              "findRS", "deleteRS", "removeDev", "unstagePvc"}
ReaperPc == {"idle", "deleteCreateJob", "createDelJob", "waitDelJob",
             "deleteDelJob", "removeFinalizer"}

TypeOK ==
    /\ pvc \in Claim
    /\ bound \in BOOLEAN
    /\ files \in [Paths -> 0..MaxInodes]
    /\ inode \in [InodeIds -> Inode]
    /\ jobs \in [JobNames -> [phase : {"absent", "active", "succeeded"},
                              arg : 0..MaxSize, step : 0..4]]
    /\ snapSize \in [Snaps -> 0..MaxSize]
    /\ prov \in {"start", "patch", "createJob", "waitJob", "done"}
    /\ ctl \in [Requests -> [pc : CtlPc, cap : 0..MaxSize]]
    /\ kubelet \in [Nodes -> KubeletPc]
    /\ rs \in [Nodes -> BOOLEAN]
    /\ attached \in [Nodes -> 0..MaxInodes]
    /\ dev \in [Nodes -> BOOLEAN]
    /\ reaper \in [pc : ReaperPc, queued : BOOLEAN]
    /\ seen \in Claim
    /\ failures \in 0..MaxFailures

Init ==
    /\ pvc = [exists |-> TRUE, labelled |-> FALSE, state |-> "none",
              stagedOn |-> {}, capacity |-> 0, deleting |-> FALSE,
              finalizer |-> FALSE]
    /\ bound = FALSE
    /\ files = [p \in Paths |-> 0]
    /\ inode = [i \in InodeIds |-> FreeInode]
    /\ jobs = [j \in JobNames |-> NoJob]
    /\ snapSize = [s \in Snaps |-> 0]
    /\ prov = "start"
    /\ ctl = [r \in Requests |-> [pc |-> "start", cap |-> 0]]
    /\ kubelet = [n \in Nodes |-> "unstaged"]
    /\ rs = [n \in Nodes |-> FALSE]
    /\ attached = [n \in Nodes |-> 0]
    /\ dev = [n \in Nodes |-> FALSE]
    /\ reaper = [pc |-> "idle", queued |-> FALSE]
    /\ seen = pvc
    /\ failures = 0

Fail == /\ failures < MaxFailures
        /\ failures' = failures + 1

-----------------------------------------------------------------------------
(* CreateVolume with no content source: the CreateVolume handler that     *)
(* provisions V (pvc: Get, StrategicMergePatchPvc; createVolumeFromNothing).*)

\* Get the claim.  The provisioner issues the RPC until the claim is bound,
\* and gives up on a claim that is being deleted.
ProvStart ==
    /\ prov = "start"
    /\ pvc.exists /\ ~pvc.deleting /\ ~bound
    /\ prov' = "patch"
    /\ UNCHANGED <<pvc, bound, files, inode, jobs, snapSize, ctl, kubelet, rs,
                   attached, dev, reaper, seen, failures>>

\* Mutant of ProvPatch: the capacity annotation is written in bytes.
ProvPatchBytes ==
    /\ prov = "patch"
    /\ IF pvc.exists /\ (~pvc.deleting \/ pvc.finalizer)
       THEN /\ pvc' = [pvc EXCEPT !.labelled = TRUE, !.capacity = CreateSize * 512,
                                  !.state = "idle", !.finalizer = TRUE]
            /\ prov' = "createJob"
       ELSE /\ prov' = "start"
            /\ UNCHANGED pvc
    /\ UNCHANGED <<bound, files, inode, jobs, snapSize, ctl, kubelet, rs,
                   attached, dev, reaper, seen, failures>>

\* Label, annotations (capacity, state=idle) and the cleanup finalizer in one
\* patch.  The API server refuses a new finalizer on a claim being deleted,
\* and the patch of a removed claim fails with NotFound.
ProvPatch ==
    /\ prov = "patch"
    /\ IF pvc.exists /\ (~pvc.deleting \/ pvc.finalizer)
       THEN /\ pvc' = [pvc EXCEPT !.labelled = TRUE, !.capacity = CreateSize,
                                  !.state = "idle", !.finalizer = TRUE]
            /\ prov' = "createJob"
       ELSE /\ prov' = "start"
            /\ UNCHANGED pvc
    /\ UNCHANGED <<bound, files, inode, jobs, snapSize, ctl, kubelet, rs,
                   attached, dev, reaper, seen, failures>>

ProvCreateJob ==
    /\ prov = "createJob"
    /\ CreateJob("create", CreateSize)
    /\ prov' = "waitJob"
    /\ UNCHANGED <<pvc, bound, files, inode, snapSize, ctl, kubelet, rs,
                   attached, dev, reaper, seen, failures>>

\* WaitForJobToSucceed: a Job that no longer exists is an error.
ProvWaitJob ==
    /\ prov = "waitJob"
    /\ jobs["create"].phase # "active"
    /\ IF jobs["create"].phase = "succeeded"
       THEN prov' = "done" /\ bound' = TRUE
       ELSE prov' = "start" /\ UNCHANGED bound
    /\ UNCHANGED <<pvc, files, inode, jobs, snapSize, ctl, kubelet, rs,
                   attached, dev, reaper, seen, failures>>

\* A call of the provisioning handler fails, or the wait for the creation
\* Job reaches the RPC deadline: the provisioner retries CreateVolume.
ProvFail ==
    /\ \/ prov \in {"patch", "createJob", "waitJob"} /\ Fail
       \/ prov = "waitJob" /\ jobs["create"].phase = "active"
          /\ UNCHANGED failures
    /\ prov' = "start"
    /\ UNCHANGED <<pvc, bound, files, inode, jobs, snapSize, ctl, kubelet, rs,
                   attached, dev, reaper, seen>>

-----------------------------------------------------------------------------
(* The controller RPC handlers that mutate V: CreateSnapshot, CreateVolume *)
(* from V (createVolumeFromVolume) and ControllerExpandVolume.  Each reads *)
(* the claim by label (FindPvcByLabelSelector), keeps that copy, and only  *)
(* then moves the claim's state out of idle (SetPvcStateTo).               *)

nodeVars == <<kubelet, rs, attached, dev>>
reaperVars == <<reaper, seen>>

Goto(r, pc) == ctl' = [ctl EXCEPT ![r].pc = pc]
At(r, pc) == ctl[r].pc = pc

\* FindPvcByLabelSelector: the claim of a bound volume, read once; the
\* handler keeps the capacity annotation of this copy.
Find(r) ==
    /\ At(r, "start")
    /\ bound /\ pvc.exists /\ pvc.labelled
    /\ ctl' = [ctl EXCEPT ![r] = [pc |-> "setState", cap |-> pvc.capacity]]

\* SetPvcStateTo(newState), one RetryOnConflict round that got through:
\* success when the state is newState or idle, FailedPrecondition (the
\* sidecar retries the RPC) otherwise.
SetPvcStateTo(r, newState, next) ==
    /\ At(r, "setState")
    /\ IF pvc.exists /\ StateAccepts(newState)
       THEN /\ pvc' = [pvc EXCEPT !.state = newState]
            /\ Goto(r, next)
       ELSE /\ Goto(r, "start")
            /\ UNCHANGED pvc

\* Mutant of SetPvcStateToIdle: the patch is dropped.
SetPvcStateToIdleSkipped(r) ==
    /\ At(r, "setIdle")
    /\ IF pvc.exists
       THEN UNCHANGED pvc /\ Goto(r, "done")
       ELSE Goto(r, "start") /\ UNCHANGED pvc

\* SetPvcStateToIdle: an unconditional patch of the state annotation.
SetPvcStateToIdle(r) ==
    /\ At(r, "setIdle")
    /\ IF pvc.exists
       THEN pvc' = [pvc EXCEPT !.state = "idle"] /\ Goto(r, "done")
       ELSE Goto(r, "start") /\ UNCHANGED pvc

\* Mutant of WaitJob: a succeeded Job is taken for a failed one.
WaitJobRestart(r, j, next) ==
    /\ At(r, "waitJob")
    /\ jobs[j].phase # "active"
    /\ Goto(r, "start")

\* WaitForJobToSucceed on job j: succeeded -> next; gone -> error.
WaitJob(r, j, next) ==
    /\ At(r, "waitJob")
    /\ jobs[j].phase # "active"
    /\ Goto(r, IF jobs[j].phase = "succeeded" THEN next ELSE "start")

\* CreateSnapshot s --------------------------------------------------------

SnapFind(s) ==
    /\ Find(s)
    /\ UNCHANGED <<pvc, bound, files, inode, jobs, snapSize, prov, nodeVars,
                   reaperVars, failures>>

SnapSetState(s) ==
    /\ SetPvcStateTo(s, "snapshotting", "patchSnap")
    /\ UNCHANGED <<bound, files, inode, jobs, snapSize, prov, nodeVars,
                   reaperVars, failures>>

\* Mutant of SnapPatch: the size annotation is never written.
SnapPatchSkipped(s) ==
    /\ At(s, "patchSnap")
    /\ Goto(s, "createJob")
    /\ UNCHANGED <<pvc, bound, files, inode, jobs, snapSize, prov, nodeVars,
                   reaperVars, failures>>

\* MergePatchVolumeSnapshot: the size annotation is the capacity read by Find.
SnapPatch(s) ==
    /\ At(s, "patchSnap")
    /\ snapSize' = [snapSize EXCEPT ![s] = ctl[s].cap]
    /\ Goto(s, "createJob")
    /\ UNCHANGED <<pvc, bound, files, inode, jobs, prov, nodeVars, reaperVars,
                   failures>>

SnapCreateJob(s) ==
    /\ At(s, "createJob")
    /\ CreateJob(s, 0)
    /\ Goto(s, "waitJob")
    /\ UNCHANGED <<pvc, bound, files, inode, snapSize, prov, nodeVars,
                   reaperVars, failures>>

SnapWaitJob(s) ==
    /\ WaitJob(s, s, "deleteJob")
    /\ UNCHANGED <<pvc, bound, files, inode, jobs, snapSize, prov, nodeVars,
                   reaperVars, failures>>

SnapDeleteJob(s) ==
    /\ At(s, "deleteJob")
    /\ DeleteJob(s)
    /\ Goto(s, "setIdle")
    /\ UNCHANGED <<pvc, bound, files, inode, snapSize, prov, nodeVars,
                   reaperVars, failures>>

SnapSetIdle(s) ==
    /\ SetPvcStateToIdle(s)
    /\ UNCHANGED <<bound, files, inode, jobs, snapSize, prov, nodeVars,
                   reaperVars, failures>>

\* CreateVolume from V for clone c ------------------------------------------

CloneFind(c) ==
    /\ Find(c)
    /\ UNCHANGED <<pvc, bound, files, inode, jobs, snapSize, prov, nodeVars,
                   reaperVars, failures>>

CloneSetState(c) ==
    /\ SetPvcStateTo(c, "cloning", "createJob")
    /\ UNCHANGED <<bound, files, inode, jobs, snapSize, prov, nodeVars,
                   reaperVars, failures>>

\* With the source already "cloning": a source capacity (read by Find) above
\* the request's limit is InvalidArgument; otherwise the clone's capacity
\* is raised to the source capacity and the creation Job is created.
CloneCreateJob(c) ==
    /\ At(c, "createJob")
    /\ IF CloneLimit[c] # 0 /\ ctl[c].cap > CloneLimit[c]
       THEN Goto(c, "start") /\ UNCHANGED jobs
       ELSE /\ CreateJob(c, Max({CloneSize[c], ctl[c].cap}))
            /\ Goto(c, "waitJob")
    /\ UNCHANGED <<pvc, bound, files, inode, snapSize, prov, nodeVars,
                   reaperVars, failures>>

CloneWaitJob(c) ==
    /\ WaitJob(c, c, "setIdle")
    /\ UNCHANGED <<pvc, bound, files, inode, jobs, snapSize, prov, nodeVars,
                   reaperVars, failures>>

CloneSetIdle(c) ==
    /\ SetPvcStateToIdle(c)
    /\ UNCHANGED <<bound, files, inode, jobs, snapSize, prov, nodeVars,
                   reaperVars, failures>>

\* CreateVolume from snapshot RestoreSnap[r] for restore r -------------------
\* The CO issues it once CreateSnapshot has succeeded (the VolumeSnapshot is
\* ready to use).  The request sets no capacity limit.

\* FindVolumeSnapshotByLabelSelector and the size annotation of the
\* VolumeSnapshot; the restore does not touch the source claim.
RestoreFind(r) ==
    /\ At(r, "start")
    /\ At(RestoreSnap[r], "done")
    /\ ctl' = [ctl EXCEPT ![r] = [pc |-> "createJob", cap |-> snapSize[RestoreSnap[r]]]]
    /\ UNCHANGED <<pvc, bound, files, inode, jobs, snapSize, prov, nodeVars,
                   reaperVars, failures>>

\* Mutant of RestoreCreateJob: the capacity is not raised to the snapshot size.
RestoreCreateJobNoRaise(r) ==
    /\ At(r, "createJob")
    /\ CreateJob(r, RestoreSize[r])
    /\ Goto(r, "waitJob")
    /\ UNCHANGED <<pvc, bound, files, inode, snapSize, prov, nodeVars,
                   reaperVars, failures>>

\* The capacity is raised to the snapshot size; the creation Job runs
\* qemu-img create -b snapshot-<sid>.qcow2 on the destination image.
RestoreCreateJob(r) ==
    /\ At(r, "createJob")
    /\ CreateJob(r, Max({RestoreSize[r], ctl[r].cap}))
    /\ Goto(r, "waitJob")
    /\ UNCHANGED <<pvc, bound, files, inode, snapSize, prov, nodeVars,
                   reaperVars, failures>>

\* The creation Job is kept until the destination volume is deleted.
RestoreWaitJob(r) ==
    /\ WaitJob(r, r, "done")
    /\ UNCHANGED <<pvc, bound, files, inode, jobs, snapSize, prov, nodeVars,
                   reaperVars, failures>>

\* ControllerExpandVolume e --------------------------------------------------

\* A current capacity above the request's limit is InvalidArgument (the
\* handler returns before any change); a volume already at least as large
\* returns success at once.
ExpandFind(e) ==
    /\ At(e, "start")
    /\ bound /\ pvc.exists /\ pvc.labelled
    /\ ~(ExpandLimit[e] # 0 /\ pvc.capacity > ExpandLimit[e])
    /\ ctl' = [ctl EXCEPT ![e] =
                 [pc |-> IF pvc.capacity >= ExpandSize[e] THEN "done" ELSE "setState",
                  cap |-> pvc.capacity]]
    /\ UNCHANGED <<pvc, bound, files, inode, jobs, snapSize, prov, nodeVars,
                   reaperVars, failures>>

ExpandSetState(e) ==
    /\ SetPvcStateTo(e, "expanding", "createJob")
    /\ UNCHANGED <<bound, files, inode, jobs, snapSize, prov, nodeVars,
                   reaperVars, failures>>

ExpandCreateJob(e) ==
    /\ At(e, "createJob")
    /\ CreateJob("expand", ExpandSize[e])
    /\ Goto(e, "waitJob")
    /\ UNCHANGED <<pvc, bound, files, inode, snapSize, prov, nodeVars,
                   reaperVars, failures>>

ExpandWaitJob(e) ==
    /\ WaitJob(e, "expand", "deleteJob")
    /\ UNCHANGED <<pvc, bound, files, inode, jobs, snapSize, prov, nodeVars,
                   reaperVars, failures>>

ExpandDeleteJob(e) ==
    /\ At(e, "deleteJob")
    /\ DeleteJob("expand")
    /\ Goto(e, "patch")
    /\ UNCHANGED <<pvc, bound, files, inode, snapSize, prov, nodeVars,
                   reaperVars, failures>>

\* Capacity and state=idle in one strategic merge patch.
ExpandPatch(e) ==
    /\ At(e, "patch")
    /\ IF pvc.exists
       THEN /\ pvc' = [pvc EXCEPT !.capacity = ExpandSize[e], !.state = "idle"]
            /\ Goto(e, "done")
       ELSE Goto(e, "start") /\ UNCHANGED pvc
    /\ UNCHANGED <<bound, files, inode, jobs, snapSize, prov, nodeVars,
                   reaperVars, failures>>

\* A call of handler r fails, or its response is lost: the sidecar retries
\* the RPC from the start; what the handler already changed stays.
CtlFail(r) ==
    /\ ~At(r, "start")
    /\ Fail
    /\ Goto(r, "start")
    /\ UNCHANGED <<pvc, bound, files, inode, jobs, snapSize, prov, nodeVars,
                   reaperVars>>

\* WaitForJobToSucceed polls while the Job has not succeeded, until the
\* RPC's deadline: the sidecar then retries the RPC.  Not a failure: the
\* deadline always comes when the Job does not finish first.
JobOf(r) == IF r \in Expands THEN "expand" ELSE r
WaitTimeout(r) ==
    /\ At(r, "waitJob")
    /\ jobs[JobOf(r)].phase = "active"
    /\ Goto(r, "start")
    /\ UNCHANGED <<pvc, bound, files, inode, jobs, snapSize, prov, nodeVars,
                   reaperVars, failures>>

\* The user deletes the VolumeSnapshot, or the clone's new claim, before
\* the request has succeeded: the sidecar stops issuing the RPC.  A call in
\* flight runs on until it returns, so the request is abandoned between
\* two calls.  Nothing in the driver notices (TODOs at part_003:29-32 and
\* 426-430).
Abandon(r) ==
    /\ r \in Cancellable
    /\ At(r, "start")
    /\ Goto(r, "abandoned")
    /\ UNCHANGED <<pvc, bound, files, inode, jobs, snapSize, prov, nodeVars,
                   reaperVars, failures>>

-----------------------------------------------------------------------------
(* The Jobs' pods running the image scripts on the shared directory.  A    *)
(* failing command (errexit) ends the pod and the Job's next pod reruns    *)
(* the script.  A later command reads a file an earlier command of the    *)
(* same script made, which only another script of V (run at once when      *)
(* SetPvcStateTo lets two requests in) can move away; a failed first        *)
(* command is rerun to no effect, so a command whose file is missing is     *)
(* modelled as not taking its step, and reruns come from JobPodFails.       *)

ctlVars == <<pvc, bound, snapSize, prov, ctl>>

\* Mutant of RunCreateJob: the image is one sector short.
RunCreateJobShort ==
    /\ JobAt("create", 0)
    /\ QemuImgCreate(PvcPath, jobs["create"].arg - 1, NoPath)
    /\ JobDone("create")
    /\ UNCHANGED <<ctlVars, nodeVars, reaperVars, failures>>

\* qemu-img create -f qcow2 pvc-<vid>.qcow2 <capacity>
RunCreateJob ==
    /\ JobAt("create", 0)
    /\ QemuImgCreate(PvcPath, jobs["create"].arg, NoPath)
    /\ JobDone("create")
    /\ UNCHANGED <<ctlVars, nodeVars, reaperVars, failures>>

\* rm -f pvc-<vid>.qcow2
RunDeleteJob ==
    /\ JobAt("delete", 0)
    /\ SetFiles([files EXCEPT ![PvcPath] = 0])
    /\ JobDone("delete")
    /\ UNCHANGED <<ctlVars, nodeVars, reaperVars, failures>>

\* Mutant of RunExpandJob: the size test is inverted, nothing is resized.
RunExpandJobNoResize ==
    /\ JobAt("expand", 0)
    /\ files[PvcPath] # 0
    /\ ~inode[files[PvcPath]].sealed
    /\ JobDone("expand")
    /\ UNCHANGED <<files, inode, ctlVars, nodeVars, reaperVars, failures>>

\* qemu-img info, then qemu-img resize only to grow; resize needs write access.
RunExpandJob ==
    /\ JobAt("expand", 0)
    /\ files[PvcPath] # 0
    /\ \/ /\ SizeAt(PvcPath) >= jobs["expand"].arg
          /\ UNCHANGED inode
       \/ /\ SizeAt(PvcPath) < jobs["expand"].arg
          /\ ~inode[files[PvcPath]].sealed
          /\ inode' = [inode EXCEPT ![files[PvcPath]].size = jobs["expand"].arg]
    /\ JobDone("expand")
    /\ UNCHANGED <<files, ctlVars, nodeVars, reaperVars, failures>>

\* The snapshotting script of snapshot s, one command per step.
RunSnapJob(s) ==
    \/ /\ JobAt(s, 0)                   \* ln -f pvc snapshot
       /\ files[PvcPath] # 0
       /\ SetFiles([files EXCEPT ![SnapPath(s)] = files[PvcPath]])
       /\ JobNext(s)
    \/ /\ JobAt(s, 1)                   \* qemu-img create -b snapshot pvc.new
       /\ files[SnapPath(s)] # 0
       /\ QemuImgCreate(NewPath, SizeAt(SnapPath(s)), SnapPath(s))
       /\ JobNext(s)
    \/ /\ JobAt(s, 2)                   \* mv -f pvc.new pvc
       /\ files[NewPath] # 0
       /\ SetFiles([files EXCEPT ![PvcPath] = files[NewPath], ![NewPath] = 0])
       /\ JobNext(s)
    \/ /\ JobAt(s, 3)                   \* chmod a-w snapshot
       /\ files[SnapPath(s)] # 0
       /\ inode' = [inode EXCEPT ![files[SnapPath(s)]].sealed = TRUE]
       /\ UNCHANGED files
       /\ JobDone(s)

\* The creation script of clone c.
RunCloneJob(c) ==
    \/ /\ JobAt(c, 0)                   \* ln -f source ancestor
       /\ files[PvcPath] # 0
       /\ SetFiles([files EXCEPT ![AncPath(c)] = files[PvcPath]])
       /\ JobNext(c)
    \/ /\ JobAt(c, 1)                   \* qemu-img create -b ancestor dest capacity
       /\ files[AncPath(c)] # 0
       /\ QemuImgCreate(DestPath(c), jobs[c].arg, AncPath(c))
       /\ JobNext(c)
    \/ /\ JobAt(c, 2)                   \* qemu-img create -b ancestor source.new
       /\ files[AncPath(c)] # 0
       /\ QemuImgCreate(NewPath, SizeAt(AncPath(c)), AncPath(c))
       /\ JobNext(c)
    \/ /\ JobAt(c, 3)                   \* mv -f source.new source
       /\ files[NewPath] # 0
       /\ SetFiles([files EXCEPT ![PvcPath] = files[NewPath], ![NewPath] = 0])
       /\ JobNext(c)
    \/ /\ JobAt(c, 4)                   \* chmod a-w ancestor
       /\ files[AncPath(c)] # 0
       /\ inode' = [inode EXCEPT ![files[AncPath(c)]].sealed = TRUE]
       /\ UNCHANGED files
       /\ JobDone(c)

\* The creation Job of restore r: one qemu-img create, which opens the
\* backing snapshot.
RunRestoreJob(r) ==
    /\ JobAt(r, 0)
    /\ files[SnapPath(RestoreSnap[r])] # 0
    /\ QemuImgCreate(RestPath(r), jobs[r].arg, SnapPath(RestoreSnap[r]))
    /\ JobDone(r)

RunScript(j) ==
    /\ \/ j \in Snaps /\ RunSnapJob(j)
       \/ j \in Clones /\ RunCloneJob(j)
       \/ j \in Restores /\ RunRestoreJob(j)
    /\ UNCHANGED <<ctlVars, nodeVars, reaperVars, failures>>

\* The pod of an active Job is lost (node loss, eviction); the Job
\* controller starts a new pod, which reruns the script.
JobPodFails(j) ==
    /\ jobs[j].phase = "active"
    /\ jobs[j].step > 0
    /\ Fail
    /\ jobs' = [jobs EXCEPT ![j].step = 0]
    /\ UNCHANGED <<files, inode, ctlVars, nodeVars, reaperVars>>

-----------------------------------------------------------------------------
(* The node plugin of each node, driven by its kubelet: NodeStageVolume    *)
(* and NodeUnstageVolume (node/csi.go, StagePvcOnNode, UnstagePvcFromNode). *)
(* The kubelet runs one operation at a time per volume and retries a      *)
(* failed one.                                                             *)

jobVars == <<files, inode, jobs>>
KAt(n, pc) == kubelet[n] = pc
KGoto(n, pc) == kubelet' = [kubelet EXCEPT ![n] = pc]

\* A pod using V is scheduled on n: the kubelet calls NodeStageVolume.
KubeletStage(n) ==
    /\ KAt(n, "unstaged")
    /\ bound /\ pvc.exists
    /\ KGoto(n, "stagePvc")
    /\ UNCHANGED <<ctlVars, jobVars, rs, attached, dev, reaperVars, failures>>

\* Mutant of StagePvcOnNode: the staged-on-nodes annotation is not updated.
StagePvcOnNodeNoList(n) ==
    /\ KAt(n, "stagePvc")
    /\ IF pvc.exists /\ ~pvc.deleting /\ pvc.state \in {"idle", "staged"}
       THEN /\ pvc' = [pvc EXCEPT !.state = "staged"]
            /\ KGoto(n, "createRS")
       ELSE /\ KGoto(n, "unstaged")
            /\ UNCHANGED pvc
    /\ UNCHANGED <<bound, snapSize, prov, ctl, jobVars, rs, attached, dev,
                   reaperVars, failures>>

\* StagePvcOnNode: from idle or staged, add n to staged-on-nodes.  A
\* FailedPrecondition is final: the kubelet does not stage the volume; so
\* is, once the pod using it goes away, the NotFound of a removed claim.
StagePvcOnNode(n) ==
    /\ KAt(n, "stagePvc")
    /\ IF pvc.exists /\ ~pvc.deleting /\ pvc.state \in {"idle", "staged"}
       THEN /\ pvc' = [pvc EXCEPT !.state = "staged", !.stagedOn = @ \cup {n}]
            /\ KGoto(n, "createRS")
       ELSE /\ KGoto(n, "unstaged")
            /\ UNCHANGED pvc
    /\ UNCHANGED <<bound, snapSize, prov, ctl, jobVars, rs, attached, dev,
                   reaperVars, failures>>

\* CreateReplicaSet (idempotent) for the staging worker pinned to n.
CreateReplicaSet(n) ==
    /\ KAt(n, "createRS")
    /\ rs' = [rs EXCEPT ![n] = TRUE]
    /\ KGoto(n, "waitDev")
    /\ UNCHANGED <<ctlVars, jobVars, attached, dev, reaperVars, failures>>

\* WaitUntilFileIsBlockDevice on the staging path.
WaitUntilBlockDevice(n) ==
    /\ KAt(n, "waitDev")
    /\ dev[n]
    /\ KGoto(n, "staged")
    /\ UNCHANGED <<ctlVars, jobVars, rs, attached, dev, reaperVars, failures>>

\* The last pod using V on n is gone: the kubelet calls NodeUnstageVolume.
KubeletUnstage(n) ==
    /\ KAt(n, "staged")
    /\ KGoto(n, "findRS")
    /\ UNCHANGED <<ctlVars, jobVars, rs, attached, dev, reaperVars, failures>>

\* FindReplicaSetByLabelSelector.  When no ReplicaSet matches it returns a
\* plain error that k8serrors.IsNotFound does not recognise, so the handler
\* fails before any change and the kubelet calls it again.
FindReplicaSet(n) ==
    /\ KAt(n, "findRS")
    /\ IF rs[n] THEN KGoto(n, "deleteRS") ELSE UNCHANGED kubelet
    /\ UNCHANGED <<ctlVars, jobVars, rs, attached, dev, reaperVars, failures>>

\* Mutant of DeleteReplicaSet: the ReplicaSet is deleted without waiting
\* for its pod, which keeps the image open.
DeleteReplicaSetNoWait(n) ==
    /\ KAt(n, "deleteRS")
    /\ rs' = [rs EXCEPT ![n] = FALSE]
    /\ KGoto(n, "removeDev")
    /\ UNCHANGED <<ctlVars, files, inode, jobs, attached, dev, reaperVars, failures>>

\* DeleteReplicaSetSynchronously: the worker pod is terminated; its trap
\* disconnects the NBD device and stops the storage daemon.
DeleteReplicaSet(n) ==
    /\ KAt(n, "deleteRS")
    /\ rs' = [rs EXCEPT ![n] = FALSE]
    /\ attached' = [attached EXCEPT ![n] = 0]
    /\ inode' = Reclaim(inode, files, attached')
    /\ KGoto(n, "removeDev")
    /\ UNCHANGED <<ctlVars, files, jobs, dev, reaperVars, failures>>

\* os.Remove of the staging path.
RemoveStagingPath(n) ==
    /\ KAt(n, "removeDev")
    /\ dev' = [dev EXCEPT ![n] = FALSE]
    /\ KGoto(n, "unstagePvc")
    /\ UNCHANGED <<ctlVars, jobVars, rs, attached, reaperVars, failures>>

\* Mutant of UnstagePvcFromNode: the state is not reset to idle.
UnstagePvcFromNodeNoReset(n) ==
    /\ KAt(n, "unstagePvc")
    /\ pvc.exists /\ pvc.labelled
    /\ pvc' = IF pvc.state = "staged"
              THEN [pvc EXCEPT !.stagedOn = @ \ {n}]
              ELSE pvc
    /\ KGoto(n, "unstaged")
    /\ UNCHANGED <<bound, snapSize, prov, ctl, jobVars, rs, attached, dev,
                   reaperVars, failures>>

\* Mutant of UnstagePvcFromNode: only an idle claim is changed.
UnstagePvcFromNodeIdleOnly(n) ==
    /\ KAt(n, "unstagePvc")
    /\ pvc.exists /\ pvc.labelled
    /\ LET left == pvc.stagedOn \ {n} IN
       pvc' = IF pvc.state = "idle"
              THEN [pvc EXCEPT !.stagedOn = left,
                               !.state = IF left = {} THEN "idle" ELSE "staged"]
              ELSE pvc
    /\ KGoto(n, "unstaged")
    /\ UNCHANGED <<bound, snapSize, prov, ctl, jobVars, rs, attached, dev,
                   reaperVars, failures>>

\* FindPvcByLabelSelector, then UnstagePvcFromNode: only a staged claim is
\* changed; the state returns to idle when no node is left.
UnstagePvcFromNode(n) ==
    /\ KAt(n, "unstagePvc")
    /\ pvc.exists /\ pvc.labelled
    /\ LET left == pvc.stagedOn \ {n} IN
       pvc' = IF pvc.state = "staged"
              THEN [pvc EXCEPT !.stagedOn = left,
                               !.state = IF left = {} THEN "idle" ELSE "staged"]
              ELSE pvc
    /\ KGoto(n, "unstaged")
    /\ UNCHANGED <<bound, snapSize, prov, ctl, jobVars, rs, attached, dev,
                   reaperVars, failures>>

\* A node RPC fails (context deadline, API error).  A failed stage is
\* retried, or, its outcome being uncertain and the pod gone, unstaged; a
\* failed unstage is retried.
KubeletFail(n) ==
    /\ kubelet[n] \in {"createRS", "waitDev"}
    /\ Fail
    /\ \/ KGoto(n, "stagePvc")
       \/ KGoto(n, "findRS")
    /\ UNCHANGED <<ctlVars, jobVars, rs, attached, dev, reaperVars>>

UnstageFail(n) ==
    /\ kubelet[n] \in {"deleteRS", "removeDev", "unstagePvc"}
    /\ Fail
    /\ KGoto(n, "findRS")
    /\ UNCHANGED <<ctlVars, jobVars, rs, attached, dev, reaperVars>>

\* The staging worker (qsd-with-nbd.sh) of n's ReplicaSet: it opens the
\* volume image, attaches it to an NBD device and copies the device node to
\* the staging path.  It fails and is restarted while the image is missing.
WorkerStart(n) ==
    /\ rs[n] /\ attached[n] = 0
    /\ files[PvcPath] # 0
    /\ attached' = [attached EXCEPT ![n] = files[PvcPath]]
    /\ dev' = [dev EXCEPT ![n] = TRUE]
    /\ UNCHANGED <<ctlVars, jobVars, kubelet, rs, reaperVars, failures>>

\* The worker's pod dies; the ReplicaSet starts a new one.
WorkerCrash(n) ==
    /\ attached[n] # 0
    /\ Fail
    /\ attached' = [attached EXCEPT ![n] = 0]
    /\ inode' = Reclaim(inode, files, attached')
    /\ UNCHANGED <<ctlVars, files, jobs, kubelet, rs, dev, reaperVars>>

-----------------------------------------------------------------------------
(* The deletion reaper (controller/monitor.go): an informer on labelled    *)
(* claims enqueues the key of a claim being deleted; a worker re-reads the *)
(* claim and, when it is not staged and still has the cleanup finalizer,   *)
(* runs deleteVolume.  The work queue hands a key to one worker at a time, *)
(* so one reaper process stands for the pool.                              *)

RAt(pc) == reaper.pc = pc
RGoto(pc) == reaper' = [reaper EXCEPT !.pc = pc]
\* AddRateLimited: back to the queue after a failure.
Requeue == reaper' = [pc |-> "idle", queued |-> TRUE]

\* Mutant of Informer: only the first version seen (AddFunc) is enqueued.
InformerAddOnly ==
    /\ pvc # seen
    /\ seen' = pvc
    /\ reaper' = [reaper EXCEPT !.queued =
                     @ \/ (~seen.labelled /\ pvc.exists /\ pvc.labelled /\ pvc.deleting)]
    /\ UNCHANGED <<ctlVars, jobVars, nodeVars, failures>>

\* AddFunc/UpdateFunc: every new version of a labelled claim that carries a
\* deletion timestamp is enqueued.  There is no DeleteFunc.
Informer ==
    /\ pvc # seen
    /\ seen' = pvc
    /\ reaper' = [reaper EXCEPT !.queued =
                     @ \/ (pvc.exists /\ pvc.labelled /\ pvc.deleting)]
    /\ UNCHANGED <<ctlVars, jobVars, nodeVars, failures>>

\* Mutant of ReaperGet: the finalizer test is inverted.
ReaperGetInverted ==
    /\ RAt("idle") /\ reaper.queued
    /\ reaper' = [pc |-> IF pvc.exists /\ pvc.stagedOn = {} /\ ~pvc.finalizer
                         THEN "deleteCreateJob" ELSE "idle",
                  queued |-> FALSE]
    /\ UNCHANGED <<ctlVars, jobVars, nodeVars, seen, failures>>

\* processNextItem: Get the claim; Forget the key unless it must be reaped.
ReaperGet ==
    /\ RAt("idle") /\ reaper.queued
    /\ reaper' = [pc |-> IF pvc.exists /\ pvc.stagedOn = {} /\ pvc.finalizer
                         THEN "deleteCreateJob" ELSE "idle",
                  queued |-> FALSE]
    /\ UNCHANGED <<ctlVars, jobVars, nodeVars, seen, failures>>

ReaperDeleteCreateJob ==
    /\ RAt("deleteCreateJob")
    /\ DeleteJob("create")
    /\ RGoto("createDelJob")
    /\ UNCHANGED <<ctlVars, files, inode, nodeVars, seen, failures>>

ReaperCreateDelJob ==
    /\ RAt("createDelJob")
    /\ CreateJob("delete", 0)
    /\ RGoto("waitDelJob")
    /\ UNCHANGED <<ctlVars, files, inode, nodeVars, seen, failures>>

ReaperWaitDelJob ==
    /\ RAt("waitDelJob")
    /\ jobs["delete"].phase # "active"
    /\ IF jobs["delete"].phase = "succeeded" THEN RGoto("deleteDelJob") ELSE Requeue
    /\ UNCHANGED <<ctlVars, jobVars, nodeVars, seen, failures>>

ReaperDeleteDelJob ==
    /\ RAt("deleteDelJob")
    /\ DeleteJob("delete")
    /\ RGoto("removeFinalizer")
    /\ UNCHANGED <<ctlVars, files, inode, nodeVars, seen, failures>>

\* Remove the cleanup finalizer; the claim, being deleted, then goes away.
ReaperRemoveFinalizer ==
    /\ RAt("removeFinalizer")
    /\ pvc.exists
    /\ pvc' = [pvc EXCEPT !.finalizer = FALSE, !.exists = ~pvc.deleting]
    /\ RGoto("idle")
    /\ UNCHANGED <<bound, snapSize, prov, ctl, jobVars, nodeVars, seen, failures>>

ReaperFail ==
    /\ ~RAt("idle")
    /\ Fail
    /\ Requeue
    /\ UNCHANGED <<ctlVars, jobVars, nodeVars, seen>>

\* The user deletes the claim; without finalizer it goes away at once.
DeleteClaim ==
    /\ pvc.exists /\ ~pvc.deleting
    /\ pvc' = [pvc EXCEPT !.deleting = TRUE, !.exists = pvc.finalizer]
    /\ UNCHANGED <<bound, snapSize, prov, ctl, jobVars, nodeVars, reaperVars,
                   failures>>

-----------------------------------------------------------------------------

ProvStep == ProvStart \/ ProvPatch \/ ProvCreateJob \/ ProvWaitJob

SnapStep(s) == SnapFind(s) \/ SnapSetState(s) \/ SnapPatch(s) \/ SnapCreateJob(s)
               \/ SnapWaitJob(s) \/ SnapDeleteJob(s) \/ SnapSetIdle(s)
CloneStep(c) == CloneFind(c) \/ CloneSetState(c) \/ CloneCreateJob(c)
                \/ CloneWaitJob(c) \/ CloneSetIdle(c)
RestoreStep(r) == RestoreFind(r) \/ RestoreCreateJob(r) \/ RestoreWaitJob(r)
ExpandStep(e) == ExpandFind(e) \/ ExpandSetState(e) \/ ExpandCreateJob(e)
                 \/ ExpandWaitJob(e) \/ ExpandDeleteJob(e) \/ ExpandPatch(e)

JobStep(j) ==
    \/ j = "create" /\ RunCreateJob
    \/ j = "delete" /\ RunDeleteJob
    \/ j = "expand" /\ RunExpandJob
    \/ j \in Snaps \cup Clones \cup Restores /\ RunScript(j)

NodeStep(n) == StagePvcOnNode(n) \/ CreateReplicaSet(n) \/ WaitUntilBlockDevice(n)
               \/ FindReplicaSet(n) \/ DeleteReplicaSet(n) \/ RemoveStagingPath(n)
               \/ UnstagePvcFromNode(n) \/ WorkerStart(n)

ReaperStep == ReaperGet \/ ReaperDeleteCreateJob \/ ReaperCreateDelJob
              \/ ReaperWaitDelJob \/ ReaperDeleteDelJob \/ ReaperRemoveFinalizer

\* What the users and the failures of the environment do.
Environment ==
    \/ DeleteClaim
    \/ ProvFail \/ ReaperFail
    \/ \E r \in Requests : CtlFail(r) \/ WaitTimeout(r) \/ Abandon(r)
    \/ \E j \in JobNames : JobPodFails(j)
    \/ \E n \in Nodes : \/ KubeletStage(n) \/ KubeletUnstage(n)
                        \/ KubeletFail(n) \/ UnstageFail(n) \/ WorkerCrash(n)

\* The claim is gone and no handler or reaper worker has work left: the
\* lifecycle of V is over.
Finished ==
    /\ ~pvc.exists
    /\ prov \in {"start", "done"}
    /\ \A r \in Requests : ctl[r].pc \in {"start", "done", "abandoned"}
    /\ \A n \in Nodes : KAt(n, "unstaged")
    /\ reaper = [pc |-> "idle", queued |-> FALSE] /\ seen = pvc
    /\ UNCHANGED vars

Next ==
    \/ ProvStep
    \/ \E s \in Snaps : SnapStep(s)
    \/ \E c \in Clones : CloneStep(c)
    \/ \E e \in Expands : ExpandStep(e)
    \/ \E r \in Restores : RestoreStep(r)
    \/ \E j \in JobNames : JobStep(j)
    \/ \E n \in Nodes : NodeStep(n)
    \/ Informer
    \/ ReaperStep
    \/ Environment
    \/ Finished

\* Handlers, Job pods, workers and the reaper are never stopped for good:
\* each keeps taking its enabled steps.  Users and failures are not fair.
Fairness ==
    /\ WF_vars(ProvStep)
    /\ \A s \in Snaps : WF_vars(SnapStep(s))
    /\ \A c \in Clones : WF_vars(CloneStep(c))
    /\ \A e \in Expands : WF_vars(ExpandStep(e))
    /\ \A r \in Restores : WF_vars(RestoreStep(r))
    /\ \A j \in JobNames : WF_vars(JobStep(j))
    /\ \A n \in Nodes : WF_vars(NodeStep(n))
    /\ WF_vars(Informer)
    /\ WF_vars(ReaperStep)

Spec == Init /\ [][Next]_vars
FairSpec == Spec /\ Fairness

-----------------------------------------------------------------------------
(* Properties.                                                             *)

\* Every node whose staging worker has the image open is listed in
\* staged-on-nodes of an existing claim.  The list is all that snapshots,
\* clones, expansions and the reaper consult before they move, seal or
\* delete the image: NodeStageVolume lists the node before it creates the
\* ReplicaSet, and NodeUnstageVolume unlists it only after the synchronous
\* ReplicaSet deletion has stopped the worker.
StagedNodesCoverWorkers ==
    \A n \in Nodes : attached[n] # 0 => pvc.exists /\ n \in pvc.stagedOn

\* A running staging worker exposes the volume's current image, and that
\* image is writable: no snapshot or clone script has moved a new overlay
\* over pvc-<vid>.qcow2 or sealed the inode under a worker that has it open.
StagedWorkerSeesVolume ==
    \A n \in Nodes : attached[n] # 0 =>
        /\ attached[n] = files[PvcPath]
        /\ ~inode[attached[n]].sealed

\* The capacity annotation of a provisioned volume never exceeds the
\* virtual size of its image (ExpandPatch records the size the expansion
\* Job grew the image to).
CapacityWithinImage ==
    bound /\ pvc.exists /\ files[PvcPath] # 0 => pvc.capacity <= SizeAt(PvcPath)

\* The capacity annotation of the claim never decreases.
CapacityNeverDecreases ==
    [][pvc.exists /\ pvc'.exists => pvc'.capacity >= pvc.capacity]_pvc

\* A completed snapshot records the size of its image (what CreateVolume
\* from the snapshot uses), and a completed clone is at least as large as
\* the image it was cloned from.
DerivedCapacityCoversSource ==
    /\ \A s \in Snaps : At(s, "done") /\ files[SnapPath(s)] # 0 =>
          snapSize[s] = SizeAt(SnapPath(s))
    /\ \A c \in Clones : At(c, "done") /\ files[DestPath(c)] # 0 =>
          SizeAt(DestPath(c)) >= SizeAt(AncPath(c))

\* A completed restore is an overlay of the snapshot it restores, at least
\* as large as the snapshot image: the destination volume sees all of the
\* snapshot's data (createVolumeFromSnapshot raises the requested capacity
\* to the snapshot's size annotation, which CreateSnapshot wrote before its
\* Job linked the image).
RestoreCoversSnapshot ==
    \A r \in Restores : At(r, "done") /\ files[RestPath(r)] # 0 =>
        /\ inode[files[RestPath(r)]].backing = SnapPath(RestoreSnap[r])
        /\ SizeAt(RestPath(r)) >= SizeAt(SnapPath(RestoreSnap[r]))

\* The image an inode's backing-file path names (0 = none).  Every qcow2
\* file has at most one backing file, so the chain from an image is a path
\* in a functional graph and follows from repeated BackingOf.
BackingOf(i) == IF inode[i].backing = NoPath THEN 0 ELSE files[inode[i].backing]
RECURSIVE Follow(_, _)
Follow(i, k) == IF k = 0 \/ i = 0 THEN i ELSE Follow(BackingOf(i), k - 1)

\* No image is its own ancestor: following backing files from any image of
\* the shared directory never returns to it (qemu refuses to open such a
\* chain, so the volume and the snapshot become unusable).
NoBackingCycle ==
    \A i \in Referenced(files, attached), k \in 1..MaxInodes : Follow(i, k) # i

\* Once the claim is gone, so is its image: the reaper is the only path to
\* the claim's removal and runs the deletion Job first.
NoOrphanImage == ~pvc.exists => files[PvcPath] = 0

\* The state a request of kind r moves the claim to.
StateOf(r) == IF r \in Snaps THEN "snapshotting"
              ELSE IF r \in Clones THEN "cloning" ELSE "expanding"

\* A claim that a snapshot, clone or expansion moved out of idle leaves
\* that state again (SetPvcStateToIdle, the expansion patch) or goes away,
\* as long as the CO keeps issuing the requests of that kind: the sidecar
\* retries a failed or timed-out RPC until it succeeds, and nothing but
\* the handler's own success path returns the claim to idle.  A request
\* the CO abandons is exempt: the TODOs at part_003:29-32 and 426-430 say
\* its volume stays stuck.
TransientStateEnds ==
    \A st \in {"snapshotting", "cloning", "expanding"} :
        pvc.exists /\ pvc.state = st
            ~> \/ ~pvc.exists
               \/ pvc.state # st
               \/ \E r \in Requests : At(r, "abandoned") /\ StateOf(r) = st

\* A claim being deleted and staged on no node is eventually removed.
DeletionCompletes == pvc.exists /\ pvc.deleting /\ pvc.stagedOn = {} ~> ~pvc.exists

\* Every NodeUnstageVolume the kubelet starts eventually succeeds and takes
\* the node off staged-on-nodes.
UnstageCompletes ==
    \A n \in Nodes : KAt(n, "findRS") ~> (KAt(n, "unstaged") /\ n \notin pvc.stagedOn)


-----------------------------------------------------------------------------
(* Refinement: the claim's annotations, as the handlers change them,      *)
(* behave as VolumeStateMachine says.                                      *)

Abstract == INSTANCE VolumeStateMachine WITH
    present <- pvc.exists,
    deleting <- pvc.deleting,
    state <- pvc.state,
    stagedOn <- pvc.stagedOn,
    capacity <- pvc.capacity

\* Every step of the handlers, Jobs, kubelet and reaper changes the claim
\* only as VolumeStateMachine allows: an operation starts from idle on a
\* claim not being deleted and ends in idle, staging starts from idle or
\* staged, the capacity only grows at the end of an expansion, and the
\* claim is removed only once unstaged everywhere.
ImplementsVolumeStateMachine == Abstract!Spec

=============================================================================
