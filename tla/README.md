# TLA+ models of subprovisioner

This directory holds TLA+ models of the subprovisioner CSI driver, in `src/`. It also holds the TLC configurations that check them. Every definition of `VolumeLifecycle.tla`, `NbdAttach.tla` and `Capacity.tla` is translated from the Go handlers and the shell scripts they run. `PROJECT.json` gives the source lines for each definition (`map`), each run, the mutants that show each property can fail, the findings, and the hazards.

## The system

subprovisioner gives out thin qcow2 volumes. All of them live in one shared directory (`/var/backing`) on a shared block device.

- **Controller plugin** (`src/unnamed/part_003`, the controller server; `pkg/csiplugin/common`). Its gRPC handlers are CreateVolume, DeleteVolume, CreateSnapshot and ControllerExpandVolume. The handlers never touch the images themselves. Instead, each one:
  - reads the volume's PersistentVolumeClaim;
  - moves the claim's `state` annotation with `SetPvcStateTo`, which retries on conflict;
  - creates a Job whose name is deterministic (`CreateJob`, which treats AlreadyExists as success);
  - polls the Job until it succeeds;
  - deletes the Job;
  - patches the claim again.

  The sidecars retry a failed RPC from the start.
- **Jobs**. Each Job runs a bash script against the shared directory:
  - `qemu-img create`;
  - `ln -f` / `mv -f` to swap images atomically;
  - `qemu-img resize`;
  - `chmod a-w` to seal backing images;
  - `rm -f`.

  A pod that fails reruns the whole script.
- **Node plugin** (`pkg/csiplugin/node/csi.go`). NodeStageVolume does three things:
  - adds the node to `staged-on-nodes` and moves the state to `staged`;
  - creates a per-node staging ReplicaSet;
  - waits for the worker to expose a block device.

  NodeUnstageVolume undoes these steps in reverse order.
- **Staging worker** (`scripts/qsd-with-nbd.sh`). It opens `pvc-<vid>.qcow2` in qemu-storage-daemon and exports it over NBD.
- **Deletion reaper** (`pkg/csiplugin/controller/monitor.go`). An informer on claims feeds a work queue. When a claim is being deleted and is no longer staged, the worker:
  - deletes the creation Job;
  - runs a deletion Job (`rm -f`);
  - removes the finalizer.

The claim is the state of record. The `state` annotation (`idle`, `staged`, `snapshotting`, `cloning`, `expanding`) serialises the operations on a volume. The files of the shared directory are the data.

## Modules

| module | models | code |
|---|---|---|
| `VolumeLifecycle` | one volume V: its claim, the provisioning CreateVolume, the CreateSnapshot, clone (CreateVolume from V), restore (CreateVolume from a snapshot of V) and ControllerExpandVolume handlers, their Jobs and scripts, NodeStage/NodeUnstage on every node, the staging workers, and the informer + reaper | part_003, common/{pvc,job,replicaset}.go, node/csi.go, controller/monitor.go, the scripts |
| `MC_VolumeLifecycle` | model values and the small functions the cfgs bind to the constants | — |
| `VolumeStateMachine` | what the claim's annotations promise, with handlers, Jobs and files left out: operations start only from `idle` and return to it, `staged` holds while some node is listed, the capacity only grows, and a claim being deleted takes no new operation and is removed once unstaged | pvc.go, part_003 CreateVolume, monitor.go |
| `NbdAttach` | the staging workers of one node sharing its `/dev/nbdX` devices: `setup_device`'s loop, `nbd-client`, the sanity check, the copy to the staging path, the EXIT trap and the container dying without it | scripts/qsd-with-nbd.sh |
| `MC_NbdAttach` | model values for workers and devices | — |
| `Capacity` | `validateCapacity` on the request's CapacityRange, with Go's int64 arithmetic, and a reference rounding in unbounded integers | part_003:718-742 |
| `MC_Capacity` | the width and the request values at the boundaries | — |

### State

| variable | in the code |
|---|---|
| `pvc` | the claim: exists, labelled (uid label set by CreateVolume's patch), `state`, `staged-on-nodes`, `capacity`, finalizer, deletion timestamp |
| `files`, `inode` | the directory entries of `/var/backing` and the inodes they name. An inode has a size, the path of its backing file (qcow2 `-b`) and a sealed bit (`chmod a-w`). An inode lives while an entry or an open file (a worker) refers to it, so `mv`/`ln -f`/`rm` behave as they do on a real file system |
| `jobs` | Job objects by name: absent, active (with the step its pod has reached) or succeeded, and the argument they were created with |
| `snapSize` | the `size` annotation CreateSnapshot writes on the VolumeSnapshot |
| `prov`, `ctl` | the program counter of each controller handler, and the capacity it read from the claim |
| `kubelet`, `rs`, `dev`, `attached` | per node: the NodeStage/NodeUnstage program counter, the staging ReplicaSet, the block node at the staging path, and the inode the worker has open |
| `reaper`, `seen` | the reaper worker's program counter and queue flag, and the claim as the informer last delivered it |
| `failures` | how many RPC or pod failures have been injected, bounded by `MaxFailures` |

### Refinement

`VolumeLifecycle` defines `Abstract == INSTANCE VolumeStateMachine WITH present <- pvc.exists, deleting <- pvc.deleting, ...`. The mapping is the identity on the claim's fields. `ImplementsVolumeStateMachine == Abstract!Spec` is checked as a temporal property by both safety runs. Every step of the detailed model, whether a handler, a Job, the reaper or a failure, is therefore either a step of the abstract machine or leaves the claim unchanged. The check covers requests of distinct kinds only. With two requests of the same kind, `two_snapshots_release` and `expand_race_decrease` show that the code leaves the abstract machine.

### Capacity

`Capacity` has one operator per Go operation that matters:
- `Wrap` is two's-complement wrap-around of `+` and `*`;
- `Quot` is `/`, which truncates towards zero;
- `validateCapacity` is the function, with the same early returns.

The state is one request and what the function returned. `RoundedUp` and `Expected` give the reference: the smallest multiple of 512 not below the minimum, or an error when no int64 value is such a multiple within the limit. TLC's integers are 32 bits wide, so the int64 width is the constant `Width`, set to 16. The rounding and the comparisons do not depend on the width. Only the place where the sum wraps around does, at 511 below the largest integer for every width.

### NbdAttach

`conn[d]` is the worker whose storage daemon device `d` is connected to. `exposed[w]` is the device node that worker `w` copied to its staging path (`ExposeDevice`, `cp -fpR`). It lives on the host, so it survives a restart of the container. `Kill` is the container dying without its EXIT trap, at any step. Its daemon and `nbd-client` die with it, so its devices disconnect, and the ReplicaSet restarts the container (`LaunchQsd`). Each worker has a program counter over the script's steps: scan, connect, verify, sanity and running. `nbd-client` is not in the repository. When another worker has just connected the device, the model lets the connect keep that connection, undo it, or replace it. The comment at qsd-with-nbd.sh:65-72 allows all three.

### Actions

- **Handler steps.** Every API call of a handler is one action, named after the call or the function: `Find`, `SetPvcStateTo`, `SnapPatch`, `CreateJob`, `WaitJob`, `DeleteJob`, `SetPvcStateToIdle`, `ExpandPatch`, `StagePvcOnNode`, `CreateReplicaSet`, `WaitUntilBlockDevice`, `FindReplicaSet`, `DeleteReplicaSet`, `RemoveStagingPath`, `UnstagePvcFromNode`, `ReaperGet`, and so on.
  - A retry-on-conflict loop is atomic because it re-reads the claim.
  - A Get followed by a later Update or Patch is split at the await, since the claim read earlier can be stale.
  - Early returns and error paths send the handler back to `start`, which models the sidecar's retry of the RPC.
- **Job steps.** Each line of a script that changes the directory is one step of the Job's pod (`RunSnapJob`, `RunCloneJob`, ...). `JobPodFails` reruns the script from line one. A command whose file is missing does not take its step. With `errexit` the pod would fail and the next pod rerun the script. But a later command reads what an earlier command of the same script made, and only a second script of V can move that away. A failing first command reruns to no effect. A version of the model that reran the script on every failing command never reached such a rerun in either safety run.
- **Environment.** This covers the actions no handler drives:
  - `CtlFail`, `KubeletFail` and `UnstageFail` fail a call;
  - `WaitTimeout` is the RPC deadline while a Job is still running;
  - `WorkerCrash` kills a staging worker;
  - `Abandon` is the user deleting the VolumeSnapshot or the clone's claim before the request succeeded: the sidecar stops issuing it. It takes effect between two calls, because a call in flight runs on until it returns;
  - `DeleteClaim` is the user deleting the claim.
- **Restore.** `RestoreFind` stands for `FindVolumeSnapshotByLabelSelector` and the read of the snapshot's `size` annotation. It is enabled once the snapshot's CreateSnapshot has returned, because the CO restores only a ready snapshot. `RestoreCreateJob` raises the requested capacity to that size and creates the Job, and `RunRestoreJob` is the Job's `qemu-img create -b snapshot-<sid>.qcow2`. The Job is kept, as the code keeps it.
- **`Finished`.** This stutter step is enabled only when the claim is gone and every process is back at rest. It marks the normal end of a behaviour, so any other state without a successor is reported as a deadlock.

## Runs

Passing runs (`Spec` unless noted):

| run | constants | checks |
|---|---|---|
| `snapshot_staging` | 2 nodes (symmetric), 1 snapshot, 1 restore of it asking for less than the snapshot's size, created at size 2, 1 failure | TypeOK, StagedNodesCoverWorkers, StagedWorkerSeesVolume, RestoreCoversSnapshot, ImplementsVolumeStateMachine |
| `clone_expand_staging` | 1 node, 1 clone with limit 1, 1 expansion, 1 failure | StagedNodesCoverWorkers, StagedWorkerSeesVolume, CapacityWithinImage, ImplementsVolumeStateMachine |
| `lifecycle_liveness` | `FairSpec`, 1 node, 1 snapshot the user may cancel, 1 expansion | TransientStateEnds, DeletionCompletes, UnstageCompletes |

The clone is not in the liveness run. Snapshot, clone and expansion together give 5 million states, and checking liveness over them takes more than half an hour under `FairSpec`. A clone alone would need a run of its own, and every run slot is used. The clone handler has the same control shape as the snapshot handler: find, set state, Job, wait, set idle. Its one liveness bug, the limit check, is the `clone_limit_stuck` finding.

The passing runs show the following:

- **Staging.** Every node whose worker has the image open is listed in `staged-on-nodes`, which is the list snapshots, clones, expansions and the reaper consult. A running worker always has the volume's current, unsealed image open. The refinement also implies that the state is `staged` exactly while some node is listed.
- **Capacity.** With one expansion racing a clone, staging and a failure, the recorded capacity never exceeds the image. Two expansions break it (`expand_race_decrease`).
- **Restores.** A restored image is backed by its snapshot and is at least as large as it, although the restore asks for less than the snapshot's size.
- **Refinement.** The claim's annotations change only as `VolumeStateMachine` allows.
- **Liveness under fairness.**
  - Every transient state ends, unless the user cancelled a request of that kind.
  - A deleted claim is eventually reaped.
  - A started unstage completes.

Violation runs check one property each. Each one reproduces a finding listed in `PROJECT.json`:

| run | property | what the code does |
|---|---|---|
| `two_snapshots_release` | StagedWorkerSeesVolume | `SetPvcStateTo` accepts the state it is asked to set (pvc.go:92). Two snapshots therefore run at once, the first releases the claim, and the second swaps the image under the worker that has since started. |
| `expand_race_decrease` | CapacityNeverDecreases | Two expansions run at once. The smaller one patches last and lowers the capacity. The expansion Job also has one name per volume (part_003:646), so the second expansion can adopt the first one's Job and record a capacity larger than the image: `CapacityWithinImage` fails under the same cfg. |
| `clone_stale_capacity` | DerivedCapacityCoversSource | The clone uses a capacity read before the source was locked. An expansion in between makes the clone smaller than its backing file. CreateSnapshot's size annotation goes stale the same way (part_003:458/473): the same property is violated with `Snaps = {s1}, Expands = {e1}` in place of the clone. |
| `snapshot_rerun_cycle` | NoBackingCycle | A pod rerun, or an RPC retried after the Job was deleted, runs the snapshot script twice. `ln -f` then makes the image back itself. |
| `delete_during_create` | NoOrphanImage | The reaper finishes before CreateVolume creates its Job, so the image of a removed claim is leaked. The comment at part_003:96-101 says this cannot happen. |
| `unstage_stuck` | UnstageCompletes | A missing ReplicaSet is not reported as NotFound, so unstage can never complete after a partial stage or unstage. |
| `clone_limit_stuck` | TransientStateEnds | The clone limit is checked after the source is set to `cloning`, so the source stays `cloning` forever. |
| `capacity_overflow` | CapacityIsRoundedMinimum (`Capacity`) | For a minimum within 511 bytes of the largest integer, `minCapacity + 511` wraps to a negative value, and `validateCapacity` returns a negative capacity with no error. The limit check cannot reject it (part_003:735, the TODO at 734). With the minimum at most MaxInt - 511, the result equals the reference for every minimum and every sampled limit. |
| `nbd_staging_device` | StagingPathServesOwnVolume (`NbdAttach`) | One volume's staging path reaches another volume's image. There are two ways. (1) Race: w1 connects, checks and copies d1 to its staging path, and then w2, which scanned d1 while it was free, runs `nbd-client` on it and takes it over. `setup_device` only checks that the device is connected, not to which daemon. (2) Crash: a worker container that dies without its EXIT trap frees its device, but the device node stays at its staging path, and another volume's worker takes the device. TLC's shortest trace is the race. With the race removed in a copy of the model (an atomic connect that verifies the owner), TLC still finds the crash case. |

Each property of a passing run has a mutant in `PROJECT.json`. A mutant is a plausible bug in the code it maps to, and the run's cfg finds it. Examples:

- the capacity patched in bytes;
- a Job that restarts while being waited on;
- staging without listing the node;
- deleting the ReplicaSet without waiting;
- unstaging without resetting the state;
- an informer that enqueues only on add;
- an inverted finalizer check.

## Bounds

Sizes are counted in 512-byte sectors, up to `MaxSize = 3`. This is enough for:

- a creation at 1;
- two expansions to 2 and 3, or one to 2;
- a clone limit of 1 that a source of size 2 exceeds.
- a restore asking for 1 from a snapshot of size 2 (`snapshot_staging` creates V at 2), so the raise to the snapshot's size matters.

`MaxInodes = 5` covers the most inodes one behaviour can hold at once: the image, a `.new` overlay, a snapshot or ancestor, a destination, and one kept alive only by a worker.

One failure (`MaxFailures = 1`) reaches these cases:

- every single retry path;
- a pod rerun after any line;
- a deadline that expires while the Job still runs.

Each failure in the code is independent of the others, so a second failure only repeats what one already reaches. The liveness run sets `MaxFailures = 0`, because the retry loops of the sidecars and the kubelet are unbounded.

`capacity_overflow` takes every minimum within two sectors of 0 and of the largest integer, and limits unset, around the first two sector boundaries, or at the largest integer. These cover every branch and both sides of the wrap-around.

`nbd_staging_device` uses two workers and two devices. Two workers are needed for either case, and a second device gives the scan a real choice.

`ExpandLimit` is 0 (no limit) for every expansion. An expansion whose limit is below the current capacity returns before changing anything (the guard in `ExpandFind`), and the sizes above leave no room for such a limit that `validateCapacity` would accept.

Two nodes are used only where a property relates nodes (`staged-on-nodes`). They are symmetric, because the code never distinguishes nodes by name.

Each race needs just the two requests that take part in it. The runs are split by request kind, because all kinds together exceed 30 million states.

## Fairness

`FairSpec` adds weak fairness to each of these:

- the provisioning handler, each request's handler and each node's handler, because the sidecars and the kubelet retry a failed RPC for as long as its object exists. A request the user cancels (`Abandon`, not fair) is no longer issued, and `TransientStateEnds` makes no promise about its kind of state;
- each Job, because the Job controller runs pods until the backoff limit of 99999;
- the informer and the reaper worker, because client-go delivers every update and the worker loops forever.

It adds no fairness to `Environment`: failures, deadlines, worker crashes and claim deletion need never happen.

The liveness cfg says `CHECK_DEADLOCK FALSE`. With no fairness on deletion, a fully staged, idle volume is a legitimate final state. `capacity_overflow` says so too, because a handler calls `validateCapacity` once per request. Deadlock is checked in every safety run, where `Finished` is the only terminal step.

## Not modelled (yet)

- **NodePublishVolume and NodeUnpublishVolume.** They symlink and remove node-local paths and touch no claim, Job or image. A read-only publish `chmod`s through the symlink and clears the write bits of the staging node that all publications on the node share (node/csi.go:194). This is listed as a hazard. No run checks it, because the CO's publications are not modelled.
- **A property for cancellation (TODOs at part_003:29-32 and 426-430).** `Abandon` models the user cancelling a snapshot (`Cancellable = {s1}` in `lifecycle_liveness`). With the exemption removed from `TransientStateEnds`, TLC finds the claim stuck in `snapshotting` under that cfg. That violation has no run of its own, because every run slot is used. The safety runs set `Cancellable = {}`. An abandoned request only stops calling, which is a behaviour `Spec` already has when it never schedules the request again.
- **Access modes (TODO at node/csi.go:36).** Nothing stops a single-writer volume from being staged writable on two nodes. The models stage on two nodes as the code does, but the corruption this causes is in the image contents, which are not modelled.
- **The destination volume's lifecycle.** The clone's and the restore's destinations are only images here. Their claims are not modelled, and no restore sets a capacity limit. Composing two `VolumeLifecycle` instances through the snapshot and clone links is a next step.
- **DeleteVolume and DeleteSnapshot.** Both return success without changing any state (part_003:383-393, 565-578). Volumes are removed by the reaper, and snapshot images are never removed.
- **The order of the staged-on-nodes list.** The annotation is a comma-separated string. `stringListToSet` and `setToStringList` (common/pvc.go:181-204) convert between it and a Go map, and the map's iteration order is random. Node names are DNS subdomain names, which contain no commas, and `setToStringList` never writes a duplicate. So the annotation holds exactly a set of nodes, and `pvc.stagedOn` is that set. The only test of the raw string is the reaper's `!= ""` (monitor.go:141), and it holds exactly when the set is non-empty, because UnstagePvcFromNode deletes the annotation once the set is empty. Modelling the order would multiply the state space and could not change any result.
- **Out of TLC's reach or pure I/O.**
  - gRPC plumbing, flag parsing and the identity server.
  - NodePublish/NodeUnpublish: bind mounts that do not touch the claim.
  - The contents of images.
