------------------------------ MODULE NbdAttach ------------------------------
(***************************************************************************)
(* The staging workers of one node (scripts/qsd-with-nbd.sh), each         *)
(* serving one volume: it launches qemu-storage-daemon on its own socket,  *)
(* takes a free /dev/nbdX in setup_device, checks the device, installs the *)
(* EXIT trap that disconnects it, and copies the device node to the        *)
(* staging path.  Workers of different volumes run the script at the same  *)
(* time and share the node's NBD devices.                                  *)
(*                                                                         *)
(* conn[d] is the worker whose storage daemon device d is connected to;   *)
(* exposed[w] is the device node the worker copied to its staging path,   *)
(* which is on the host and outlives the worker's container.              *)
(* nbd-client is not part of the repository: what a connect does to a     *)
(* device another worker is configuring at the same time is what the      *)
(* comment in setup_device says it may do.                                 *)
(***************************************************************************)
EXTENDS FiniteSets

CONSTANTS
    Workers,    \* staging workers (one per volume staged on the node)
    Devices,    \* the node's /dev/nbd[0-9]+
    NoWorker,   \* a device connected to no storage daemon
    NoDevice    \* the worker's ${dev} before setup_device picks one

ASSUME NoWorker \notin Workers /\ NoDevice \notin Devices

VARIABLES
    pc,         \* where each worker's script is
    dev,        \* the worker's ${dev}
    untried,    \* devices the for loop of setup_device has still to visit
    conn,       \* device -> worker whose storage daemon it is connected to
    exposed     \* worker -> device node at its staging path

vars == <<pc, dev, untried, conn, exposed>>

Pcs == {"down", "scan", "connect", "verify", "sanity", "expose", "running"}

TypeOK ==
    /\ pc \in [Workers -> Pcs]
    /\ dev \in [Workers -> Devices \cup {NoDevice}]
    /\ untried \in [Workers -> SUBSET Devices]
    /\ conn \in [Devices -> Workers \cup {NoWorker}]
    /\ exposed \in [Workers -> Devices \cup {NoDevice}]

Init ==
    /\ pc = [w \in Workers |-> "down"]
    /\ dev = [w \in Workers |-> NoDevice]
    /\ untried = [w \in Workers |-> {}]
    /\ conn = [d \in Devices |-> NoWorker]
    /\ exposed = [w \in Workers |-> NoDevice]

\* nbd-client -c: the device is connected (to any storage daemon).
Connected(d) == conn[d] # NoWorker

\* The worker's storage daemon stops: every device connected to its socket
\* loses its server and is disconnected.
StopQsd(w) == [d \in Devices |-> IF conn[d] = w THEN NoWorker ELSE conn[d]]

\* The container starts (the ReplicaSet's pod, or its restart after the
\* script exited): qemu-storage-daemon is launched and the for loop of
\* setup_device starts over the devices in a random order.  The staging
\* path keeps whatever an earlier container copied there.
LaunchQsd(w) ==
    /\ pc[w] = "down"
    /\ pc' = [pc EXCEPT ![w] = "scan"]
    /\ dev' = [dev EXCEPT ![w] = NoDevice]
    /\ untried' = [untried EXCEPT ![w] = Devices]
    /\ UNCHANGED <<conn, exposed>>

\* One iteration of the loop: the next device of the shuffled list is
\* taken when nbd_dev_is_connected says it is free, skipped otherwise.
ScanDevice(w) ==
    /\ pc[w] = "scan"
    /\ \E d \in untried[w] :
          /\ dev' = [dev EXCEPT ![w] = d]
          /\ untried' = [untried EXCEPT ![w] = @ \ {d}]
          /\ pc' = [pc EXCEPT ![w] = IF Connected(d) THEN "scan" ELSE "connect"]
    /\ UNCHANGED <<conn, exposed>>

\* nbd-client -unix qsd.sock ${dev}.  On a free device it connects the
\* worker's socket.  When another worker connected the device since the
\* scan, the comment in setup_device says this call does not fail and may
\* leave their connection, undo it, or put ours in its place.
NbdClientConnect(w) ==
    /\ pc[w] = "connect"
    /\ LET d == dev[w] IN
       IF Connected(d)
       THEN \E c \in {conn[d], NoWorker, w} : conn' = [conn EXCEPT ![d] = c]
       ELSE conn' = [conn EXCEPT ![d] = w]
    /\ pc' = [pc EXCEPT ![w] = "verify"]
    /\ UNCHANGED <<dev, untried, exposed>>

\* "We thus subsequently check that we actually succeeded to connect the
\* device": setup_device returns 0 when the device is connected, and the
\* loop moves on to the next device otherwise.
CheckConnected(w) ==
    /\ pc[w] = "verify"
    /\ pc' = [pc EXCEPT ![w] = IF Connected(dev[w]) THEN "sanity" ELSE "scan"]
    /\ UNCHANGED <<dev, untried, conn, exposed>>

\* The loop ran out of devices: setup_device returns 1, errexit ends the
\* script and the EXIT trap stops the storage daemon.
NoDeviceLeft(w) ==
    /\ pc[w] = "scan" /\ untried[w] = {}
    /\ pc' = [pc EXCEPT ![w] = "down"]
    /\ conn' = StopQsd(w)
    /\ UNCHANGED <<dev, untried, exposed>>

\* blockdev --getsize64 must not be 0 (a disconnected device has size 0,
\* one connected to any daemon has that daemon's image size).  Then the
\* EXIT trap that disconnects ${dev} is installed.
SanityCheck(w) ==
    /\ pc[w] = "sanity"
    /\ IF Connected(dev[w])
       THEN pc' = [pc EXCEPT ![w] = "expose"] /\ UNCHANGED conn
       ELSE pc' = [pc EXCEPT ![w] = "down"] /\ conn' = StopQsd(w)
    /\ UNCHANGED <<dev, untried, exposed>>

\* rmdir and cp -fpR copy the device node (its major and minor number) to
\* the staging path, over whatever an earlier container left there; the
\* worker then waits for SIGTERM.
ExposeDevice(w) ==
    /\ pc[w] = "expose"
    /\ pc' = [pc EXCEPT ![w] = "running"]
    /\ exposed' = [exposed EXCEPT ![w] = dev[w]]
    /\ UNCHANGED <<dev, untried, conn>>

\* NodeUnstageVolume deletes the ReplicaSet.  A running worker kills its
\* sleep on SIGTERM and its EXIT trap runs nbd-client -d ${dev}, whoever
\* the device is connected to, then stops its daemon.  Once the deletion
\* has returned, NodeUnstageVolume removes the staging path.
Terminate(w) ==
    /\ pc[w] = "running"
    /\ pc' = [pc EXCEPT ![w] = "down"]
    /\ conn' = [d \in Devices |-> IF d = dev[w] THEN NoWorker ELSE StopQsd(w)[d]]
    /\ exposed' = [exposed EXCEPT ![w] = NoDevice]
    /\ UNCHANGED <<dev, untried>>

\* The container dies without running its EXIT trap.  Before the TERM
\* trap is installed the script, PID 1, ignores SIGTERM and is killed at
\* the end of the grace period; at any point the container can be killed
\* outright (OOM kill, eviction).  The daemon and nbd-client die with it,
\* so the devices connected to its socket disconnect; the staging path
\* stays, and the ReplicaSet restarts the container.
Kill(w) ==
    /\ pc[w] \in {"scan", "connect", "verify", "sanity", "expose", "running"}
    /\ pc' = [pc EXCEPT ![w] = "down"]
    /\ conn' = StopQsd(w)
    /\ UNCHANGED <<dev, untried, exposed>>

Next ==
    \E w \in Workers :
        \/ LaunchQsd(w) \/ ScanDevice(w) \/ NbdClientConnect(w)
        \/ CheckConnected(w) \/ NoDeviceLeft(w) \/ SanityCheck(w)
        \/ ExposeDevice(w)
        \/ Terminate(w) \/ Kill(w)

Spec == Init /\ [][Next]_vars

-----------------------------------------------------------------------------

\* What a pod reads and writes through a staging path is its own volume's
\* image or nothing: the device node at the staging path is connected to
\* the storage daemon of the worker that copied it there, or to none (I/O
\* errors), never to the daemon of another volume.  setup_device's check,
\* the sanity check and the EXIT trap's disconnect all assume so.
StagingPathServesOwnVolume ==
    \A w \in Workers : exposed[w] # NoDevice => conn[exposed[w]] \in {w, NoWorker}

=============================================================================
