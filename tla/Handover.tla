------------------------------ MODULE Handover ------------------------------
(* Several instances of the driver on one host: each reconciles, takes the   *)
(* socket, serves, drains and cleans up after itself (run, listenUnix and    *)
(* removeSocketIfOwned of main.go, Bootstrap of reconcile.go), and may be    *)
(* killed between any two of its steps. They share the socket's path, the    *)
(* marker file beside it, the records on disk and the VMs.                   *)
(*                                                                           *)
(* An instance is one process, started once. What a sandbox is to the        *)
(* handover is its record and its VM; Lifecycle has the rest.                *)
EXTENDS Integers, FiniteSets

CONSTANTS
    Instance,       \* processes, each of which may be started once
    NoOne,          \* no file at the path
    Sandbox,        \* sandboxes that may be created
    Concurrent      \* may an instance start while another one starts or serves?

ASSUME NoOneIsNoInstance == NoOne \notin Instance
ASSUME ConcurrentIsBoolean == Concurrent \in BOOLEAN

VARIABLES
    pc,             \* pc[i]: where run() of instance i stands
    sock,           \* the instance that bound the socket file at the path
    live,           \* the instances whose listener is open
    owner,          \* the instance whose token the marker file holds
    disk, vm,       \* the sandboxes with a record and those with a VM
    known,          \* known[i]: the keys of instance i's registry
    listed,         \* listed[i]: the VMs Bootstrap of i has listed, not yet examined
    spared,         \* history: the VMs whose removal failed in the sweep of i
    exclusive,      \* history: instances that have had the host to themselves
    clear           \* history: instances that claimed the socket undisturbed

vars == <<pc, sock, live, owner, disk, vm, known, listed, spared, exclusive, clear>>

Booting == {"records", "vms", "sweep"}
Binding == {"stat", "dial", "unlink", "unmark", "listen", "chmod", "claim"}
Stopping == {"terminated", "draining", "reading"}
Removing == {"disown", "remove"}
Gone == {"exited", "refused", "killed"}
Stages == {"off", "serving"} \cup Booting \cup Binding \cup Stopping \cup Removing \cup Gone

Init ==
    /\ pc = [i \in Instance |-> "off"]
    /\ sock = NoOne
    /\ live = {}
    /\ owner = NoOne
    /\ disk = {} /\ vm = {}
    /\ known = [i \in Instance |-> {}]
    /\ listed = [i \in Instance |-> {}]
    /\ spared = [i \in Instance |-> {}]
    /\ exclusive = {} /\ clear = {}

Goto(i, stage) == pc' = [pc EXCEPT ![i] = stage]
Up(i) == pc[i] \notin {"off"} \cup Gone
\* the gateway's calls reach instance i, or one that arrived before is in flight
Answers(i) == pc[i] \in {"serving", "terminated", "draining"}

-----------------------------------------------------------------------------
(* Startup: Preflight and Bootstrap, before the socket is looked at.         *)

MayStart(i) == Concurrent \/ \A j \in Instance \ {i} : ~Up(j) \/ pc[j] \in Stopping \cup Removing

Start(i) ==
    /\ pc[i] = "off"
    /\ MayStart(i)
    /\ Goto(i, "records")
    /\ exclusive' = {j \in {i} : \A k \in Instance \ {i} : ~Up(k)}
    /\ UNCHANGED <<sock, live, owner, disk, vm, known, listed, spared, clear>>

ReadRecords(i) ==
    /\ pc[i] = "records"
    /\ Goto(i, "vms")
    /\ known' = [known EXCEPT ![i] = disk]
    /\ UNCHANGED <<sock, live, owner, disk, vm, listed, spared, exclusive, clear>>

ListVMs(i) ==
    /\ pc[i] = "vms"
    /\ Goto(i, "sweep")
    /\ listed' = [listed EXCEPT ![i] = vm]
    /\ UNCHANGED <<sock, live, owner, disk, vm, known, spared, exclusive, clear>>

\* Defect: the sweep spares every VM there is.
SweepNothing(i) ==
    /\ pc[i] = "sweep"
    /\ Goto(i, "stat")
    /\ listed' = [listed EXCEPT ![i] = {}]
    /\ UNCHANGED <<sock, live, owner, disk, vm, known, spared, exclusive, clear>>

\* The orphans among the listed VMs are deleted one by one; a failure is only logged, and one
\* that has removed the VM all the same is like a success.
Sweep(i) ==
    /\ pc[i] = "sweep"
    /\ \/ /\ listed[i] \subseteq known[i]
          /\ Goto(i, "stat")
          /\ listed' = [listed EXCEPT ![i] = {}]
          /\ UNCHANGED <<vm, spared>>
       \/ \E s \in listed[i] \ known[i] :
             /\ listed' = [listed EXCEPT ![i] = @ \ {s}]
             /\ \/ vm' = vm \ {s} /\ UNCHANGED spared
                \/ spared' = [spared EXCEPT ![i] = @ \cup {s}] /\ UNCHANGED vm
             /\ UNCHANGED pc
    /\ UNCHANGED <<sock, live, owner, disk, known, exclusive, clear>>

-----------------------------------------------------------------------------
(* listenUnix                                                                *)

StatSocket(i) ==
    /\ pc[i] = "stat"
    /\ Goto(i, IF sock = NoOne THEN "listen" ELSE "dial")
    /\ UNCHANGED <<sock, live, owner, disk, vm, known, listed, spared, exclusive, clear>>

\* Somebody answers at the path, and this instance gives up; or nobody does.
DialSocket(i) ==
    /\ pc[i] = "dial"
    /\ Goto(i, IF sock \in live THEN "refused" ELSE "unlink")
    /\ UNCHANGED <<sock, live, owner, disk, vm, known, listed, spared, exclusive, clear>>

\* Defect: a stale file is left for net.Listen to deal with.
UnlinkStaleNot(i) ==
    /\ pc[i] = "unlink"
    /\ Goto(i, "unmark")
    /\ UNCHANGED <<sock, live, owner, disk, vm, known, listed, spared, exclusive, clear>>

\* os.Remove of the stale file, which is an error when the file has gone meanwhile.
UnlinkStale(i) ==
    /\ pc[i] = "unlink"
    /\ Goto(i, IF sock = NoOne THEN "refused" ELSE "unmark")
    /\ sock' = NoOne
    /\ UNCHANGED <<live, owner, disk, vm, known, listed, spared, exclusive, clear>>

UnlinkMarker(i) ==
    /\ pc[i] = "unmark"
    /\ Goto(i, "listen")
    /\ owner' = NoOne
    /\ UNCHANGED <<sock, live, disk, vm, known, listed, spared, exclusive, clear>>

Listen(i) ==
    /\ pc[i] = "listen"
    /\ IF sock = NoOne
       THEN /\ Goto(i, "chmod")
            /\ sock' = i
            /\ live' = live \cup {i}
       ELSE /\ Goto(i, "refused")
            /\ UNCHANGED <<sock, live>>
    /\ UNCHANGED <<owner, disk, vm, known, listed, spared, exclusive, clear>>

\* The listener's Close unlinks whatever file is at the path, then closes the socket.
CloseListener(i) ==
    /\ sock' = NoOne
    /\ live' = live \ {i}

\* os.Chmod of the path fails when somebody has removed the file.
ChmodSocket(i) ==
    /\ pc[i] = "chmod"
    /\ \/ /\ sock # NoOne
          /\ Goto(i, "claim")
          /\ UNCHANGED <<sock, live>>
       \/ /\ sock = NoOne
          /\ Goto(i, "refused")
          /\ CloseListener(i)
    /\ UNCHANGED <<owner, disk, vm, known, listed, spared, exclusive, clear>>

\* Instance i holds the path, and no other one is about to remove what is there: none has
\* read its own token and not finished, none has a listener that it will close.
Undisturbed(i) == sock = i /\ live = {i} /\ \A j \in Instance : pc[j] \notin Removing

\* Defect: a marker that is there already is kept.
ClaimUnlessMarked(i) ==
    /\ pc[i] = "claim"
    /\ Goto(i, "serving")
    /\ owner' = IF owner = NoOne THEN i ELSE owner
    /\ clear' = IF Undisturbed(i) THEN clear \cup {i} ELSE clear
    /\ UNCHANGED <<sock, live, disk, vm, known, listed, spared, exclusive>>

\* claimSocketOwnership; from here on requests that came in are served.
Claim(i) ==
    /\ pc[i] = "claim"
    /\ \/ /\ Goto(i, "serving")
          /\ owner' = i
          /\ clear' = IF Undisturbed(i) THEN clear \cup {i} ELSE clear
          /\ UNCHANGED <<sock, live>>
       \/ /\ Goto(i, "killed")                     \* the marker cannot be written
          /\ CloseListener(i)
          /\ UNCHANGED <<owner, spared, clear>>
    /\ UNCHANGED <<disk, vm, known, listed, spared, exclusive>>

-----------------------------------------------------------------------------
(* Serving: a create saves its record before it boots the VM.                *)

Accept(i, s) ==
    /\ Answers(i)
    /\ s \notin disk \cup known[i] \cup vm             \* a new id
    /\ disk' = disk \cup {s}
    /\ known' = [known EXCEPT ![i] = @ \cup {s}]
    /\ UNCHANGED <<pc, sock, live, owner, vm, listed, spared, exclusive, clear>>

Boot(i, s) ==
    /\ Answers(i)
    /\ s \in known[i] \ vm
    /\ vm' = vm \cup {s}
    /\ UNCHANGED <<pc, sock, live, owner, disk, known, listed, spared, exclusive, clear>>

\* A delete removes the VM, then the record; it may fail in between.
Delete(i, s) ==
    /\ Answers(i)
    /\ s \in known[i]
    /\ vm' = vm \ {s}
    /\ \/ disk' = disk \ {s} /\ known' = [known EXCEPT ![i] = @ \ {s}]
       \/ UNCHANGED <<disk, known>>
    /\ UNCHANGED <<pc, sock, live, owner, listed, spared, exclusive, clear>>

-----------------------------------------------------------------------------
(* Shutdown: SIGTERM, GracefulStop, the drain of at most 10 s, the deferred  *)
(* removeSocketIfOwned.                                                      *)

Terminate(i) ==
    /\ pc[i] = "serving"
    /\ Goto(i, "terminated")
    /\ UNCHANGED <<sock, live, owner, disk, vm, known, listed, spared, exclusive, clear>>

\* GracefulStop closes the listener before it waits for the calls in flight.
StopListening(i) ==
    /\ pc[i] = "terminated"
    /\ Goto(i, "draining")
    /\ CloseListener(i)
    /\ UNCHANGED <<owner, disk, vm, known, listed, spared, exclusive, clear>>

\* The server fails by itself: run returns at once.
ServeFails(i) ==
    /\ pc[i] = "serving"
    /\ Goto(i, "reading")
    /\ CloseListener(i)
    /\ UNCHANGED <<owner, disk, vm, known, listed, spared, exclusive, clear>>

Drained(i) ==
    /\ pc[i] = "draining"
    /\ Goto(i, "reading")
    /\ UNCHANGED <<sock, live, owner, disk, vm, known, listed, spared, exclusive, clear>>

\* Defect: the marker is not compared with the instance's own token.
ReadMarkerBlindly(i) ==
    /\ pc[i] = "reading"
    /\ Goto(i, IF owner # NoOne THEN "disown" ELSE "exited")
    /\ UNCHANGED <<sock, live, owner, disk, vm, known, listed, spared, exclusive, clear>>

ReadMarker(i) ==
    /\ pc[i] = "reading"
    /\ Goto(i, IF owner = i THEN "disown" ELSE "exited")
    /\ UNCHANGED <<sock, live, owner, disk, vm, known, listed, spared, exclusive, clear>>

Disown(i) ==
    /\ pc[i] = "disown"
    /\ Goto(i, "remove")
    /\ owner' = NoOne
    /\ UNCHANGED <<sock, live, disk, vm, known, listed, spared, exclusive, clear>>

RemoveSocket(i) ==
    /\ pc[i] = "remove"
    /\ Goto(i, "exited")
    /\ sock' = NoOne
    /\ UNCHANGED <<live, owner, disk, vm, known, listed, spared, exclusive, clear>>

\* A kill, or an error of the host during startup: the files stay as they are.
Kill(i) ==
    /\ Up(i)
    /\ Goto(i, "killed")
    /\ live' = live \ {i}
    /\ UNCHANGED <<sock, owner, disk, vm, known, listed, spared, exclusive, clear>>

-----------------------------------------------------------------------------

Startup(i) ==
    \/ ReadRecords(i) \/ ListVMs(i) \/ Sweep(i)
    \/ StatSocket(i) \/ DialSocket(i) \/ UnlinkStale(i) \/ UnlinkMarker(i)
    \/ Listen(i) \/ ChmodSocket(i) \/ Claim(i)

Shutdown(i) == StopListening(i) \/ Drained(i) \/ ReadMarker(i) \/ Disown(i) \/ RemoveSocket(i)

Serve(i) == Terminate(i) \/ ServeFails(i) \/ \E s \in Sandbox : Accept(i, s) \/ Boot(i, s) \/ Delete(i, s)

Next == \E i \in Instance : Start(i) \/ Startup(i) \/ Serve(i) \/ Shutdown(i) \/ Kill(i)

Spec == Init /\ [][Next]_vars

\* A process that is not killed goes on; nobody has to start, stop or call it.
FairSpec == Spec /\ \A i \in Instance : WF_vars(Startup(i)) /\ WF_vars(Shutdown(i))

-----------------------------------------------------------------------------

TypeOK ==
    /\ pc \in [Instance -> Stages]
    /\ {sock, owner} \subseteq Instance \cup {NoOne}
    /\ live \subseteq Instance
    /\ disk \subseteq Sandbox /\ vm \subseteq Sandbox
    /\ known \in [Instance -> SUBSET Sandbox]
    /\ listed \in [Instance -> SUBSET Sandbox]
    /\ spared \in [Instance -> SUBSET Sandbox]
    /\ exclusive \subseteq Instance /\ clear \subseteq Instance

\* While an instance serves, the marker never holds the token of another one, so that no
\* instance that is still draining can take the socket for its own (the reason why
\* removeSocketIfOwned compares tokens). It needs starts that do not overlap.
MarkerIsNeverStale == \A i \in Instance : pc[i] = "serving" => owner \in {i, NoOne}

\* An instance that claimed the socket when no older one was between reading the marker and
\* removing the file, nor listened still, stays reachable as long as it serves, however long
\* the older ones drain and wherever they are killed.
ReachableOnceClaimed == \A i \in clear : pc[i] = "serving" => sock = i /\ i \in live /\ owner = i

\* An instance that has the host to itself from its start on knows of every record once it
\* serves, and of the VMs its predecessors left behind none is without a record but those
\* it tried to remove and could not.
SoleInstanceIsExact ==
    \A i \in exclusive : pc[i] = "serving" => disk = known[i] /\ vm \subseteq disk \cup spared[i]

\* An instance that starts on a host without another one comes to serve, whatever files the
\* last one left behind, unless it is killed or another one comes.
SoleStartServes ==
    \A i \in Instance :
        (pc[i] \in Booting \cup Binding /\ i \in exclusive) ~> (pc[i] \in {"serving", "killed"} \/ i \notin exclusive)
=============================================================================
