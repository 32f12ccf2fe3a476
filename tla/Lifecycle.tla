----------------------------- MODULE Lifecycle -----------------------------
(***************************************************************************)
(* The lifecycle plane of the driver: the registry of internal/grpcsvc     *)
(* with its RPC handlers (create.go, lifecycle.go), the provisioning task  *)
(* each create starts, the runtime poller and the startup reconcile        *)
(* (reconcile.go), over two stores that outlive the driver: the launch     *)
(* records on disk (internal/state) and the VMs of apple/container.        *)
(*                                                                         *)
(* Every handler is cut where another goroutine can run: at s.mu, at a     *)
(* call to the runtime, at a call to the store.  What is sent to watch     *)
(* streams is not modelled here.                                           *)
(***************************************************************************)

CONSTANTS
  Ids,          \* sandbox ids, random UUIDs: one id is created at most once
  Calls,        \* the RPCs the gateway may have in flight at a time
  NameOf,       \* the user-visible name of each sandbox, not always unique
  LostRecords,  \* ids whose record was lost before the first start
  Faults,       \* which misfortunes a run admits
  None          \* no sandbox

AllFaults == {"runtime",    \* a container command fails, or times out
              "disk",       \* a record cannot be written or removed
              "outofband",  \* the user or a guest changes a VM directly
              "restart",    \* the driver is told to terminate
              "crash",      \* the driver dies without warning
              "early"}      \* a delete is sent while its create is

ASSUME FaultsAssumption == Faults \subseteq AllFaults
ASSUME LostAssumption == LostRecords \subseteq Ids
ASSUME NoneAssumption == None \notin Ids

VARIABLES
  row,         \* the gateway's row of each sandbox
  disk,        \* what state.json holds for each sandbox
  vm,          \* the runtime's VM oshl-<id>
  mode,        \* what the driver process is doing
  registered,  \* keys of Server.sandboxes
  cond,        \* the Ready condition of each entry, by its reason
  marks,       \* the flags that are set on each entry
  prov,        \* where the sandbox's provisioning task stands
  call,        \* the RPC handlers in flight
  poll,        \* the poller goroutine
  boot         \* Bootstrap

external == <<row, disk, vm>>
registry == <<registered, cond, marks, prov>>
vars == <<row, disk, vm, mode, registered, cond, marks, prov, call, poll, boot>>

VMStates == {"absent", "running", "stopped"}
DiskStates == {"none", "active", "stopped"}
Reasons == {"Starting", "BackendReady", "ContainerExited", "ContainerStopped",
            "ProvisioningFailed", "Deleting"}
ProvStates == {"none", "resolve", "persist", "prepare", "clear", "run",
               "booted", "failed", "report", "finish"}
CallStates == {"idle",
               "runtime", "verify", "record", "save", "condition", "release",
               "cancel", "wait", "expired", "teardown", "forget", "unregister",
               "clear", "purge", "reply"}

\* rec.Stopped, deleting, busy, and whether the task's context was canceled.
Marks == {"stopped", "deleting", "busy", "canceled"}

NoCall == [op |-> "none", pc |-> "idle", id |-> None, target |-> None]
NoVMs == [i \in Ids |-> "absent"]
NoPoll == [pc |-> "idle", vms |-> NoVMs, todo |-> {}, cur |-> None,
           rec |-> "none"]
NoBoot == [pc |-> "off", records |-> [i \in Ids |-> "none"], vms |-> NoVMs,
           left |-> {}]

TypeOK ==
  /\ row \in [Ids -> {"none", "live", "gone"}]
  /\ disk \in [Ids -> DiskStates]
  /\ vm \in [Ids -> VMStates]
  /\ mode \in {"down", "booting", "serving", "draining", "closing"}
  /\ registered \in SUBSET Ids
  /\ cond \in [Ids -> Reasons]
  /\ marks \in [Ids -> SUBSET Marks]
  /\ prov \in [Ids -> ProvStates]
  /\ call \in [Calls -> [op : {"none", "stop", "start", "delete"},
                         pc : CallStates,
                         id : Ids \cup {None}, target : Ids \cup {None}]]
  /\ poll \in [pc : {"idle", "list", "apply", "take", "save"},
               vms : [Ids -> VMStates], todo : SUBSET Ids,
               cur : Ids \cup {None}, rec : DiskStates]
  /\ boot \in [pc : {"off", "records", "list", "adopt", "sweep"},
               records : [Ids -> DiskStates], vms : [Ids -> VMStates],
               left : SUBSET Ids]

Init ==
  /\ row = [i \in Ids |-> IF i \in LostRecords THEN "live" ELSE "none"]
  /\ disk = [i \in Ids |-> "none"]
  /\ vm \in [Ids -> VMStates]
  /\ \A i \in Ids : vm[i] = "absent" <=> i \notin LostRecords
  /\ mode = "down"
  /\ registered = {}
  /\ cond = [i \in Ids |-> "Starting"]
  /\ marks = [i \in Ids |-> {}]
  /\ prov = [i \in Ids |-> "none"]
  /\ call = [c \in Calls |-> NoCall]
  /\ poll = NoPoll
  /\ boot = NoBoot

Up == mode \in {"serving", "draining", "closing"}

\* A call received before the shutdown may reach the lock while it drains.
Open == mode \in {"serving", "draining"}

\* What Record.Stopped of an entry becomes on disk.
RecordOf(i) == IF "stopped" \in marks[i] THEN "stopped" ELSE "active"

ProvisionDone(i) == prov[i] = "none"

Is(i, m) == m \in marks[i]

Mark(i, m) == marks' = [marks EXCEPT ![i] = @ \cup {m}]

Unmark(i, m) == marks' = [marks EXCEPT ![i] = @ \ {m}]

SetCondition(i, reason) == cond' = [cond EXCEPT ![i] = reason]

Pollable(i) == ~Is(i, "deleting") /\ ~Is(i, "busy") /\ ProvisionDone(i)

\* Defect: provisioning has a context of its own, out of Close's reach.
CanceledByDeleteOnly(i) == "canceled" \in marks[i]

\* A provisioning task's context descends from bgCtx, which Close cancels.
Canceled(i) == "canceled" \in marks[i] \/ mode = "closing"

\* Entries a request that names sandbox i resolves to: by id, else by name.
Lookup(i) ==
  IF i \in registered THEN {i}
  ELSE {j \in registered : NameOf[j] = NameOf[i]}

-----------------------------------------------------------------------------
(* Store.Save either replaces the record or leaves it; Store.Delete may    *)
(* also have removed it before failing.                                    *)

SaveOk(i, rec) == disk' = [disk EXCEPT ![i] = rec]

SaveFails == "disk" \in Faults /\ UNCHANGED disk

(* container delete --force.  It is also the answer for a VM that does not *)
(* exist, which every caller tells from a failure.                         *)

VMDeleteOk(i) == vm' = [vm EXCEPT ![i] = "absent"]

VMDeleteFails(i) ==
  /\ "runtime" \in Faults
  /\ vm' \in {vm, [vm EXCEPT ![i] = "absent"]}

-----------------------------------------------------------------------------
(* CreateSandbox: the duplicate check, the save and the registration are   *)
(* one critical section; a failed save rejects the call and changes        *)
(* nothing.                                                                *)

Create(i) ==
  /\ Open
  /\ row[i] = "none"
  /\ i \notin registered
  /\ SaveOk(i, "active")
  /\ row' = [row EXCEPT ![i] = "live"]
  /\ registered' = registered \cup {i}
  /\ SetCondition(i, "Starting")
  /\ marks' = [marks EXCEPT ![i] = {}]
  /\ prov' = [prov EXCEPT ![i] = "resolve"]
  /\ UNCHANGED <<vm, mode, call, poll, boot>>

(* The provisioning task.  A failure of a step that only reads, downloads  *)
(* or parses needs no fault: an image may not exist.                       *)

ProvGoto(i, pc) == prov' = [prov EXCEPT ![i] = pc]

\* Driver config, image lookup, pull; an image without a digest is not pinned.
ProvResolve(i) ==
  /\ prov[i] = "resolve"
  /\ \E pc \in {"persist", "prepare", "failed"} : ProvGoto(i, pc)
  /\ UNCHANGED <<external, mode, registered, cond, marks, call, poll, boot>>

\* The record is saved again with the digest it is about to boot.
ProvPersist(i) ==
  /\ prov[i] = "persist"
  /\ \/ SaveOk(i, RecordOf(i)) /\ ProvGoto(i, "prepare")
     \/ SaveFails /\ ProvGoto(i, "failed")
  /\ UNCHANGED <<row, vm, mode, registered, cond, marks, call, poll, boot>>

\* Supervisor binary, seed directory, environment, sizing, mounts.
ProvPrepare(i) ==
  /\ prov[i] = "prepare"
  /\ \E pc \in {"clear", "failed"} : ProvGoto(i, pc)
  /\ UNCHANGED <<external, mode, registered, cond, marks, call, poll, boot>>

\* A leftover VM of that name goes first; no boot is begun under a canceled context.
ProvClear(i) ==
  /\ prov[i] = "clear"
  /\ \/ VMDeleteOk(i) /\ ProvGoto(i, IF Canceled(i) THEN "failed" ELSE "run")
     \/ VMDeleteFails(i) /\ ProvGoto(i, "failed")
     \/ Canceled(i) /\ UNCHANGED vm /\ ProvGoto(i, "failed")
  /\ UNCHANGED <<row, disk, mode, registered, cond, marks, call, poll, boot>>

\* A command killed by a cancel may have built any part of the VM, or all
\* of it in time to report success.
ProvRun(i) ==
  /\ prov[i] = "run"
  /\ \/ /\ vm' = [vm EXCEPT ![i] = "running"]
        /\ ProvGoto(i, "booted")
     \/ /\ \E s \in VMStates :
             /\ s = "absent" \/ "runtime" \in Faults \/ Canceled(i)
             /\ vm' = [vm EXCEPT ![i] = s]
        /\ ProvGoto(i, "failed")
  /\ UNCHANGED <<row, disk, mode, registered, cond, marks, call, poll, boot>>

ProvBooted(i) ==
  /\ prov[i] = "booted"
  /\ SetCondition(i, "BackendReady")
  /\ ProvGoto(i, "finish")
  /\ UNCHANGED <<external, mode, registered, marks, call, poll, boot>>

\* A canceled task says nothing: the delete owns the condition.
ProvFailed(i) ==
  /\ prov[i] = "failed"
  /\ ProvGoto(i, IF Canceled(i) THEN "finish" ELSE "report")
  /\ UNCHANGED <<external, mode, registered, cond, marks, call, poll, boot>>

ProvReport(i) ==
  /\ prov[i] = "report"
  /\ SetCondition(i, "ProvisioningFailed")
  /\ ProvGoto(i, "finish")
  /\ UNCHANGED <<external, mode, registered, marks, call, poll, boot>>

\* close(e.done)
ProvFinish(i) ==
  /\ prov[i] = "finish"
  /\ ProvGoto(i, "none")
  /\ UNCHANGED <<external, mode, registered, cond, marks, call, poll, boot>>

Provision(i) ==
  \/ ProvResolve(i) \/ ProvPersist(i) \/ ProvPrepare(i) \/ ProvClear(i)
  \/ ProvRun(i) \/ ProvBooted(i) \/ ProvFailed(i) \/ ProvReport(i)
  \/ ProvFinish(i)

-----------------------------------------------------------------------------
(* RPC handlers.  call[c].id is the sandbox the gateway named and          *)
(* call[c].target the entry the handler found for it.                      *)

CallGoto(c, pc) == call' = [call EXCEPT ![c].pc = pc]

CallReturn(c) == call' = [call EXCEPT ![c] = NoCall]

CallOpen(c, op, pc, i, t) ==
  call' = [call EXCEPT ![c] = [op |-> op, pc |-> pc, id |-> i, target |-> t]]

(* StopSandbox and StartSandbox.                                           *)

\* Defect: an operation in progress is not refused.
BeginLifecycleTwice(c, op, i, t) ==
  /\ Open
  /\ call[c].pc = "idle"
  /\ row[i] = "live"
  /\ t \in Lookup(i)
  /\ ~Is(t, "deleting") /\ ProvisionDone(t)
  /\ cond[t] # "ProvisioningFailed"
  /\ Mark(t, "busy")
  /\ CallOpen(c, op, "runtime", i, t)
  /\ UNCHANGED <<external, mode, registered, cond, prov, poll, boot>>

BeginLifecycle(c, op, i, t) ==
  /\ Open
  /\ call[c].pc = "idle"
  /\ row[i] = "live"
  /\ t \in Lookup(i)
  /\ Pollable(t)
  /\ cond[t] # "ProvisioningFailed"
  /\ Mark(t, "busy")
  /\ CallOpen(c, op, "runtime", i, t)
  /\ UNCHANGED <<external, mode, registered, cond, prov, poll, boot>>

\* What a stop or a start leads to: the VM's state, the record, the condition.
Goal(op) == IF op = "stop" THEN "stopped" ELSE "running"
GoalRecord(op) == IF op = "stop" THEN "stopped" ELSE "active"
GoalReason(op) == IF op = "stop" THEN "ContainerStopped" ELSE "BackendReady"

\* Defect: a start boots a VM anew where there is none any more.
LifecycleRuntimeAnew(c) ==
  LET t == call[c].target IN
  /\ call[c].op \in {"stop", "start"}
  /\ call[c].pc = "runtime"
  /\ \/ /\ vm[t] = "absent" /\ call[c].op = "stop"
        /\ UNCHANGED vm
        /\ CallGoto(c, "release")
     \/ /\ vm[t] # "absent" \/ call[c].op = "start"
        /\ vm' = [vm EXCEPT ![t] = Goal(call[c].op)]
        /\ CallGoto(c, "record")
  /\ UNCHANGED <<row, disk, mode, registry, poll, boot>>

LifecycleRuntime(c) ==
  LET t == call[c].target
      goal == Goal(call[c].op)
  IN /\ call[c].op \in {"stop", "start"}
     /\ call[c].pc = "runtime"
     /\ \/ /\ vm[t] = "absent"
           /\ UNCHANGED vm
           /\ CallGoto(c, "release")
        \/ /\ vm[t] # "absent"
           /\ vm' = [vm EXCEPT ![t] = goal]
           /\ CallGoto(c, "record")
        \/ /\ vm[t] = goal \/ "runtime" \in Faults
           /\ vm[t] # "absent"
           /\ vm' \in {vm, [vm EXCEPT ![t] = goal]}
           /\ CallGoto(c, "verify")
     /\ UNCHANGED <<row, disk, mode, registry, poll, boot>>

\* An error is forgiven when the VM turns out to be in the state asked for.
LifecycleVerify(c) ==
  LET t == call[c].target IN
  /\ call[c].pc = "verify"
  /\ \/ /\ IF call[c].op = "stop" THEN vm[t] = "stopped" ELSE vm[t] = "running"
        /\ CallGoto(c, "record")
     \/ /\ vm[t] # Goal(call[c].op) \/ "runtime" \in Faults
        /\ CallGoto(c, "release")
  /\ UNCHANGED <<external, mode, registry, poll, boot>>

\* setStopped, the half under the lock.
LifecycleRecord(c) ==
  /\ call[c].pc = "record"
  /\ IF call[c].op = "stop" THEN Mark(call[c].target, "stopped")
     ELSE Unmark(call[c].target, "stopped")
  /\ CallGoto(c, "save")
  /\ UNCHANGED <<external, mode, registered, cond, prov, poll, boot>>

\* setStopped, the half after it: the copy of the record taken there is saved.
LifecycleSave(c) ==
  /\ call[c].pc = "save"
  /\ \/ /\ SaveOk(call[c].target, GoalRecord(call[c].op))
        /\ CallGoto(c, "condition")
     \/ SaveFails /\ CallGoto(c, "release")
  /\ UNCHANGED <<row, vm, mode, registry, poll, boot>>

LifecycleCondition(c) ==
  /\ call[c].pc = "condition"
  /\ SetCondition(call[c].target, GoalReason(call[c].op))
  /\ CallGoto(c, "release")
  /\ UNCHANGED <<external, mode, registered, marks, prov, poll, boot>>

LifecycleRelease(c) ==
  /\ call[c].pc = "release"
  /\ Unmark(call[c].target, "busy")
  /\ CallReturn(c)
  /\ UNCHANGED <<external, mode, registered, cond, prov, poll, boot>>

(* DeleteSandbox.                                                          *)

MayDelete(i) == row[i] = "live" \/ ("early" \in Faults /\ row[i] = "none")

\* Defect: the entry is not marked as being deleted.
BeginDeleteUnmarked(c, i, t) ==
  /\ Open
  /\ call[c].pc = "idle"
  /\ MayDelete(i)
  /\ t \in Lookup(i)
  /\ CallOpen(c, "delete", "cancel", i, t)
  /\ UNCHANGED <<external, mode, registry, poll, boot>>

BeginDelete(c, i, t) ==
  /\ Open
  /\ call[c].pc = "idle"
  /\ MayDelete(i)
  /\ t \in Lookup(i)
  /\ Mark(t, "deleting")
  /\ SetCondition(t, "Deleting")
  /\ CallOpen(c, "delete", "cancel", i, t)
  /\ UNCHANGED <<external, mode, registered, prov, poll, boot>>

\* Nothing known: still clear a VM and a record of the conventional name.
BeginDeleteUnknown(c, i) ==
  /\ Open
  /\ call[c].pc = "idle"
  /\ MayDelete(i)
  /\ Lookup(i) = {}
  /\ CallOpen(c, "delete", "clear", i, i)
  /\ UNCHANGED <<external, mode, registry, poll, boot>>

\* Canceling a task that has finished, or an adopted entry, does nothing.
DeleteCancel(c) ==
  LET t == call[c].target IN
  /\ call[c].pc = "cancel"
  /\ IF ProvisionDone(t) THEN UNCHANGED marks ELSE Mark(t, "canceled")
  /\ CallGoto(c, "wait")
  /\ UNCHANGED <<external, mode, registered, cond, prov, poll, boot>>

\* Defect: the teardown does not wait for provisioning.
DeleteWaitNot(c) ==
  /\ call[c].pc = "wait"
  /\ CallGoto(c, "teardown")
  /\ UNCHANGED <<external, mode, registry, poll, boot>>

\* Defect: the wait has no bound.
DeleteWaitForever(c) ==
  /\ call[c].pc = "wait"
  /\ ProvisionDone(call[c].target)
  /\ CallGoto(c, "teardown")
  /\ UNCHANGED <<external, mode, registry, poll, boot>>

\* Provisioning ends, or the 30 s of the detached context do.
DeleteWait(c) ==
  /\ call[c].pc = "wait"
  /\ CallGoto(c, IF ProvisionDone(call[c].target) THEN "teardown" ELSE "expired")
  /\ UNCHANGED <<external, mode, registry, poll, boot>>

\* The teardown that follows an expired wait runs under the expired context:
\* the command is never started and the call fails.
DeleteExpired(c) ==
  /\ call[c].pc = "expired"
  /\ CallReturn(c)
  /\ UNCHANGED <<external, mode, registry, poll, boot>>

\* Defect: a failure to remove the VM is only logged.
DeleteTeardownLenient(c) ==
  LET t == call[c].target IN
  /\ call[c].pc = "teardown"
  /\ VMDeleteOk(t) \/ VMDeleteFails(t)
  /\ CallGoto(c, "forget")
  /\ UNCHANGED <<row, disk, mode, registry, poll, boot>>

DeleteTeardown(c) ==
  LET t == call[c].target IN
  /\ call[c].pc = "teardown"
  /\ \/ VMDeleteOk(t) /\ CallGoto(c, "forget")
     \/ VMDeleteFails(t) /\ CallReturn(c)
  /\ UNCHANGED <<row, disk, mode, registry, poll, boot>>

DeleteForget(c) ==
  LET t == call[c].target IN
  /\ call[c].pc = "forget"
  /\ \/ SaveOk(t, "none") /\ CallGoto(c, "unregister")
     \/ /\ "disk" \in Faults
        /\ disk' \in {disk, [disk EXCEPT ![t] = "none"]}
        /\ CallReturn(c)
  /\ UNCHANGED <<row, vm, mode, registry, poll, boot>>

DeleteUnregister(c) ==
  /\ call[c].pc = "unregister"
  /\ registered' = registered \ {call[c].target}
  /\ CallGoto(c, "reply")
  /\ UNCHANGED <<external, mode, cond, marks, prov, poll, boot>>

DeleteClear(c) ==
  LET t == call[c].target IN
  /\ call[c].op = "delete"
  /\ call[c].pc = "clear"
  /\ \/ VMDeleteOk(t) /\ CallGoto(c, "purge")
     \/ VMDeleteFails(t) /\ CallReturn(c)
  /\ UNCHANGED <<row, disk, mode, registry, poll, boot>>

\* The error of this removal is dropped.
DeletePurge(c) ==
  /\ call[c].pc = "purge"
  /\ SaveOk(call[c].target, "none") \/ SaveFails
  /\ CallGoto(c, "reply")
  /\ UNCHANGED <<row, vm, mode, registry, poll, boot>>

\* The answer reaches the gateway, which drops its row.
DeleteReply(c) ==
  /\ call[c].pc = "reply"
  /\ row' = [row EXCEPT ![call[c].id] = "gone"]
  /\ CallReturn(c)
  /\ UNCHANGED <<disk, vm, mode, registry, poll, boot>>

Request(c) ==
  \E i \in Ids :
    \/ \E t \in Ids :
         \/ \E op \in {"stop", "start"} : BeginLifecycle(c, op, i, t)
         \/ BeginDelete(c, i, t)
    \/ BeginDeleteUnknown(c, i)

Handle(c) ==
  \/ LifecycleRuntime(c) \/ LifecycleVerify(c) \/ LifecycleRecord(c)
  \/ LifecycleSave(c) \/ LifecycleCondition(c) \/ LifecycleRelease(c)
  \/ DeleteCancel(c) \/ DeleteWait(c) \/ DeleteExpired(c)
  \/ DeleteTeardown(c) \/ DeleteForget(c) \/ DeleteUnregister(c)
  \/ DeleteClear(c) \/ DeletePurge(c) \/ DeleteReply(c)

-----------------------------------------------------------------------------
(* The poller.  The listing is taken without the lock and applied later    *)
(* under it; the records it changed are saved after that, one by one.      *)

\* Defect: only a sandbox that reads Ready is thought worth a poll.
HasReady == \E i \in registered : Pollable(i) /\ cond[i] = "BackendReady"

HasPollable == \E i \in registered : Pollable(i)

PollTick ==
  /\ Open
  /\ poll.pc = "idle"
  /\ HasPollable
  /\ poll' = [poll EXCEPT !.pc = "list"]
  /\ UNCHANGED <<external, mode, registry, call, boot>>

PollList ==
  /\ poll.pc = "list"
  /\ mode # "closing"
  /\ poll' = [poll EXCEPT !.pc = "apply", !.vms = vm]
  /\ UNCHANGED <<external, mode, registry, call, boot>>

PollListFails ==
  /\ poll.pc = "list"
  /\ "runtime" \in Faults \/ mode = "closing"
  /\ poll' = NoPoll
  /\ UNCHANGED <<external, mode, registry, call, boot>>

\* Defect: every stopped VM reads as stopped on purpose.
ObservedBlindly(i) ==
  CASE poll.vms[i] = "running" -> "BackendReady"
    [] poll.vms[i] = "stopped" -> "ContainerStopped"
    [] poll.vms[i] = "absent" -> "ProvisioningFailed"

\* The condition the listing calls for.
Observed(i) ==
  CASE poll.vms[i] = "running" -> "BackendReady"
    [] poll.vms[i] = "stopped" ->
         IF Is(i, "stopped") THEN "ContainerStopped" ELSE "ContainerExited"
    [] poll.vms[i] = "absent" -> "ProvisioningFailed"

\* A VM listed as running drops the stopped mark.
PollApply ==
  LET watched == {i \in registered : Pollable(i)}
      dirty == {i \in watched : poll.vms[i] = "running" /\ Is(i, "stopped")}
  IN /\ poll.pc = "apply"
     /\ cond' = [i \in Ids |-> IF i \in watched THEN Observed(i) ELSE cond[i]]
     /\ marks' = [i \in Ids |->
          IF i \in dirty THEN marks[i] \ {"stopped"} ELSE marks[i]]
     /\ poll' = IF dirty = {} THEN NoPoll
                ELSE [NoPoll EXCEPT !.pc = "take", !.todo = dirty]
     /\ UNCHANGED <<external, mode, registered, prov, call, boot>>

\* The record to save is read under the lock ...
PollTake(i) ==
  /\ poll.pc = "take"
  /\ i \in poll.todo
  /\ poll' = [poll EXCEPT !.pc = "save", !.cur = i, !.todo = @ \ {i},
                          !.rec = RecordOf(i)]
  /\ UNCHANGED <<external, mode, registry, call, boot>>

\* ... and saved after it; a failure is logged.
PollSave ==
  /\ poll.pc = "save"
  /\ SaveOk(poll.cur, poll.rec) \/ SaveFails
  /\ poll' = IF poll.todo = {} THEN NoPoll
             ELSE [NoPoll EXCEPT !.pc = "take", !.todo = poll.todo]
  /\ UNCHANGED <<row, vm, mode, registry, call, boot>>

Poll == PollTick \/ PollList \/ PollListFails \/ PollApply \/ PollSave
          \/ \E i \in Ids : PollTake(i)

-----------------------------------------------------------------------------
(* Startup reconcile, before the socket is bound.                          *)

Start ==
  /\ mode = "down"
  /\ mode' = "booting"
  /\ boot' = [NoBoot EXCEPT !.pc = "records"]
  /\ UNCHANGED <<external, registry, call, poll>>

BootRecords ==
  /\ boot.pc = "records"
  /\ boot' = [boot EXCEPT !.pc = "list", !.records = disk]
  /\ UNCHANGED <<external, mode, registry, call, poll>>

BootList ==
  /\ boot.pc = "list"
  /\ boot' = [boot EXCEPT !.pc = "adopt", !.vms = vm]
  /\ UNCHANGED <<external, mode, registry, call, poll>>

\* The condition an adopted record's VM and intent call for.
Adopted(i) ==
  CASE boot.vms[i] = "running" -> "BackendReady"
    [] boot.vms[i] = "stopped" ->
         IF boot.records[i] = "stopped" THEN "ContainerStopped" ELSE "ContainerExited"
    [] boot.vms[i] = "absent" -> "ProvisioningFailed"

\* Defect: only running orphans are swept.
BootAdoptRunning ==
  LET known == {i \in Ids : boot.records[i] # "none"} IN
  /\ boot.pc = "adopt"
  /\ registered' = known
  /\ cond' = [i \in Ids |-> IF i \in known THEN Adopted(i) ELSE cond[i]]
  /\ marks' = [i \in Ids |->
       IF boot.records[i] = "stopped" THEN {"stopped"} ELSE {}]
  /\ boot' = [boot EXCEPT !.pc = "sweep",
                !.left = {i \in Ids \ known : boot.vms[i] = "running"}]
  /\ UNCHANGED <<external, mode, prov, call, poll>>

BootAdopt ==
  LET known == {i \in Ids : boot.records[i] # "none"} IN
  /\ boot.pc = "adopt"
  /\ registered' = known
  /\ cond' = [i \in Ids |-> IF i \in known THEN Adopted(i) ELSE cond[i]]
  /\ marks' = [i \in Ids |->
       IF boot.records[i] = "stopped" THEN {"stopped"} ELSE {}]
  /\ boot' = [boot EXCEPT !.pc = "sweep",
                !.left = {i \in Ids \ known : boot.vms[i] # "absent"}]
  /\ UNCHANGED <<external, mode, prov, call, poll>>

\* A managed VM without a record is an orphan; a failure is logged.
BootSweep(i) ==
  /\ boot.pc = "sweep"
  /\ i \in boot.left
  /\ VMDeleteOk(i) \/ VMDeleteFails(i)
  /\ boot' = [boot EXCEPT !.left = @ \ {i}]
  /\ UNCHANGED <<row, disk, mode, registry, call, poll>>

BootDone ==
  /\ boot.pc = "sweep"
  /\ boot.left = {}
  /\ mode' = "serving"
  /\ boot' = NoBoot
  /\ UNCHANGED <<external, registry, call, poll>>

Boot == BootRecords \/ BootList \/ BootAdopt \/ BootDone
          \/ \E i \in Ids : BootSweep(i)

(* The process goes: its memory, its goroutines and its handlers with it.  *)

ProcessGone ==
  /\ mode' = "down"
  /\ registered' = {}
  /\ cond' = [i \in Ids |-> "Starting"]
  /\ marks' = [i \in Ids |-> {}]
  /\ prov' = [i \in Ids |-> "none"]
  /\ call' = [c \in Calls |-> NoCall]
  /\ poll' = NoPoll
  /\ boot' = NoBoot
  /\ UNCHANGED external

\* Bootstrap gives up when the listing fails.
BootListFails ==
  /\ boot.pc = "list"
  /\ "runtime" \in Faults
  /\ ProcessGone

Crash == "crash" \in Faults /\ mode # "down" /\ ProcessGone

\* SIGTERM: the server refuses new calls and drains the others, for 10 s.
Shutdown ==
  /\ "restart" \in Faults
  /\ mode = "serving"
  /\ mode' = "draining"
  /\ UNCHANGED <<external, registry, call, poll, boot>>

\* Server.Close cancels the background context ...
Close ==
  /\ mode = "draining"
  /\ mode' = "closing"
  /\ UNCHANGED <<external, registry, call, poll, boot>>

\* ... and waits for the tasks and the poller, not for a handler.
Exit ==
  /\ mode = "closing"
  /\ \A i \in Ids : ProvisionDone(i)
  /\ poll.pc = "idle"
  /\ ProcessGone

-----------------------------------------------------------------------------
(* What happens to a VM without the driver: the guest powers off, the user *)
(* starts it or removes it by hand.                                        *)

VMChanges(i, from, to) ==
  /\ "outofband" \in Faults
  /\ vm[i] = from
  /\ vm' = [vm EXCEPT ![i] = to]
  /\ UNCHANGED <<row, disk, mode, registry, call, poll, boot>>

OutOfBand(i) ==
  \/ VMChanges(i, "running", "stopped")
  \/ VMChanges(i, "stopped", "running")
  \/ VMChanges(i, "running", "absent")
  \/ VMChanges(i, "stopped", "absent")

Next ==
  \/ \E i \in Ids : Create(i) \/ Provision(i) \/ OutOfBand(i)
  \/ \E c \in Calls : Request(c) \/ Handle(c)
  \/ Poll
  \/ Start \/ Boot \/ BootListFails
  \/ Shutdown \/ Close \/ Exit \/ Crash

Spec == Init /\ [][Next]_vars

(***************************************************************************)
(* Fairness.  A handler always goes on: the commands it waits for are      *)
(* bounded by lifecycleTimeout or deleteTimeout, and an expired wait is a  *)
(* step of its own.  A provisioning task goes on by itself only where it   *)
(* computes; a pull may hang for ever, and ends only when its context is   *)
(* canceled and the command is killed.  Not even then does a task go on    *)
(* that is at its supervisor binary: the extractor removes its container   *)
(* outside of the canceled context, without a timeout, and whoever waits   *)
(* for its mutex waits for that.  The poller's listings are assumed to     *)
(* succeed again and again.  Nothing makes the gateway, the user or a      *)
(* fault act.                                                              *)
(***************************************************************************)

Proceeds(i) ==
  \/ prov[i] \in {"persist", "booted", "failed", "report", "finish"}
  \/ Canceled(i) /\ prov[i] # "prepare"

Fairness ==
  /\ \A c \in Calls : WF_vars(Handle(c))
  /\ \A i \in Ids : WF_vars(Proceeds(i) /\ Provision(i))
  /\ WF_vars(Poll) /\ SF_vars(PollList)
  /\ WF_vars(Start) /\ WF_vars(Boot)
  /\ WF_vars(Close) /\ WF_vars(Exit)

FairSpec == Spec /\ Fairness

-----------------------------------------------------------------------------
(* Safety.                                                                 *)

\* Handler c is inside a StopSandbox or StartSandbox of entry i.
Operates(c, i) == call[c].op \in {"stop", "start"} /\ call[c].target = i

\* An entry is marked busy exactly while one stop or start works on it, no two
\* ever do, and none works on a sandbox that is still being provisioned: what
\* beginLifecycle promises its callers and the poller.
LifecycleExclusive ==
  \A i \in Ids :
    /\ Is(i, "busy") <=> \E c \in Calls : Operates(c, i)
    /\ \A c, d \in Calls : Operates(c, i) /\ Operates(d, i) => c = d
    /\ Is(i, "busy") => ProvisionDone(i)

\* A record is on disk from before the first boot attempt until after the VM is
\* gone, so a VM without a record is always an orphan of an earlier loss: the
\* order CreateSandbox and DeleteSandbox keep, across crashes at any point.
NoVMWithoutRecord ==
  \A i \in Ids \ LostRecords : vm[i] # "absent" => disk[i] # "none"

\* A sandbox the driver lists and is not deleting has a record, so a restart
\* finds it again.
AcceptedIsDurable ==
  \A i \in registered : ~Is(i, "deleting") => disk[i] # "none"

\* Once a delete has been answered with success the VM is gone for good: neither
\* the create it raced nor a concurrent stop or start brings it back.
DeletedStaysDeleted ==
  \A i \in Ids : row[i] = "gone" => vm[i] = "absent"

\* While the driver serves, a VM whose record was lost is gone: Bootstrap swept
\* it, unless its removal failed.
OrphansAreSwept ==
  Up /\ "runtime" \notin Faults => \A i \in LostRecords : vm[i] = "absent"

\* ContainerStopped, by which the gateway completes a stop, is read only of an
\* entry whose stop is on record, whichever of StopSandbox, the poller and
\* Bootstrap has set it, or during the stop or start that changes the record.
\* The mark is of the last stop that was asked for: a VM that was started by hand
\* since, and died before a poll has seen it, is not told from one that was not.
StoppedIsIntended ==
  "disk" \notin Faults =>
    \A i \in registered :
      cond[i] = "ContainerStopped" => Is(i, "stopped") \/ Is(i, "busy")

-----------------------------------------------------------------------------
(* Liveness.                                                               *)

\* Every call is answered, however the create it waits for hangs.
CallsReturn == \A c \in Calls : call[c].pc # "idle" ~> call[c].pc = "idle"

\* No canceled task is at its supervisor binary for ever: the removal of the
\* extraction container, which no context ends, returns.
ExtractionsEnd == \A i \in Ids : []<>~(Canceled(i) /\ prov[i] = "prepare")

\* A driver told to terminate does, whatever pull, copy or boot hangs: canceling
\* the background context reaches every provisioning task and the poller.  Only
\* the removal of an extraction container can keep Close waiting.
ShutdownCompletes == ExtractionsEnd => (mode = "draining" ~> mode = "down")

\* The condition of i says what its VM does.
Truthful(i) ==
  cond[i] = CASE vm[i] = "running" -> "BackendReady"
              [] vm[i] = "stopped" ->
                   IF Is(i, "stopped") THEN "ContainerStopped" ELSE "ContainerExited"
              [] vm[i] = "absent" -> "ProvisioningFailed"

\* "The runtime is the source of truth": once the driver serves undisturbed and
\* the VMs no longer change, every sandbox that is not being created or deleted
\* gets the condition of its VM and keeps it.
PollerConverges ==
  /\ <>[](mode = "serving" /\ \A c \in Calls : call[c].pc = "idle")
  /\ <>[][UNCHANGED vm]_vars
  => <>[](\A i \in registered :
            ProvisionDone(i) /\ ~Is(i, "deleting") => Truthful(i))

-----------------------------------------------------------------------------
(* What the driver promises of each sandbox.                               *)

\* Provisioning has not got to the end of its container run.
Unbooted == {"resolve", "persist", "prepare", "clear", "run"}

Phase(i) ==
  CASE row[i] = "none" -> "new"
    [] row[i] = "gone" -> "gone"
    [] row[i] = "live" -> IF prov[i] \in Unbooted THEN "creating" ELSE "settled"

Phases == [i \in Ids |-> Phase(i)]
Kept == {i \in Ids : disk[i] # "none"}
Asked == {i \in Ids : \E c \in Calls : call[c].op = "delete" /\ call[c].target = i}

Contract == INSTANCE SandboxContract WITH
  phase <- Phases, kept <- Kept, asked <- Asked, Meddling <- "outofband" \in Faults

\* One VM per sandbox, with a record around its life, and nothing taken away but by
\* a delete: the order of saves, boots and removals in CreateSandbox, DeleteSandbox
\* and Bootstrap, through every interleaving, failure, crash and restart.
ImplementsContract == Contract!Spec
=============================================================================
