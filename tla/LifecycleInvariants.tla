------------------------ MODULE LifecycleInvariants ------------------------
(***************************************************************************)
(* The inductive invariants behind the safety properties of Lifecycle.     *)
(* Registry holds with every fault.  Custody is about VMs and records and  *)
(* needs the gateway to send a delete only once the create was answered.   *)
(* Finality needs sandbox names to be unique as well.  Orphans is about    *)
(* the VMs of LostRecords where no runtime command fails, Intent about the *)
(* mark behind ContainerStopped where every record can be saved.  Promise  *)
(* is Finality with what the steps of SandboxContract need besides.        *)
(***************************************************************************)
EXTENDS Lifecycle

LifecyclePcs == {"runtime", "verify", "record", "save", "condition", "release"}
TeardownPcs == {"teardown", "forget", "unregister"}
KnownPcs == {"cancel", "wait", "expired"} \cup TeardownPcs
UnknownPcs == {"clear", "purge"}

\* A handler is at a point of its own operation and has a sandbox.
CallShape ==
  \A c \in Calls :
    /\ call[c].op = "none" <=> call[c].pc = "idle"
    /\ call[c].op \in {"stop", "start"} => call[c].pc \in LifecyclePcs
    /\ call[c].op = "delete" => call[c].pc \in KnownPcs \cup UnknownPcs \cup {"reply"}
    /\ call[c].op # "none" => call[c].id \in Ids /\ call[c].target \in Ids

\* Nothing runs before the driver serves, and Bootstrap runs only then.
Dormant ==
  /\ boot.pc # "off" <=> mode = "booting"
  /\ mode \in {"down", "booting"} =>
       /\ \A c \in Calls : call[c].op = "none"
       /\ poll.pc = "idle"
       /\ \A i \in Ids : ProvisionDone(i)
  /\ boot.pc \in {"list", "adopt"} => \A i \in Ids : boot.records[i] # "none" => disk[i] # "none"

\* Handler c works on entry i, or has found it.
Knows(c, i) == call[c].target = i /\ call[c].pc \in LifecyclePcs \cup KnownPcs

\* The poller is about to save the record of i.
PollSaves(i) == \/ poll.pc \in {"take", "save"} /\ i \in poll.todo
                \/ poll.pc = "save" /\ i = poll.cur

\* No entry, no record, and nobody about to make one.
Unknown(i) ==
  /\ i \notin registered
  /\ disk[i] = "none"
  /\ ~PollSaves(i)
  /\ \A c \in Calls : ~Knows(c, i)

\* An id nobody created is unknown everywhere.
Uncreated == \A i \in Ids : row[i] = "none" => Unknown(i)

PollShape ==
  /\ poll.pc = "save" => poll.cur \in Ids /\ poll.rec # "none"

\* Only a registered sandbox is being provisioned.
ProvisionRegistered == \A i \in Ids : ~ProvisionDone(i) => i \in registered

\* The teardown of a known sandbox starts when its provisioning is over.
TeardownAfterProvision ==
  \A c \in Calls : call[c].pc \in TeardownPcs => ProvisionDone(call[c].target)

Registry ==
  /\ TypeOK /\ CallShape /\ Dormant /\ Uncreated /\ PollShape
  /\ ProvisionRegistered /\ TeardownAfterProvision /\ LifecycleExclusive

-----------------------------------------------------------------------------
\* A delete that found nothing is of a sandbox that was created once, and
\* nothing registers it meanwhile.
UnknownStaysUnknown ==
  \A c \in Calls :
    call[c].op = "delete" /\ call[c].pc \in UnknownPcs =>
      row[call[c].target] # "none" /\ call[c].target \notin registered

AnsweredWasCreated ==
  \A c \in Calls : call[c].pc = "reply" =>
    row[call[c].target] # "none" /\ ProvisionDone(call[c].target)

\* From the removal of the VM to the answer, the VM stays away.
RemovedStaysRemoved ==
  \A c \in Calls :
    call[c].pc \in {"forget", "unregister", "purge", "reply"} =>
      vm[call[c].target] = "absent"

\* A known sandbox with a delete at work is marked.
DeletingIsMarked ==
  \A c \in Calls : call[c].pc \in KnownPcs => Is(call[c].target, "deleting")

\* What is being provisioned has a record.
ProvisionHasRecord == \A i \in Ids : ~ProvisionDone(i) => disk[i] # "none"

Custody ==
  /\ Registry
  /\ UnknownStaysUnknown /\ AnsweredWasCreated /\ RemovedStaysRemoved
  /\ DeletingIsMarked /\ ProvisionHasRecord
  /\ NoVMWithoutRecord /\ AcceptedIsDurable

-----------------------------------------------------------------------------
NamesItsTarget == \A c \in Calls : call[c].id = call[c].target

GoneIsNotProvisioned == \A i \in Ids : row[i] = "gone" => ProvisionDone(i)

Finality ==
  Custody /\ NamesItsTarget /\ GoneIsNotProvisioned /\ DeletedStaysDeleted

-----------------------------------------------------------------------------
\* A sandbox whose record was lost is unknown, and never created again.
LostIsUnknown == \A i \in LostRecords : row[i] # "none" /\ Unknown(i)

\* As long as its VM is there the driver does not serve, and Bootstrap has listed
\* it for the sweep.
ListedForSweep ==
  \A i \in LostRecords :
    vm[i] # "absent" =>
      /\ ~Up
      /\ boot.pc = "adopt" => boot.vms[i] # "absent"
      /\ boot.pc = "sweep" => i \in boot.left

Orphans == Registry /\ LostIsUnknown /\ ListedForSweep

-----------------------------------------------------------------------------
\* From the mark to the condition, a stop in progress keeps its mark.
StopIsMarked ==
  \A c \in Calls :
    call[c].op = "stop" /\ call[c].pc \in {"save", "condition"} =>
      Is(call[c].target, "stopped")

\* Handler c has taken the mark of i away and will set its condition.
Restarts(c, i) ==
  call[c].op = "start" /\ call[c].pc \in {"save", "condition"} /\ call[c].target = i

\* What reads as stopped is marked, but for a start that is about to say so.
ShownIsMarked ==
  \A i \in registered :
    cond[i] = "ContainerStopped" => Is(i, "stopped") \/ \E c \in Calls : Restarts(c, i)

Intent == Registry /\ StopIsMarked /\ ShownIsMarked

-----------------------------------------------------------------------------
\* Until its container run a sandbox has no VM: the one that is made there is
\* its first.
UnbootedHasNoVM == \A i \in Ids : prov[i] \in Unbooted => vm[i] = "absent"

\* Bootstrap's records are those on disk, and it sweeps no VM that has one.
SweepsOrphansOnly ==
  /\ boot.pc \in {"list", "adopt"} =>
       \A i \in Ids : boot.records[i] = "none" => disk[i] = "none"
  /\ boot.pc = "sweep" => \A i \in boot.left : disk[i] = "none"

Promise == Finality /\ LostIsUnknown /\ UnbootedHasNoVM /\ SweepsOrphansOnly
=============================================================================
