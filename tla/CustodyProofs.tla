--------------------------- MODULE CustodyProofs ---------------------------
(***************************************************************************)
(* Who holds a sandbox's record and its VM, and what its condition says of *)
(* the user's intent.  The first lemmas say which actions may change one   *)
(* sandbox's share of a variable; the invariants of Custody, of Finality,  *)
(* of Orphans and of Intent follow from them one by one.  The last part is *)
(* the refinement of SandboxContract.                                      *)
(***************************************************************************)
EXTENDS LifecycleProofs

\* A record is removed by a delete only.
LEMMA DiskStep ==
  ASSUME Registry, [Next]_vars, NEW i \in Ids, disk'[i] = "none"
  PROVE  \/ disk[i] = "none"
         \/ \E c \in Calls : /\ DeleteForget(c) \/ DeletePurge(c)
                             /\ call[c].target = i
<1> DEFINE Removed == \E c \in Calls : /\ DeleteForget(c) \/ DeletePurge(c)
                                       /\ call[c].target = i
<1> USE DEF external
<1>1. ASSUME NEW j \in Ids, NEW rec \in {"active", "stopped"}, SaveOk(j, rec)
      PROVE  disk[i] = "none"
  BY <1>1 DEF SaveOk, Registry, TypeOK
<1>2. ASSUME NEW j \in Ids, Create(j) \/ Provision(j) \/ OutOfBand(j)
      PROVE  disk[i] = "none"
  BY <1>1, <1>2 DEF Create, Provision, ProvResolve, ProvPersist, ProvPrepare, ProvClear,
     ProvRun, ProvBooted, ProvFailed, ProvReport, ProvFinish, SaveFails, RecordOf,
     OutOfBand, VMChanges
<1>3. ASSUME NEW c \in Calls, Request(c) PROVE disk[i] = "none"
  BY <1>3 DEF Request, BeginLifecycle, BeginDelete, BeginDeleteUnknown
<1>4. ASSUME NEW c \in Calls, Handle(c) PROVE disk[i] = "none" \/ Removed
  <2>1. CASE LifecycleSave(c)
    <3>1. call[c].target \in Ids /\ GoalRecord(call[c].op) \in {"active", "stopped"}
      BY <2>1 DEF LifecycleSave, GoalRecord, Registry, CallShape
    <3>2. QED
      BY <1>1, <2>1, <3>1 DEF LifecycleSave, SaveFails
  <2>2. CASE DeleteForget(c) \/ DeletePurge(c)
    BY <2>2 DEF DeleteForget, DeletePurge, SaveOk, SaveFails, Registry, TypeOK
  <2>3. CASE ~(LifecycleSave(c) \/ DeleteForget(c) \/ DeletePurge(c))
    BY <1>4, <2>3 DEF Handle, LifecycleRuntime, LifecycleVerify, LifecycleRecord,
       LifecycleCondition, LifecycleRelease, DeleteCancel, DeleteWait, DeleteExpired,
       DeleteTeardown, DeleteUnregister, DeleteClear, DeleteReply
  <2>4. QED
    BY <2>1, <2>2, <2>3
<1>5. CASE Poll
  <2>1. CASE PollSave
    <3>1. poll.cur \in Ids /\ poll.rec \in {"active", "stopped"}
      BY <2>1 DEF PollSave, Registry, PollShape, TypeOK, DiskStates
    <3>2. QED
      BY <1>1, <2>1, <3>1 DEF PollSave, SaveFails
  <2>2. CASE ~PollSave
    BY <1>5, <2>2 DEF Poll, PollTick, PollList, PollListFails, PollApply, PollTake
  <2>3. QED
    BY <2>1, <2>2
<1>6. CASE Start \/ Boot \/ Shutdown \/ Close \/ ProcessGone \/ UNCHANGED vars
  BY <1>6 DEF Start, Boot, BootRecords, BootList, BootAdopt, BootSweep, BootDone, Shutdown,
     Close, ProcessGone, vars
<1>7. QED
  BY <1>2, <1>3, <1>4, <1>5, <1>6 DEF Next, BootListFails, Exit, Crash

\* A VM comes into being in the boot of its provisioning only.
LEMMA VMStep ==
  ASSUME Registry, [Next]_vars, NEW i \in Ids, vm'[i] # "absent"
  PROVE  vm[i] # "absent" \/ (prov[i] = "run" /\ ProvRun(i))
<1> USE DEF external
<1>1. ASSUME NEW j \in Ids, VMDeleteOk(j) \/ VMDeleteFails(j) PROVE vm[i] # "absent"
  BY <1>1 DEF VMDeleteOk, VMDeleteFails, Registry, TypeOK
<1>2. ASSUME NEW j \in Ids, Create(j) \/ OutOfBand(j) PROVE vm[i] # "absent"
  BY <1>2 DEF Create, OutOfBand, VMChanges, Registry, TypeOK
<1>3. ASSUME NEW j \in Ids, Provision(j)
      PROVE  vm[i] # "absent" \/ (prov[i] = "run" /\ ProvRun(i))
  <2>1. CASE ProvRun(j)
    BY <2>1 DEF ProvRun, Registry, TypeOK
  <2>2. CASE ProvClear(j)
    BY <1>1, <2>2 DEF ProvClear
  <2>3. CASE ~(ProvRun(j) \/ ProvClear(j))
    BY <1>3, <2>3 DEF Provision, ProvResolve, ProvPersist, ProvPrepare, ProvBooted,
       ProvFailed, ProvReport, ProvFinish
  <2>4. QED
    BY <2>1, <2>2, <2>3
<1>4. ASSUME NEW c \in Calls, Request(c) PROVE vm[i] # "absent"
  BY <1>4 DEF Request, BeginLifecycle, BeginDelete, BeginDeleteUnknown
<1>5. ASSUME NEW c \in Calls, Handle(c) PROVE vm[i] # "absent"
  <2>1. CASE LifecycleRuntime(c)
    BY <2>1 DEF LifecycleRuntime, Registry, TypeOK
  <2>2. CASE DeleteTeardown(c) \/ DeleteClear(c)
    <3>1. call[c].target \in Ids
      BY <2>2 DEF DeleteTeardown, DeleteClear, Registry, CallShape
    <3>2. QED
      BY <1>1, <2>2, <3>1 DEF DeleteTeardown, DeleteClear
  <2>3. CASE ~(LifecycleRuntime(c) \/ DeleteTeardown(c) \/ DeleteClear(c))
    BY <1>5, <2>3 DEF Handle, LifecycleVerify, LifecycleRecord, LifecycleSave,
       LifecycleCondition, LifecycleRelease, DeleteCancel, DeleteWait, DeleteExpired,
       DeleteForget, DeleteUnregister, DeletePurge, DeleteReply
  <2>4. QED
    BY <2>1, <2>2, <2>3
<1>6. CASE Poll
  BY <1>6 DEF Poll, PollTick, PollList, PollListFails, PollApply, PollTake, PollSave
<1>7. CASE Boot
  BY <1>1, <1>7 DEF Boot, BootRecords, BootList, BootAdopt, BootSweep, BootDone
<1>8. CASE Start \/ Shutdown \/ Close \/ ProcessGone \/ UNCHANGED vars
  BY <1>8 DEF Start, Shutdown, Close, ProcessGone, vars
<1>9. QED
  BY <1>2, <1>3, <1>4, <1>5, <1>6, <1>7, <1>8 DEF Next, BootListFails, Exit, Crash

\* Provisioning is begun by Create only, and never goes back to before its boot.
LEMMA ProvStep ==
  ASSUME Registry, [Next]_vars, NEW i \in Ids, ~ProvisionDone(i)'
  PROVE  \/ ~ProvisionDone(i) /\ (prov'[i] \in Unbooted => prov[i] \in Unbooted)
         \/ Create(i)
<1> DEFINE Onward == ~ProvisionDone(i) /\ (prov'[i] \in Unbooted => prov[i] \in Unbooted)
<1> USE DEF ProvisionDone, registry
<1>1. ASSUME NEW j \in Ids, Create(j) PROVE Onward \/ Create(i)
  BY <1>1 DEF Create, Registry, TypeOK
<1>2. ASSUME NEW j \in Ids, Provision(j) PROVE Onward
  <2>1. /\ prov[j] # "none"
        /\ \E pc \in ProvStates :
             ProvGoto(j, pc) /\ (pc \in Unbooted => prov[j] \in Unbooted)
    BY <1>2 DEF Provision, ProvResolve, ProvPersist, ProvPrepare, ProvClear, ProvRun,
       ProvBooted, ProvFailed, ProvReport, ProvFinish, ProvStates, Unbooted
  <2>2. QED
    BY <2>1 DEF ProvGoto, Registry, TypeOK
<1>3. ASSUME NEW c \in Calls, Request(c) \/ Handle(c) PROVE UNCHANGED prov
  BY <1>3 DEF Request, BeginLifecycle, BeginDelete, BeginDeleteUnknown, Handle,
     LifecycleRuntime, LifecycleVerify, LifecycleRecord, LifecycleSave,
     LifecycleCondition, LifecycleRelease, DeleteCancel, DeleteWait, DeleteExpired,
     DeleteTeardown, DeleteForget, DeleteUnregister, DeleteClear, DeletePurge, DeleteReply
<1>4. CASE Poll \/ Start \/ Boot \/ Shutdown \/ Close \/ UNCHANGED vars
             \/ \E j \in Ids : OutOfBand(j)
  BY <1>4 DEF Poll, PollTick, PollList, PollListFails, PollApply, PollTake, PollSave, Start,
     Boot, BootRecords, BootList, BootAdopt, BootSweep, BootDone, Shutdown, Close,
     OutOfBand, VMChanges, vars
<1>5. CASE ProcessGone
  BY <1>5 DEF ProcessGone
<1>6. QED
  BY <1>1, <1>2, <1>3, <1>4, <1>5 DEF Next, BootListFails, Exit, Crash

\* An entry appears with its create, or when Bootstrap adopts its record.
LEMMA RegisteredStep ==
  ASSUME Registry, [Next]_vars, NEW i \in Ids, i \in registered'
  PROVE  \/ i \in registered \/ Create(i)
         \/ BootAdopt /\ disk[i] # "none" /\ UNCHANGED disk
<1> USE DEF registry, external
<1>1. ASSUME NEW j \in Ids, Create(j) PROVE i \in registered \/ Create(i)
  BY <1>1 DEF Create
<1>2. ASSUME NEW j \in Ids, Provision(j) \/ OutOfBand(j) PROVE UNCHANGED registered
  BY <1>2 DEF Provision, ProvResolve, ProvPersist, ProvPrepare, ProvClear, ProvRun,
     ProvBooted, ProvFailed, ProvReport, ProvFinish, OutOfBand, VMChanges
<1>3. ASSUME NEW c \in Calls, Request(c) \/ Handle(c) PROVE registered' \subseteq registered
  BY <1>3 DEF Request, BeginLifecycle, BeginDelete, BeginDeleteUnknown, Handle,
     LifecycleRuntime, LifecycleVerify, LifecycleRecord, LifecycleSave,
     LifecycleCondition, LifecycleRelease, DeleteCancel, DeleteWait, DeleteExpired,
     DeleteTeardown, DeleteForget, DeleteUnregister, DeleteClear, DeletePurge, DeleteReply
<1>4. CASE Poll \/ Start \/ Shutdown \/ Close \/ UNCHANGED vars
  BY <1>4 DEF Poll, PollTick, PollList, PollListFails, PollApply, PollTake, PollSave, Start,
     Shutdown, Close, vars
<1>5. CASE Boot
  <2>1. CASE BootAdopt
    BY <2>1 DEF BootAdopt, Registry, Dormant
  <2>2. CASE ~BootAdopt
    BY <1>5, <2>2 DEF Boot, BootRecords, BootList, BootSweep, BootDone
  <2>3. QED
    BY <2>1, <2>2
<1>6. CASE ProcessGone
  BY <1>6 DEF ProcessGone
<1>7. QED
  BY <1>1, <1>2, <1>3, <1>4, <1>5, <1>6 DEF Next, BootListFails, Exit, Crash

\* An entry marked as being deleted stays so until it or the process goes.
LEMMA DeletingStep ==
  ASSUME Registry, [Next]_vars, NEW i \in Ids, Is(i, "deleting"), ~Is(i, "deleting")'
  PROVE  Create(i) \/ BootAdopt \/ ProcessGone
<1> USE DEF registry, Is
<1>1. ASSUME NEW j \in Ids, Create(j) PROVE Create(i)
  BY <1>1 DEF Create, Registry, TypeOK
<1>2. ASSUME NEW j \in Ids, Provision(j) \/ OutOfBand(j) PROVE FALSE
  BY <1>2 DEF Provision, ProvResolve, ProvPersist, ProvPrepare, ProvClear, ProvRun,
     ProvBooted, ProvFailed, ProvReport, ProvFinish, OutOfBand, VMChanges
<1>3. ASSUME NEW j, Mark(j, "busy") \/ Mark(j, "deleting") \/ Mark(j, "canceled")
                      \/ Mark(j, "stopped") \/ Unmark(j, "stopped") \/ Unmark(j, "busy")
      PROVE  FALSE
  BY <1>3 DEF Mark, Unmark, Registry, TypeOK
<1>4. ASSUME NEW c \in Calls, Request(c) PROVE FALSE
  BY <1>3, <1>4 DEF Request, BeginLifecycle, BeginDelete, BeginDeleteUnknown
<1>5. ASSUME NEW c \in Calls, Handle(c) PROVE FALSE
  BY <1>3, <1>5 DEF Handle, LifecycleRuntime, LifecycleVerify, LifecycleRecord,
     LifecycleSave, LifecycleCondition, LifecycleRelease, DeleteCancel, DeleteWait,
     DeleteExpired, DeleteTeardown, DeleteForget, DeleteUnregister, DeleteClear,
     DeletePurge, DeleteReply
<1>6. CASE Poll
  <2>1. CASE PollApply
    BY <2>1 DEF PollApply, Registry, TypeOK
  <2>2. CASE ~PollApply
    BY <1>6, <2>2 DEF Poll, PollTick, PollList, PollListFails, PollTake, PollSave
  <2>3. QED
    BY <2>1, <2>2
<1>7. CASE Start \/ Boot \/ Shutdown \/ Close \/ UNCHANGED vars
  BY <1>7 DEF Start, Boot, BootRecords, BootList, BootSweep, BootDone, Shutdown, Close, vars
<1>8. QED
  BY <1>1, <1>2, <1>4, <1>5, <1>6, <1>7 DEF Next, BootListFails, Exit, Crash

\* A handler's own steps change its call, and nobody else's do.
LEMMA CallStep ==
  ASSUME Registry, [Next]_vars, NEW c \in Calls, call'[c] # call[c]
  PROVE  Request(c) \/ Handle(c) \/ ProcessGone
<1>1. ASSUME NEW j \in Ids, Create(j) \/ Provision(j) \/ OutOfBand(j) PROVE UNCHANGED call
  BY <1>1 DEF Create, Provision, ProvResolve, ProvPersist, ProvPrepare, ProvClear, ProvRun,
     ProvBooted, ProvFailed, ProvReport, ProvFinish, OutOfBand, VMChanges
<1>2. ASSUME NEW d \in Calls, d # c, Request(d) PROVE call'[c] = call[c]
  BY <1>2 DEF Request, BeginLifecycle, BeginDelete, BeginDeleteUnknown, CallOpen, Registry,
     TypeOK
<1>3. ASSUME NEW d \in Calls, d # c, Handle(d) PROVE call'[c] = call[c]
  BY <1>3 DEF Handle, LifecycleRuntime, LifecycleVerify, LifecycleRecord, LifecycleSave,
     LifecycleCondition, LifecycleRelease, DeleteCancel, DeleteWait, DeleteExpired,
     DeleteTeardown, DeleteForget, DeleteUnregister, DeleteClear, DeletePurge, DeleteReply,
     CallGoto, CallReturn, Registry, TypeOK
<1>4. CASE Poll \/ Start \/ Boot \/ Shutdown \/ Close \/ UNCHANGED vars
  BY <1>4 DEF Poll, PollTick, PollList, PollListFails, PollApply, PollTake, PollSave, Start,
     Boot, BootRecords, BootList, BootAdopt, BootSweep, BootDone, Shutdown, Close, vars
<1>5. QED
  BY <1>1, <1>2, <1>3, <1>4 DEF Next, BootListFails, Exit, Crash

-----------------------------------------------------------------------------
\* A request never opens a call past the first step of its operation.
LEMMA RequestOpens ==
  ASSUME Registry, NEW c \in Calls, Request(c)
  PROVE  /\ UNCHANGED <<row, disk, vm, registered, prov>>
         /\ \/ call'[c].op \in {"stop", "start"} /\ call'[c].pc = "runtime"
            \/ /\ call'[c].op = "delete" /\ call'[c].pc = "cancel"
               /\ "deleting" \in marks'[call'[c].target]
            \/ /\ call'[c].op = "delete" /\ call'[c].pc = "clear"
               /\ call'[c].target \in Ids
               /\ MayDelete(call'[c].target) /\ Lookup(call'[c].target) = {}
<1>1. UNCHANGED <<row, disk, vm, registered, prov>>
  BY DEF Request, BeginLifecycle, BeginDelete, BeginDeleteUnknown, external, registry
<1>2. PICK i \in Ids :
        \/ \E t \in Ids :
             \/ \E op \in {"stop", "start"} : BeginLifecycle(c, op, i, t)
             \/ BeginDelete(c, i, t)
        \/ BeginDeleteUnknown(c, i)
  BY DEF Request
<1>3. ASSUME NEW t \in Ids, NEW op \in {"stop", "start"}, BeginLifecycle(c, op, i, t)
      PROVE  call'[c].op \in {"stop", "start"} /\ call'[c].pc = "runtime"
  BY <1>3 DEF BeginLifecycle, CallOpen, Registry, TypeOK
<1>4. ASSUME NEW t \in Ids, BeginDelete(c, i, t)
      PROVE  /\ call'[c].op = "delete" /\ call'[c].pc = "cancel"
             /\ "deleting" \in marks'[call'[c].target]
  BY <1>4 DEF BeginDelete, CallOpen, Mark, Is, Registry, TypeOK
<1>5. ASSUME BeginDeleteUnknown(c, i)
      PROVE  /\ call'[c].op = "delete" /\ call'[c].pc = "clear"
             /\ call'[c].target = i /\ MayDelete(i) /\ Lookup(i) = {}
  BY <1>5 DEF BeginDeleteUnknown, CallOpen, Registry, TypeOK
<1>6. QED
  BY <1>1, <1>2, <1>3, <1>4, <1>5

\* Nothing creates the sandbox whose row is taken, and no adoption meets a call.
LEMMA NoIntruder ==
  ASSUME Registry, [Next]_vars, NEW i \in Ids, row[i] # "none"
  PROVE  /\ ~Create(i) /\ row'[i] # "none"
         /\ \A c \in Calls : call[c].op # "none" => ~BootAdopt
<1>1. ~Create(i)
  BY DEF Create
<1>2. row'[i] # "none"
  BY <1>1, RowStep
<1>3. \A c \in Calls : call[c].op # "none" => ~BootAdopt
  BY DEF BootAdopt, Registry, Dormant
<1>4. QED
  BY <1>1, <1>2, <1>3

\* A delete that found nothing keeps finding nothing.
LEMMA UnknownStep ==
  ASSUME "early" \notin Faults, Registry, UnknownStaysUnknown, [Next]_vars
  PROVE  UnknownStaysUnknown'
<1> SUFFICES ASSUME NEW c \in Calls, call'[c].op = "delete", call'[c].pc \in UnknownPcs
             PROVE  row'[call'[c].target] # "none" /\ call'[c].target \notin registered'
  BY DEF UnknownStaysUnknown
<1> USE DEF UnknownPcs
<1>1. CASE call'[c] = call[c]
  <2>1. /\ call[c].target \in Ids /\ row[call[c].target] # "none"
        /\ call[c].target \notin registered
    BY <1>1 DEF UnknownStaysUnknown, Registry, CallShape
  <2>2. QED
    BY <1>1, <2>1, NoIntruder, RegisteredStep
<1>2. CASE Request(c)
  BY <1>2, RequestOpens DEF MayDelete, Lookup
<1>3. CASE Handle(c)
  <2>1. DeleteClear(c)
    BY <1>3 DEF Handle, LifecycleRuntime, LifecycleVerify, LifecycleRecord, LifecycleSave,
       LifecycleCondition, LifecycleRelease, DeleteCancel, DeleteWait, DeleteExpired,
       DeleteTeardown, DeleteForget, DeleteUnregister, DeletePurge, DeleteReply, CallGoto,
       CallReturn, NoCall, Registry, TypeOK
  <2>2. /\ call'[c].target = call[c].target /\ call[c].op = "delete" /\ call[c].pc = "clear"
        /\ UNCHANGED <<row, registered>>
    BY <2>1 DEF DeleteClear, CallGoto, CallReturn, NoCall, Registry, TypeOK, registry
  <2>3. QED
    BY <2>2 DEF UnknownStaysUnknown
<1>4. CASE ProcessGone
  BY <1>4 DEF ProcessGone, NoCall
<1>5. QED
  BY <1>1, <1>2, <1>3, <1>4, CallStep

\* A delete about to be answered is of a sandbox nobody provisions.
LEMMA AnsweredStep ==
  ASSUME Registry, UnknownStaysUnknown, AnsweredWasCreated, [Next]_vars
  PROVE  AnsweredWasCreated'
<1> SUFFICES ASSUME NEW c \in Calls, call'[c].pc = "reply"
             PROVE  row'[call'[c].target] # "none" /\ prov'[call'[c].target] = "none"
  BY DEF AnsweredWasCreated, ProvisionDone
<1>1. ASSUME call[c].target \in Ids, row[call[c].target] # "none",
             ProvisionDone(call[c].target), call'[c].target = call[c].target
      PROVE  row'[call'[c].target] # "none" /\ prov'[call'[c].target] = "none"
  BY <1>1, NoIntruder, ProvStep DEF ProvisionDone
<1>2. CASE call'[c] = call[c]
  BY <1>1, <1>2 DEF AnsweredWasCreated, Registry, CallShape
<1>3. CASE Request(c)
  BY <1>3, RequestOpens
<1>4. CASE Handle(c)
  <2>1. /\ DeleteUnregister(c) \/ DeletePurge(c)
        /\ call'[c].target = call[c].target
    BY <1>4 DEF Handle, LifecycleRuntime, LifecycleVerify, LifecycleRecord, LifecycleSave,
       LifecycleCondition, LifecycleRelease, DeleteCancel, DeleteWait, DeleteExpired,
       DeleteTeardown, DeleteForget, DeleteUnregister, DeleteClear, DeletePurge,
       DeleteReply, CallGoto, CallReturn, NoCall, Registry, TypeOK
  <2>2. call[c].target \in Ids /\ call[c].op = "delete"
    <3>1. call[c].op \in {"none", "stop", "start", "delete"}
      BY DEF Registry, TypeOK
    <3>2. QED
      BY <2>1, <3>1 DEF DeleteUnregister, DeletePurge, Registry, CallShape, LifecyclePcs
  <2>3. CASE DeleteUnregister(c)
    BY <1>1, <2>1, <2>2, <2>3 DEF DeleteUnregister, Registry, TeardownAfterProvision,
       TeardownPcs, Uncreated, Unknown, Knows, KnownPcs
  <2>4. CASE DeletePurge(c)
    BY <1>1, <2>1, <2>2, <2>4 DEF DeletePurge, UnknownStaysUnknown, UnknownPcs, Registry,
       ProvisionRegistered
  <2>5. QED
    BY <2>1, <2>3, <2>4
<1>5. CASE ProcessGone
  BY <1>5 DEF ProcessGone, NoCall
<1>6. QED
  BY <1>2, <1>3, <1>4, <1>5, CallStep

\* Between the removal of a VM and the answer nothing boots it again.
LEMMA RemovedStep ==
  ASSUME Registry, UnknownStaysUnknown, AnsweredWasCreated, RemovedStaysRemoved,
         [Next]_vars
  PROVE  RemovedStaysRemoved'
<1> DEFINE After == {"forget", "unregister", "purge", "reply"}
<1> SUFFICES ASSUME NEW c \in Calls, call'[c].pc \in After
             PROVE  vm'[call'[c].target] = "absent"
  BY DEF RemovedStaysRemoved
<1>1. ASSUME call[c].pc \in After, call'[c].target = call[c].target
      PROVE  vm'[call'[c].target] = "absent"
  <2>1. call[c].target \in Ids /\ vm[call[c].target] = "absent"
    BY <1>1 DEF RemovedStaysRemoved, Registry, CallShape
  <2>2. call[c].op = "delete"
    <3>1. call[c].op \in {"none", "stop", "start", "delete"}
      BY DEF Registry, TypeOK
    <3>2. QED
      BY <1>1, <3>1 DEF Registry, CallShape, LifecyclePcs
  <2>3. prov[call[c].target] = "none"
    <3>1. CASE call[c].pc \in {"forget", "unregister"}
      BY <3>1 DEF Registry, TeardownAfterProvision, TeardownPcs, ProvisionDone
    <3>2. CASE call[c].pc = "purge"
      BY <2>1, <2>2, <3>2 DEF UnknownStaysUnknown, UnknownPcs, Registry,
         ProvisionRegistered, ProvisionDone
    <3>3. CASE call[c].pc = "reply"
      BY <3>3 DEF AnsweredWasCreated, ProvisionDone
    <3>4. QED
      BY <1>1, <3>1, <3>2, <3>3
  <2>4. QED
    BY <1>1, <2>1, <2>3, VMStep
<1>2. CASE call'[c] = call[c]
  BY <1>1, <1>2
<1>3. CASE Request(c)
  BY <1>3, RequestOpens
<1>4. CASE Handle(c)
  <2>1. CASE DeleteTeardown(c) \/ DeleteClear(c)
    <3>1. call[c].target \in Ids
      BY <2>1 DEF DeleteTeardown, DeleteClear, Registry, CallShape
    <3>2. QED
      BY <2>1, <3>1 DEF DeleteTeardown, DeleteClear, VMDeleteOk, CallGoto, CallReturn,
         NoCall, Registry, TypeOK
  <2>2. CASE DeleteForget(c) \/ DeleteUnregister(c) \/ DeletePurge(c)
    BY <1>1, <2>2 DEF DeleteForget, DeleteUnregister, DeletePurge, CallGoto, CallReturn,
       NoCall, Registry, TypeOK
  <2>3. CASE ~(DeleteTeardown(c) \/ DeleteClear(c) \/ DeleteForget(c)
               \/ DeleteUnregister(c) \/ DeletePurge(c))
    BY <1>4, <2>3 DEF Handle, LifecycleRuntime, LifecycleVerify, LifecycleRecord,
       LifecycleSave, LifecycleCondition, LifecycleRelease, DeleteCancel, DeleteWait,
       DeleteExpired, DeleteReply, CallGoto, CallReturn, NoCall, Registry, TypeOK
  <2>4. QED
    BY <2>1, <2>2, <2>3
<1>5. CASE ProcessGone
  BY <1>5 DEF ProcessGone, NoCall
<1>6. QED
  BY <1>2, <1>3, <1>4, <1>5, CallStep

\* An entry keeps its deleting mark while a delete works on it.
LEMMA DeletingIsMarkedStep ==
  ASSUME Registry, DeletingIsMarked, [Next]_vars PROVE DeletingIsMarked'
<1> SUFFICES ASSUME NEW c \in Calls, call'[c].pc \in KnownPcs
             PROVE  "deleting" \in marks'[call'[c].target]
  BY DEF DeletingIsMarked, Is
<1>1. ASSUME call[c].pc \in KnownPcs, call'[c].target = call[c].target, ~ProcessGone
      PROVE  "deleting" \in marks'[call'[c].target]
  <2>1. /\ call[c].op # "none" /\ call[c].target \in Ids
        /\ Is(call[c].target, "deleting")
    BY <1>1 DEF DeletingIsMarked, Registry, CallShape, KnownPcs, TeardownPcs
  <2>2. row[call[c].target] # "none"
    BY <1>1, <2>1 DEF Registry, Uncreated, Unknown, Knows
  <2>3. QED
    BY <1>1, <2>1, <2>2, NoIntruder, DeletingStep DEF Is
<1>2. CASE ProcessGone
  BY <1>2 DEF ProcessGone, NoCall, KnownPcs, TeardownPcs
<1>3. CASE call'[c] = call[c]
  BY <1>1, <1>2, <1>3
<1>4. CASE Request(c)
  BY <1>4, RequestOpens DEF KnownPcs, TeardownPcs
<1>5. CASE Handle(c)
  <2>1. call[c].pc \in KnownPcs /\ call'[c].target = call[c].target
    BY <1>5 DEF Handle, LifecycleRuntime, LifecycleVerify, LifecycleRecord, LifecycleSave,
       LifecycleCondition, LifecycleRelease, DeleteCancel, DeleteWait, DeleteExpired,
       DeleteTeardown, DeleteForget, DeleteUnregister, DeleteClear, DeletePurge,
       DeleteReply, CallGoto, CallReturn, NoCall, Registry, TypeOK, KnownPcs, TeardownPcs
  <2>2. QED
    BY <1>1, <1>2, <2>1
<1>6. QED
  BY <1>2, <1>3, <1>4, <1>5, CallStep

\* Where a record goes, nobody needs it any more.
LEMMA RecordGone ==
  ASSUME Custody, [Next]_vars, NEW i \in Ids, disk[i] # "none", disk'[i] = "none"
  PROVE  /\ vm[i] = "absent" /\ ProvisionDone(i)
         /\ i \in registered => Is(i, "deleting")
         /\ UNCHANGED <<vm, registry>>
<1>1. PICK c \in Calls : (DeleteForget(c) \/ DeletePurge(c)) /\ call[c].target = i
  BY DiskStep DEF Custody
<1>2. CASE DeleteForget(c)
  BY <1>1, <1>2 DEF DeleteForget, Custody, Registry, TeardownAfterProvision, TeardownPcs,
     RemovedStaysRemoved, DeletingIsMarked, KnownPcs
<1>3. CASE DeletePurge(c)
  <2>1. call[c].op = "delete"
    <3>1. call[c].op \in {"none", "stop", "start", "delete"}
      BY DEF Custody, Registry, TypeOK
    <3>2. QED
      BY <1>3, <3>1 DEF DeletePurge, Custody, Registry, CallShape, LifecyclePcs
  <2>2. i \notin registered /\ vm[i] = "absent"
    BY <1>1, <1>3, <2>1 DEF DeletePurge, Custody, UnknownStaysUnknown, UnknownPcs,
       RemovedStaysRemoved
  <2>3. QED
    BY <1>3, <2>2 DEF DeletePurge, Custody, Registry, ProvisionRegistered
<1>4. QED
  BY <1>1, <1>2, <1>3

\* The record saved by the create outlives the provisioning.
LEMMA ProvisionHasRecordStep == Custody /\ [Next]_vars => ProvisionHasRecord'
<1> SUFFICES ASSUME Custody, [Next]_vars, NEW i \in Ids, ~ProvisionDone(i)'
             PROVE  disk'[i] # "none"
  BY DEF ProvisionHasRecord, ProvisionDone
<1>1. CASE Create(i)
  BY <1>1 DEF Create, SaveOk, Custody, Registry, TypeOK
<1>2. CASE ~ProvisionDone(i)
  BY <1>2, RecordGone DEF Custody, ProvisionHasRecord
<1>3. QED
  BY <1>1, <1>2, ProvStep DEF Custody

\* A record goes after its VM and comes before it.
LEMMA NoVMWithoutRecordStep == Custody /\ [Next]_vars => NoVMWithoutRecord'
<1> SUFFICES ASSUME Custody, [Next]_vars, NEW i \in Ids \ LostRecords, vm'[i] # "absent"
             PROVE  disk'[i] # "none"
  BY DEF NoVMWithoutRecord
<1>1. disk[i] # "none"
  <2>1. CASE vm[i] # "absent"
    BY <2>1 DEF Custody, NoVMWithoutRecord
  <2>2. CASE prov[i] = "run"
    BY <2>2 DEF Custody, ProvisionHasRecord, ProvisionDone
  <2>3. QED
    BY <2>1, <2>2, VMStep DEF Custody
<1>2. QED
  BY <1>1, RecordGone

\* Only an entry that is being deleted loses its record.
LEMMA AcceptedIsDurableStep == Custody /\ [Next]_vars => AcceptedIsDurable'
<1> SUFFICES ASSUME Custody, [Next]_vars, NEW i \in Ids, i \in registered',
                    ~Is(i, "deleting")'
             PROVE  disk'[i] # "none"
  BY TypeStep DEF AcceptedIsDurable, Custody, Registry, TypeOK, Is
<1>1. CASE Create(i)
  BY <1>1 DEF Create, SaveOk, Custody, Registry, TypeOK
<1>2. CASE BootAdopt /\ disk[i] # "none" /\ UNCHANGED disk
  BY <1>2
<1>3. CASE i \in registered /\ ~Create(i) /\ ~BootAdopt
  <2>1. ~Is(i, "deleting")
    BY <1>3, DeletingStep DEF ProcessGone, Custody
  <2>2. disk[i] # "none"
    BY <1>3, <2>1 DEF Custody, AcceptedIsDurable
  <2>3. QED
    BY <1>3, <2>1, <2>2, RecordGone
<1>4. CASE i \in registered /\ BootAdopt
  BY <1>4 DEF BootAdopt, Custody, Registry, Dormant, external
<1>5. QED
  BY <1>1, <1>2, <1>3, <1>4, RegisteredStep DEF Custody

\* No VM without a record and no call at first.
LEMMA CustodyInit == Init => Custody
<1> SUFFICES ASSUME Init PROVE Custody
  OBVIOUS
<1>1. Registry
  BY RegistryInit
<1>2. /\ UnknownStaysUnknown /\ AnsweredWasCreated /\ RemovedStaysRemoved
      /\ DeletingIsMarked /\ ProvisionHasRecord
  BY DEF Init, NoCall, UnknownStaysUnknown, AnsweredWasCreated, RemovedStaysRemoved,
     DeletingIsMarked, KnownPcs, TeardownPcs, ProvisionHasRecord, ProvisionDone
<1>3. NoVMWithoutRecord /\ AcceptedIsDurable
  BY DEF Init, NoVMWithoutRecord, AcceptedIsDurable
<1>4. QED
  BY <1>1, <1>2, <1>3 DEF Custody

\* The conjuncts of Custody are inductive together.
LEMMA CustodyStep ==
  ASSUME "early" \notin Faults, Custody, [Next]_vars PROVE Custody'
  BY RegistryStep, UnknownStep, AnsweredStep, RemovedStep, DeletingIsMarkedStep,
     ProvisionHasRecordStep, NoVMWithoutRecordStep, AcceptedIsDurableStep DEF Custody

\* Custody holds where deletes are sent of created sandboxes only.
THEOREM CustodyInvariant == ASSUME "early" \notin Faults PROVE Spec => []Custody
<1>1. Init => Custody
  BY CustodyInit
<1>2. Custody /\ [Next]_vars => Custody'
  BY CustodyStep
<1>3. QED
  BY <1>1, <1>2, PTL DEF Spec

\* Whatever fails or crashes, a VM has a record unless the record was lost before:
\* CreateSandbox saves first, DeleteSandbox removes the record last.
THEOREM NoVMWithoutRecordCorrect ==
  ASSUME "early" \notin Faults PROVE Spec => []NoVMWithoutRecord
<1>1. Custody => NoVMWithoutRecord
  BY DEF Custody
<1>2. QED
  BY <1>1, CustodyInvariant, PTL

\* Whatever fails or crashes, an accepted sandbox that nobody deletes has a record,
\* which Bootstrap adopts at the next start.
THEOREM AcceptedIsDurableCorrect ==
  ASSUME "early" \notin Faults PROVE Spec => []AcceptedIsDurable
<1>1. Custody => AcceptedIsDurable
  BY DEF Custody
<1>2. QED
  BY <1>1, CustodyInvariant, PTL

-----------------------------------------------------------------------------
\* No two sandboxes have one name, so that a lookup by name finds the one meant.
NamesAreUnique == \A i, j \in Ids : NameOf[i] = NameOf[j] => i = j

\* With unique names a request reaches the sandbox it names and no other.
LEMMA NamesItsTargetStep ==
  ASSUME NamesAreUnique, Registry, NamesItsTarget, [Next]_vars PROVE NamesItsTarget'
<1> SUFFICES ASSUME NEW c \in Calls PROVE call'[c].id = call'[c].target
  BY DEF NamesItsTarget
<1>1. CASE call'[c] = call[c]
  BY <1>1 DEF NamesItsTarget
<1>2. CASE Request(c)
  <2>1. ASSUME NEW i \in Ids, NEW t \in Lookup(i) PROVE t = i
    BY <2>1 DEF Lookup, NamesAreUnique, Registry, TypeOK
  <2>2. PICK i \in Ids, t \in Ids, op \in {"stop", "start", "delete"}, pc \in CallStates :
          CallOpen(c, op, pc, i, t) /\ (t = i \/ t \in Lookup(i))
    BY <1>2 DEF Request, BeginLifecycle, BeginDelete, BeginDeleteUnknown, CallStates
  <2>3. QED
    BY <2>1, <2>2 DEF CallOpen, Registry, TypeOK
<1>3. CASE Handle(c)
  BY <1>3 DEF Handle, LifecycleRuntime, LifecycleVerify, LifecycleRecord, LifecycleSave,
     LifecycleCondition, LifecycleRelease, DeleteCancel, DeleteWait, DeleteExpired,
     DeleteTeardown, DeleteForget, DeleteUnregister, DeleteClear, DeletePurge, DeleteReply,
     CallGoto, CallReturn, NoCall, Registry, TypeOK, NamesItsTarget
<1>4. CASE ProcessGone
  BY <1>4 DEF ProcessGone, NoCall
<1>5. QED
  BY <1>1, <1>2, <1>3, <1>4, CallStep

\* A deleted sandbox is not provisioned and has no VM.
LEMMA GoneStep ==
  ASSUME Finality, [Next]_vars, NEW i \in Ids, row'[i] = "gone"
  PROVE  ProvisionDone(i)' /\ vm'[i] = "absent"
<1> USE DEF Custody, Finality
<1>1. ~Create(i)
  BY DEF Create, Registry, TypeOK
<1>2. ProvisionDone(i) /\ vm[i] = "absent"
  <2>1. CASE row[i] = "gone"
    BY <2>1 DEF GoneIsNotProvisioned, DeletedStaysDeleted
  <2>2. CASE row[i] # "gone"
    <3>1. PICK c \in Calls : DeleteReply(c) /\ call[c].id = i
      BY <2>2, <1>1, RowStep
    <3>2. call[c].pc = "reply" /\ call[c].target = i
      BY <3>1 DEF DeleteReply, NamesItsTarget
    <3>3. QED
      BY <3>2 DEF AnsweredWasCreated, RemovedStaysRemoved
  <2>3. QED
    BY <2>1, <2>2
<1>3. QED
  BY <1>1, <1>2, ProvStep, VMStep DEF ProvisionDone

\* No sandbox is deleted at first.
LEMMA FinalityInit == Init => Finality
  BY CustodyInit, LostAssumption DEF Init, NoCall, Finality, NamesItsTarget,
     GoneIsNotProvisioned, DeletedStaysDeleted

\* The conjuncts of Finality are inductive together.
LEMMA FinalityStep ==
  ASSUME "early" \notin Faults, NamesAreUnique, Finality, [Next]_vars PROVE Finality'
<1>1. Custody' /\ NamesItsTarget'
  BY CustodyStep, NamesItsTargetStep DEF Finality, Custody
<1>2. GoneIsNotProvisioned' /\ DeletedStaysDeleted'
  BY GoneStep DEF GoneIsNotProvisioned, DeletedStaysDeleted, ProvisionDone
<1>3. QED
  BY <1>1, <1>2 DEF Finality

\* With unique names, the invariant behind it holds too: a request reaches the
\* sandbox it names, and what is deleted is not being provisioned.
THEOREM FinalityInvariant ==
  ASSUME "early" \notin Faults, NamesAreUnique PROVE Spec => []Finality
<1>1. Init => Finality
  BY FinalityInit
<1>2. Finality /\ [Next]_vars => Finality'
  BY FinalityStep
<1>3. QED
  BY <1>1, <1>2, PTL DEF Spec

\* With unique names, once DeleteSandbox has answered, no VM of the sandbox exists
\* ever again: not by the create it canceled, a stop, a start, a poll or a restart.
THEOREM DeletedStaysDeletedCorrect ==
  ASSUME "early" \notin Faults, NamesAreUnique PROVE Spec => []DeletedStaysDeleted
<1>1. Finality => DeletedStaysDeleted
  BY DEF Finality
<1>2. QED
  BY <1>1, FinalityInvariant, PTL

-----------------------------------------------------------------------------
\* While the driver does not serve, only Bootstrap and the outside world act.
LEMMA WhileDown ==
  ASSUME Registry, [Next]_vars, ~Up
  PROVE  Start \/ Boot \/ ProcessGone \/ (\E i \in Ids : OutOfBand(i)) \/ UNCHANGED vars
<1>1. /\ mode \in {"down", "booting"} /\ ~Open
      /\ \A c \in Calls : call[c].op = "none" /\ call[c].pc = "idle"
      /\ poll.pc = "idle"
      /\ \A i \in Ids : prov[i] = "none"
  BY DEF Up, Open, Registry, TypeOK, Dormant, CallShape, ProvisionDone
<1>2. ASSUME NEW i \in Ids PROVE ~Create(i) /\ ~Provision(i)
  BY <1>1 DEF Create, Provision, ProvResolve, ProvPersist, ProvPrepare, ProvClear, ProvRun,
     ProvBooted, ProvFailed, ProvReport, ProvFinish
<1>3. ASSUME NEW c \in Calls PROVE ~Request(c) /\ ~Handle(c)
  BY <1>1 DEF Request, BeginLifecycle, BeginDelete, BeginDeleteUnknown, Handle,
     LifecycleRuntime, LifecycleVerify, LifecycleRecord, LifecycleSave,
     LifecycleCondition, LifecycleRelease, DeleteCancel, DeleteWait, DeleteExpired,
     DeleteTeardown, DeleteForget, DeleteUnregister, DeleteClear, DeletePurge, DeleteReply
<1>4. ~Poll /\ ~Shutdown /\ ~Close
  BY <1>1 DEF Poll, PollTick, PollList, PollListFails, PollApply, PollTake, PollSave,
     Shutdown, Close
<1>5. QED
  BY <1>2, <1>3, <1>4 DEF Next, BootListFails, Exit, Crash

\* At first nothing is known of the sandboxes whose records were lost.
LEMMA LostIsUnknownInit == ASSUME Init PROVE LostIsUnknown
  BY LostAssumption DEF Init, NoPoll, NoCall, LostIsUnknown, Unknown, PollSaves, Knows,
     LifecyclePcs, KnownPcs, TeardownPcs

\* A sandbox whose record was lost has a row, so that no create of it comes.
LEMMA LostIsUnknownStep ==
  ASSUME Registry, LostIsUnknown, [Next]_vars PROVE LostIsUnknown'
<1> SUFFICES ASSUME NEW i \in LostRecords PROVE row'[i] # "none" /\ Unknown(i)'
  BY DEF LostIsUnknown, Unknown, PollSaves, Knows
<1>1. i \in Ids /\ row[i] # "none" /\ Unknown(i)
  BY LostAssumption DEF LostIsUnknown
<1>2. QED
  BY <1>1, NoIntruder, UnknownStays

\* The VM of a lost sandbox goes before the driver serves: it is in the listing,
\* unknown to the records, and the sweep does not end before it was removed.
LEMMA ListedForSweepStep ==
  ASSUME "runtime" \notin Faults, Orphans, [Next]_vars PROVE ListedForSweep'
<1> SUFFICES ASSUME NEW i \in LostRecords, vm'[i] # "absent"
             PROVE  /\ ~Up'
                    /\ boot'.pc = "adopt" => boot'.vms[i] # "absent"
                    /\ boot'.pc = "sweep" => i \in boot'.left
  BY DEF ListedForSweep, Up
<1> USE DEF Orphans
<1>1. i \in Ids /\ disk[i] = "none" /\ prov[i] = "none"
  BY LostAssumption DEF LostIsUnknown, Unknown, Registry, ProvisionRegistered, ProvisionDone
<1>2. vm[i] # "absent"
  BY <1>1, VMStep
<1>3. /\ ~Up
      /\ boot.pc = "adopt" => boot.vms[i] # "absent"
      /\ boot.pc = "sweep" => i \in boot.left
  BY <1>2 DEF ListedForSweep
<1>4. CASE Boot
  <2>1. CASE BootRecords
    BY <1>3, <2>1 DEF BootRecords, Up, Registry, TypeOK
  <2>2. CASE BootList
    BY <1>2, <1>3, <2>2 DEF BootList, Up, Registry, TypeOK
  <2>3. CASE BootAdopt
    <3>1. boot.records[i] = "none"
      BY <1>1, <2>3 DEF BootAdopt, Registry, Dormant
    <3>2. QED
      BY <1>1, <1>3, <2>3, <3>1 DEF BootAdopt, Up, Registry, TypeOK
  <2>4. ASSUME NEW j \in Ids, BootSweep(j)
        PROVE  ~Up' /\ boot'.pc = "sweep" /\ i \in boot'.left
    <3>1. vm' = [vm EXCEPT ![j] = "absent"]
      BY <2>4 DEF BootSweep, VMDeleteOk, VMDeleteFails
    <3>2. j # i
      BY <1>1, <3>1 DEF Registry, TypeOK
    <3>3. QED
      BY <1>3, <2>4, <3>2 DEF BootSweep, Up, Registry, TypeOK
  <2>5. ~BootDone
    BY <1>3 DEF BootDone
  <2>6. QED
    BY <1>4, <2>1, <2>2, <2>3, <2>4, <2>5 DEF Boot
<1>5. CASE Start
  BY <1>5 DEF Start, NoBoot, Up
<1>6. CASE ProcessGone
  BY <1>6 DEF ProcessGone, NoBoot, Up
<1>7. CASE UNCHANGED vars \/ \E j \in Ids : OutOfBand(j)
  BY <1>3, <1>7 DEF OutOfBand, VMChanges, vars, Up
<1>8. QED
  BY <1>3, <1>4, <1>5, <1>6, <1>7, WhileDown

\* Where the runtime's commands do not fail, a driver that serves has removed every
\* VM whose record was lost: Bootstrap's sweep misses none.
THEOREM OrphansAreSweptCorrect == Spec => []OrphansAreSwept
<1>1. CASE "runtime" \in Faults
  <2>1. OrphansAreSwept
    BY <1>1 DEF OrphansAreSwept
  <2>2. QED
    BY <2>1, PTL
<1>2. CASE "runtime" \notin Faults
  <2>1. ASSUME Init PROVE Orphans
    <3>1. ListedForSweep
      BY <2>1 DEF Init, NoBoot, ListedForSweep, Up
    <3>2. QED
      BY <2>1, <3>1, LostIsUnknownInit, RegistryInit DEF Orphans
  <2>2. Orphans /\ [Next]_vars => Orphans'
    BY <1>2, RegistryStep, LostIsUnknownStep, ListedForSweepStep DEF Orphans
  <2>3. Orphans => OrphansAreSwept
    BY DEF Orphans, ListedForSweep, OrphansAreSwept
  <2>4. QED
    BY <2>1, <2>2, <2>3, PTL DEF Spec
<1>3. QED
  BY <1>1, <1>2
-----------------------------------------------------------------------------
\* The mark of a stop is taken away by a start, or by a poll that sees the VM run.
LEMMA StoppedStep ==
  ASSUME Registry, [Next]_vars, NEW i \in Ids, Is(i, "stopped"), ~Is(i, "stopped")'
  PROVE  \/ Create(i) \/ BootAdopt \/ ProcessGone
         \/ PollApply /\ Pollable(i)
         \/ \E c \in Calls : /\ LifecycleRecord(c)
                             /\ call[c].op # "stop" /\ call[c].target = i
<1> DEFINE Started == \E c \in Calls : /\ LifecycleRecord(c)
                                       /\ call[c].op # "stop" /\ call[c].target = i
<1> USE DEF registry, Is
<1>1. ASSUME NEW j \in Ids, Create(j) PROVE Create(i)
  BY <1>1 DEF Create, Registry, TypeOK
<1>2. ASSUME NEW j \in Ids, Provision(j) \/ OutOfBand(j) PROVE FALSE
  BY <1>2 DEF Provision, ProvResolve, ProvPersist, ProvPrepare, ProvClear, ProvRun,
     ProvBooted, ProvFailed, ProvReport, ProvFinish, OutOfBand, VMChanges
<1>3. ASSUME NEW j, Mark(j, "busy") \/ Mark(j, "deleting") \/ Mark(j, "canceled")
                      \/ Mark(j, "stopped") \/ Unmark(j, "busy")
      PROVE  FALSE
  BY <1>3 DEF Mark, Unmark, Registry, TypeOK
<1>4. ASSUME NEW c \in Calls, Request(c) PROVE FALSE
  BY <1>3, <1>4 DEF Request, BeginLifecycle, BeginDelete, BeginDeleteUnknown
<1>5. ASSUME NEW c \in Calls, Handle(c) PROVE Started
  <2>1. CASE LifecycleRecord(c)
    <3>1. call[c].op # "stop" /\ Unmark(call[c].target, "stopped")
      BY <1>3, <2>1 DEF LifecycleRecord
    <3>2. call[c].target = i
      BY <3>1 DEF Unmark, Registry, TypeOK
    <3>3. QED
      BY <2>1, <3>1, <3>2
  <2>2. CASE ~LifecycleRecord(c)
    BY <1>3, <1>5, <2>2 DEF Handle, LifecycleRuntime, LifecycleVerify, LifecycleSave,
       LifecycleCondition, LifecycleRelease, DeleteCancel, DeleteWait, DeleteExpired,
       DeleteTeardown, DeleteForget, DeleteUnregister, DeleteClear, DeletePurge, DeleteReply
  <2>3. QED
    BY <2>1, <2>2
<1>6. CASE Poll
  <2>1. CASE PollApply
    BY <2>1 DEF PollApply, Registry, TypeOK
  <2>2. CASE ~PollApply
    BY <1>6, <2>2 DEF Poll, PollTick, PollList, PollListFails, PollTake, PollSave
  <2>3. QED
    BY <2>1, <2>2
<1>7. CASE Start \/ Boot \/ Shutdown \/ Close \/ UNCHANGED vars
  BY <1>7 DEF Start, Boot, BootRecords, BootList, BootSweep, BootDone, Shutdown, Close, vars
<1>8. QED
  BY <1>1, <1>2, <1>4, <1>5, <1>6, <1>7 DEF Next, BootListFails, Exit, Crash

\* ContainerStopped is set by a stop, and by a poll or an adoption of what is marked.
LEMMA ShownStep ==
  ASSUME Registry, [Next]_vars, NEW i \in Ids,
         i \in registered', cond'[i] = "ContainerStopped"
  PROVE  \/ Is(i, "stopped")'
         \/ \E c \in Calls : /\ LifecycleCondition(c)
                             /\ call[c].op = "stop" /\ call[c].target = i
         \/ /\ i \in registered /\ cond[i] = "ContainerStopped"
            /\ ~BootAdopt /\ ~ProcessGone /\ ~(PollApply /\ Pollable(i))
<1> DEFINE Shown == i \in registered /\ cond[i] = "ContainerStopped"
           Told == \E c \in Calls : /\ LifecycleCondition(c)
                                    /\ call[c].op = "stop" /\ call[c].target = i
<1> USE DEF registry
<1>1. ASSUME NEW j \in Ids, Create(j) PROVE Shown
  BY <1>1 DEF Create, SetCondition, Registry, TypeOK
<1>2. ASSUME NEW j \in Ids, Provision(j) \/ OutOfBand(j) PROVE Shown
  BY <1>2 DEF Provision, ProvResolve, ProvPersist, ProvPrepare, ProvClear, ProvRun,
     ProvBooted, ProvFailed, ProvReport, ProvFinish, OutOfBand, VMChanges, SetCondition,
     Registry, TypeOK
<1>3. ASSUME NEW c \in Calls, Request(c) PROVE Shown
  BY <1>3 DEF Request, BeginLifecycle, BeginDelete, BeginDeleteUnknown, SetCondition,
     Registry, TypeOK
<1>4. ASSUME NEW c \in Calls, Handle(c) PROVE Shown \/ Told
  <2>1. CASE LifecycleCondition(c)
    <3>1. i \in registered /\ SetCondition(call[c].target, GoalReason(call[c].op))
      BY <2>1 DEF LifecycleCondition
    <3>2. CASE call[c].target = i
      <4>1. call[c].op = "stop"
        BY <3>1, <3>2 DEF SetCondition, GoalReason, Registry, TypeOK
      <4>2. QED
        BY <2>1, <3>2, <4>1
    <3>3. CASE call[c].target # i
      BY <3>1, <3>3 DEF SetCondition, Registry, TypeOK
    <3>4. QED
      BY <3>2, <3>3
  <2>2. CASE ~LifecycleCondition(c)
    BY <1>4, <2>2 DEF Handle, LifecycleRuntime, LifecycleVerify, LifecycleRecord,
       LifecycleSave, LifecycleRelease, DeleteCancel, DeleteWait, DeleteExpired,
       DeleteTeardown, DeleteForget, DeleteUnregister, DeleteClear, DeletePurge, DeleteReply
  <2>3. QED
    BY <2>1, <2>2
<1>5. ASSUME Start \/ Shutdown \/ Close \/ UNCHANGED vars PROVE Shown
  BY <1>5 DEF Start, Shutdown, Close, vars
<1>6. ASSUME Boot, ~BootAdopt PROVE Shown
  BY <1>6 DEF Boot, BootRecords, BootList, BootSweep, BootDone
<1>7. ASSUME Poll, ~PollApply PROVE Shown
  BY <1>7 DEF Poll, PollTick, PollList, PollListFails, PollTake, PollSave
<1>8. ASSUME BootAdopt PROVE Is(i, "stopped")'
  BY <1>8 DEF BootAdopt, Adopted, Is, Registry, TypeOK, VMStates
<1>9. ASSUME PollApply PROVE Is(i, "stopped")' \/ (Shown /\ ~Pollable(i))
  <2>1. CASE i \in registered /\ Pollable(i)
    <3>1. cond'[i] = Observed(i)
      BY <1>9, <2>1 DEF PollApply
    <3>2. poll.vms[i] = "stopped" /\ Is(i, "stopped")
      BY <3>1 DEF Observed, Registry, TypeOK, VMStates
    <3>3. marks'[i] = marks[i]
      BY <1>9, <3>2 DEF PollApply
    <3>4. QED
      BY <3>2, <3>3 DEF Is
  <2>2. CASE ~(i \in registered /\ Pollable(i))
    BY <1>9, <2>2 DEF PollApply
  <2>3. QED
    BY <2>1, <2>2
<1>10. ~ProcessGone
  BY DEF ProcessGone
<1>11. CASE BootAdopt \/ PollApply
  <2>1. ~(BootAdopt /\ PollApply)
    BY DEF BootAdopt, PollApply, Registry, Dormant
  <2>2. QED
    BY <1>8, <1>9, <1>10, <1>11, <2>1
<1>12. QED
  BY <1>1, <1>2, <1>3, <1>4, <1>5, <1>6, <1>7, <1>10, <1>11
     DEF Next, BootListFails, Exit, Crash

\* A stop keeps its mark until it sets the condition: nothing that would take it away
\* touches a busy entry.
LEMMA StopIsMarkedStep ==
  ASSUME Registry, StopIsMarked, [Next]_vars PROVE StopIsMarked'
<1> SUFFICES ASSUME NEW c \in Calls, call'[c].op = "stop", call'[c].pc \in {"save", "condition"}
             PROVE  "stopped" \in marks'[call'[c].target]
  BY DEF StopIsMarked, Is
<1>1. ~ProcessGone
  BY DEF ProcessGone, NoCall
<1>2. CASE call'[c] = call[c]
  <2>1. PICK t \in Ids : t = call[c].target /\ Operates(c, t) /\ call[c].op # "none"
    BY <1>2 DEF Operates, Registry, CallShape
  <2>2. Is(t, "stopped") /\ Is(t, "busy")
    BY <1>2, <2>1 DEF StopIsMarked, Registry, LifecycleExclusive
  <2>3. row[t] # "none"
    BY <1>2, <2>1 DEF Registry, Uncreated, Unknown, Knows, LifecyclePcs
  <2>4. ~Create(t) /\ ~BootAdopt
    BY <2>1, <2>3, NoIntruder
  <2>5. ~Pollable(t)
    BY <2>2 DEF Pollable
  <2>6. ASSUME NEW d \in Calls, LifecycleRecord(d), call[d].op # "stop", call[d].target = t
        PROVE  FALSE
    <3>1. Operates(d, t)
      BY <2>6 DEF LifecycleRecord, Operates, Registry, TypeOK, CallShape, KnownPcs,
         TeardownPcs, UnknownPcs
    <3>2. QED
      BY <1>2, <2>1, <2>6, <3>1 DEF Registry, LifecycleExclusive
  <2>7. "stopped" \in marks'[t]
    BY <1>1, <2>2, <2>4, <2>5, <2>6, StoppedStep DEF Is
  <2>8. QED
    BY <1>2, <2>1, <2>7
<1>3. CASE Request(c)
  BY <1>3, RequestOpens
<1>4. CASE Handle(c)
  <2>1. CASE LifecycleRecord(c)
    <3>1. /\ call[c].op = "stop" /\ call[c].target \in Ids
          /\ call'[c].target = call[c].target
      BY <2>1 DEF LifecycleRecord, CallGoto, Registry, TypeOK, CallShape
    <3>2. QED
      BY <2>1, <3>1 DEF LifecycleRecord, Mark, Registry, TypeOK
  <2>2. CASE LifecycleSave(c)
    <3>1. /\ call[c].op = "stop" /\ call[c].pc = "save"
          /\ call'[c].target = call[c].target /\ marks' = marks
      BY <2>2 DEF LifecycleSave, CallGoto, registry, Registry, TypeOK
    <3>2. QED
      BY <3>1 DEF StopIsMarked, Is
  <2>3. CASE ~(LifecycleRecord(c) \/ LifecycleSave(c))
    BY <1>4, <2>3 DEF Handle, LifecycleRuntime, LifecycleVerify, LifecycleCondition,
       LifecycleRelease, DeleteCancel, DeleteWait, DeleteExpired, DeleteTeardown,
       DeleteForget, DeleteUnregister, DeleteClear, DeletePurge, DeleteReply, CallGoto,
       CallReturn, NoCall, Registry, TypeOK
  <2>4. QED
    BY <2>1, <2>2, <2>3
<1>5. QED
  BY <1>1, <1>2, <1>3, <1>4, CallStep

\* Where records can be saved, what reads as stopped stays marked as long as it does.
LEMMA ShownIsMarkedStep ==
  ASSUME "disk" \notin Faults, Intent, [Next]_vars PROVE ShownIsMarked'
<1> SUFFICES ASSUME NEW i \in Ids, i \in registered', cond'[i] = "ContainerStopped",
                    ~Is(i, "stopped")'
             PROVE  \E c \in Calls : Restarts(c, i)'
  BY RegistryStep DEF ShownIsMarked, Is, Restarts, Registry, TypeOK, Intent
<1> USE DEF Intent
<1>1. ASSUME NEW c \in Calls, LifecycleCondition(c), call[c].op = "stop", call[c].target = i
      PROVE  FALSE
  BY <1>1 DEF LifecycleCondition, StopIsMarked, Is
<1>2. /\ i \in registered /\ cond[i] = "ContainerStopped"
      /\ ~BootAdopt /\ ~ProcessGone /\ ~(PollApply /\ Pollable(i))
  BY <1>1, ShownStep
<1>3. CASE Is(i, "stopped")
  <2>1. ~Create(i)
    BY <1>2 DEF Create
  <2>2. PICK c \in Calls : LifecycleRecord(c) /\ call[c].op # "stop" /\ call[c].target = i
    BY <1>2, <1>3, <2>1, StoppedStep
  <2>3. call[c].op = "start"
    BY <2>2 DEF LifecycleRecord, Registry, TypeOK, CallShape, KnownPcs, TeardownPcs, UnknownPcs
  <2>4. Restarts(c, i)'
    BY <2>2, <2>3 DEF LifecycleRecord, CallGoto, Restarts, Registry, TypeOK
  <2>5. QED
    BY <2>4
<1>4. CASE ~Is(i, "stopped")
  <2>1. PICK c \in Calls : Restarts(c, i)
    BY <1>2, <1>4 DEF ShownIsMarked
  <2>2. CASE call'[c] = call[c]
    BY <2>1, <2>2 DEF Restarts
  <2>3. CASE Request(c)
    BY <2>1, <2>3 DEF Request, BeginLifecycle, BeginDelete, BeginDeleteUnknown, Restarts
  <2>4. CASE Handle(c)
    <3>1. CASE LifecycleSave(c)
      BY <2>1, <3>1 DEF LifecycleSave, SaveFails, CallGoto, Restarts, Registry, TypeOK
    <3>2. ~LifecycleCondition(c)
      BY <2>1 DEF LifecycleCondition, SetCondition, GoalReason, Restarts, Registry, TypeOK
    <3>3. QED
      BY <2>1, <2>4, <3>1, <3>2 DEF Handle, LifecycleRuntime, LifecycleVerify,
         LifecycleRecord, LifecycleRelease, DeleteCancel, DeleteWait, DeleteExpired,
         DeleteTeardown, DeleteForget, DeleteUnregister, DeleteClear, DeletePurge,
         DeleteReply, Restarts
  <2>5. QED
    BY <1>2, <2>1, <2>2, <2>3, <2>4, CallStep
<1>5. QED
  BY <1>3, <1>4

\* Where records can be saved, the driver reports ContainerStopped only of an entry that
\* carries the mark of a stop, whatever the poller, a restart of the driver or a VM started
\* by hand do in between; for the time that a stop or start is at work on it, it may differ.
THEOREM StoppedIsIntendedCorrect == Spec => []StoppedIsIntended
<1>1. CASE "disk" \in Faults
  <2>1. StoppedIsIntended
    BY <1>1 DEF StoppedIsIntended
  <2>2. QED
    BY <2>1, PTL
<1>2. CASE "disk" \notin Faults
  <2>1. Init => Intent
    BY RegistryInit DEF Init, NoCall, Intent, StopIsMarked, ShownIsMarked
  <2>2. Intent /\ [Next]_vars => Intent'
    BY <1>2, RegistryStep, StopIsMarkedStep, ShownIsMarkedStep DEF Intent
  <2>3. ASSUME Intent PROVE StoppedIsIntended
    <3>1. ASSUME NEW i \in Ids, NEW c \in Calls, Restarts(c, i) PROVE Is(i, "busy")
      BY <2>3, <3>1 DEF Intent, Registry, LifecycleExclusive, Operates, Restarts
    <3>2. QED
      BY <2>3, <3>1 DEF Intent, ShownIsMarked, StoppedIsIntended, Registry, TypeOK
  <2>4. QED
    BY <2>1, <2>2, <2>3, PTL DEF Spec
<1>3. QED
  BY <1>1, <1>2

-----------------------------------------------------------------------------
\* Before its container run a sandbox has no VM: what is created had none, and
\* nothing but that run makes one.
LEMMA UnbootedStep ==
  ASSUME Custody, LostIsUnknown, UnbootedHasNoVM, [Next]_vars PROVE UnbootedHasNoVM'
<1> SUFFICES ASSUME NEW i \in Ids, prov'[i] \in Unbooted PROVE vm'[i] = "absent"
  BY DEF UnbootedHasNoVM, Unbooted
<1> USE DEF Custody
<1>1. ~ProvRun(i)
  BY DEF ProvRun, ProvGoto, Registry, TypeOK, Unbooted
<1>2. CASE Create(i)
  <2>1. i \notin LostRecords /\ disk[i] = "none"
    BY <1>2 DEF Create, LostIsUnknown, Registry, Uncreated, Unknown
  <2>2. QED
    BY <1>1, <2>1, VMStep DEF NoVMWithoutRecord
<1>3. CASE prov[i] \in Unbooted
  BY <1>1, <1>3, VMStep DEF UnbootedHasNoVM
<1>4. QED
  BY <1>2, <1>3, ProvStep DEF ProvisionDone, Unbooted

\* Only Bootstrap's own steps, and the end of the process, change what it knows.
LEMMA BootStep ==
  ASSUME Registry, [Next]_vars, boot' # boot PROVE Start \/ Boot \/ ProcessGone
<1>1. ASSUME \/ \E i \in Ids : Create(i) \/ Provision(i)
             \/ \E c \in Calls : Request(c) \/ Handle(c)
             \/ Poll
      PROVE  FALSE
  BY <1>1, WorkingStep DEF Registry
<1>2. CASE Shutdown \/ Close \/ UNCHANGED vars \/ \E i \in Ids : OutOfBand(i)
  BY <1>2 DEF Shutdown, Close, OutOfBand, VMChanges, vars
<1>3. QED
  BY <1>1, <1>2 DEF Next, BootListFails, Exit, Crash

\* While Bootstrap works, no record changes.
LEMMA BootKeepsRecords ==
  ASSUME Registry, [Next]_vars, boot.pc # "off" PROVE UNCHANGED disk
<1>1. ~Up
  BY DEF Registry, Dormant, Up
<1>2. QED
  BY <1>1, WhileDown DEF Start, Boot, BootRecords, BootList, BootAdopt, BootSweep, BootDone,
     ProcessGone, OutOfBand, VMChanges, vars, external

\* What Bootstrap has read of the records stays true, so that what it sweeps has none.
LEMMA SweepsOrphansOnlyStep ==
  ASSUME Registry, SweepsOrphansOnly, [Next]_vars PROVE SweepsOrphansOnly'
<1> USE DEF Registry, TypeOK, SweepsOrphansOnly, external
<1>1. CASE UNCHANGED boot
  BY <1>1, BootKeepsRecords
<1>2. CASE Start \/ ProcessGone
  BY <1>2 DEF Start, ProcessGone, NoBoot
<1>3. CASE BootRecords
  BY <1>3 DEF BootRecords
<1>4. CASE BootList
  BY <1>4 DEF BootList
<1>5. CASE BootAdopt
  BY <1>5 DEF BootAdopt
<1>6. ASSUME NEW i \in Ids, BootSweep(i) PROVE SweepsOrphansOnly'
  BY <1>6 DEF BootSweep
<1>7. CASE BootDone
  BY <1>7 DEF BootDone, NoBoot
<1>8. QED
  BY <1>1, <1>2, <1>3, <1>4, <1>5, <1>6, <1>7, BootStep DEF Boot

\* Promise is inductive: Finality is, and the rest follows from it.
LEMMA PromiseInvariant ==
  ASSUME "early" \notin Faults, NamesAreUnique PROVE Spec => []Promise
<1>1. ASSUME Init PROVE Promise
  <2>1. UnbootedHasNoVM /\ SweepsOrphansOnly
    BY <1>1 DEF Init, NoBoot, UnbootedHasNoVM, SweepsOrphansOnly, Unbooted
  <2>2. QED
    BY <1>1, <2>1, LostIsUnknownInit, FinalityInit DEF Promise
<1>2. Promise /\ [Next]_vars => Promise'
  BY FinalityStep, LostIsUnknownStep, UnbootedStep, SweepsOrphansOnlyStep
     DEF Promise, Finality, Custody
<1>3. QED
  BY <1>1, <1>2, PTL DEF Spec

-----------------------------------------------------------------------------
(* The refinement of SandboxContract.  First what the steps of the code    *)
(* mean for a sandbox's phase, for the records and for the deletes.        *)

\* A step of the provisioning that stays on its side of the container run does not
\* show; the others settle the sandbox.
LEMMA PhaseMoves ==
  ASSUME Promise, NEW i \in Ids, NEW pc \in ProvStates, prov[i] # "none",
         ProvGoto(i, pc), UNCHANGED row,
         pc \in Unbooted => prov[i] \in Unbooted
  PROVE  IF prov[i] \in Unbooted /\ pc \notin Unbooted
         THEN /\ Phases[i] = "creating"
              /\ Phases' = [Phases EXCEPT ![i] = "settled"]
         ELSE UNCHANGED Phases
<1> USE DEF Promise, Finality, Custody, Registry, TypeOK
<1>1. row[i] = "live"
  BY DEF ProvisionDone, GoneIsNotProvisioned, ProvisionRegistered, Uncreated, Unknown
<1>2. prov' = [prov EXCEPT ![i] = pc]
  BY DEF ProvGoto
<1>3. CASE prov[i] \in Unbooted <=> pc \in Unbooted
  BY <1>2, <1>3 DEF Phases, Phase
<1>4. CASE prov[i] \in Unbooted /\ pc \notin Unbooted
  BY <1>1, <1>2, <1>4 DEF Phases, Phase
<1>5. QED
  BY <1>3, <1>4

\* The phases do not depend on anything but the row and the provisioning.
LEMMA PhaseFrame == UNCHANGED <<row, prov>> => UNCHANGED Phases
  BY DEF Phases, Phase

\* Nor the records on anything but the disk.
LEMMA KeptFrame == UNCHANGED disk => UNCHANGED Kept
  BY DEF Kept

\* A save of a record that is there does not show.
LEMMA KeptMoves ==
  ASSUME Promise, NEW i \in Ids, NEW rec, SaveOk(i, rec)
  PROVE  Kept' = IF rec = "none" THEN Kept \ {i} ELSE Kept \cup {i}
  BY DEF Promise, Finality, Custody, Registry, TypeOK, SaveOk, Kept

\* The deletes at work depend on the calls only, and not on how far they got.
LEMMA AskedFrame ==
  ASSUME Promise
  PROVE  /\ UNCHANGED call => UNCHANGED Asked
         /\ \A c \in Calls, pc \in CallStates : CallGoto(c, pc) => UNCHANGED Asked
<1>1. UNCHANGED call => UNCHANGED Asked
  BY DEF Asked
<1>2. ASSUME NEW c \in Calls, NEW pc \in CallStates, CallGoto(c, pc) PROVE UNCHANGED Asked
  <2>1. \A d \in Calls : call'[d].op = call[d].op /\ call'[d].target = call[d].target
    BY <1>2 DEF Promise, Finality, Custody, Registry, TypeOK, CallGoto
  <2>2. QED
    BY <2>1 DEF Asked
<1>3. QED
  BY <1>1, <1>2

\* The end of a handler may be the end of the deletes of its sandbox.
LEMMA AskedReturns ==
  ASSUME Promise, NEW c \in Calls, CallReturn(c)
  PROVE  /\ call[c].op # "delete" => UNCHANGED Asked
         /\ Asked' = Asked \/ Asked' = Asked \ {call[c].target}
<1>1. /\ \A d \in Calls : d # c => call'[d] = call[d]
      /\ call'[c].op = "none"
  BY DEF Promise, Finality, Custody, Registry, TypeOK, CallReturn, NoCall
<1>2. call[c].op # "delete" => UNCHANGED Asked
  BY <1>1 DEF Asked
<1>3. CASE \E d \in Calls : d # c /\ call[d].op = "delete" /\ call[d].target = call[c].target
  BY <1>1, <1>3 DEF Asked
<1>4. CASE ~\E d \in Calls : d # c /\ call[d].op = "delete" /\ call[d].target = call[c].target
  BY <1>1, <1>4 DEF Asked
<1>5. QED
  BY <1>2, <1>3, <1>4

\* A request opens a call where there is none.
LEMMA AskedOpens ==
  ASSUME Promise, NEW c \in Calls, NEW op \in {"stop", "start", "delete"},
         NEW pc \in CallStates, NEW i \in Ids, NEW t \in Ids,
         call[c].pc = "idle", CallOpen(c, op, pc, i, t)
  PROVE  Asked' = IF op = "delete" THEN Asked \cup {t} ELSE Asked
<1>1. call[c].op = "none"
  BY DEF Promise, Finality, Custody, Registry, CallShape
<1>2. /\ \A d \in Calls : d # c => call'[d] = call[d]
      /\ call'[c].op = op /\ call'[c].target = t
  BY DEF Promise, Finality, Custody, Registry, TypeOK, CallOpen
<1>3. QED
  BY <1>1, <1>2 DEF Asked

\* A sandbox with a VM is past its container run and not deleted.
LEMMA VMIsSettled ==
  ASSUME Promise, NEW i \in Ids, vm[i] # "absent" PROVE Phases[i] = "settled"
<1> USE DEF Promise, Finality, Custody
<1>1. row[i] # "none"
  BY DEF LostIsUnknown, NoVMWithoutRecord, Registry, Uncreated, Unknown
<1>2. row[i] = "live"
  BY <1>1 DEF DeletedStaysDeleted, Registry, TypeOK
<1>3. prov[i] \notin Unbooted
  BY DEF UnbootedHasNoVM
<1>4. QED
  BY <1>2, <1>3 DEF Phases, Phase

\* What is not being provisioned has come past its create, if it was created.
LEMMA DoneIsSettled ==
  ASSUME NEW i \in Ids, TypeOK, ProvisionDone(i), row[i] # "none"
  PROVE  Phases[i] \in {"settled", "gone"} /\ (row[i] = "live" => Phases[i] = "settled")
  BY DEF TypeOK, ProvisionDone, Phases, Phase, Unbooted

\* The record that a late save brings back is of a sandbox without a VM.
LEMMA LateSave ==
  ASSUME Promise, NEW i \in Ids, NEW rec, rec # "none", ~Unknown(i), SaveOk(i, rec),
         UNCHANGED <<row, vm, prov>>, UNCHANGED Asked
  PROVE  [Contract!Next]_(Contract!vars)
<1> USE DEF Promise, Finality, Custody
<1>1. UNCHANGED Phases /\ Kept' = Kept \cup {i}
  BY PhaseFrame, KeptMoves
<1>2. CASE disk[i] # "none"
  <2>1. i \in Kept
    BY <1>2 DEF Kept
  <2>2. QED
    BY <1>1, <2>1 DEF Contract!vars
<1>3. CASE disk[i] = "none"
  <2>1. row[i] # "none"
    BY DEF Registry, Uncreated
  <2>2. vm[i] = "absent"
    BY <1>3 DEF LostIsUnknown, NoVMWithoutRecord
  <2>3. ProvisionDone(i)
    BY <1>3 DEF ProvisionHasRecord
  <2>4. Contract!Recall(i)
    BY <1>1, <2>1, <2>2, <2>3, DoneIsSettled DEF Registry, Contract!Recall
  <2>5. QED
    BY <2>4 DEF Contract!Next
<1>4. QED
  BY <1>2, <1>3

\* A create, and each step of the provisioning task.
LEMMA ProvisionKeepsContract ==
  ASSUME Promise, NEW i \in Ids, Create(i) \/ Provision(i)
  PROVE  [Contract!Next]_(Contract!vars)
<1> USE DEF external, Promise, Finality, Custody
<1>1. CASE Create(i)
  <2>1. Phases[i] = "new" /\ Phases' = [Phases EXCEPT ![i] = "creating"]
    BY <1>1 DEF Create, Registry, TypeOK, Phases, Phase, Unbooted
  <2>2. Kept' = Kept \cup {i} /\ UNCHANGED <<vm, call>>
    BY <1>1, KeptMoves DEF Create
  <2>3. Contract!Accept(i)
    BY <2>1, <2>2, AskedFrame DEF Contract!Accept
  <2>4. QED
    BY <2>3 DEF Contract!Next
<1>2. ASSUME NEW pc \in ProvStates, ProvGoto(i, pc), prov[i] # "none",
             UNCHANGED <<row, vm, call>>, UNCHANGED Kept,
             pc \in Unbooted => prov[i] \in Unbooted
      PROVE  [Contract!Next]_(Contract!vars)
  <2>1. UNCHANGED Asked
    BY <1>2, AskedFrame
  <2>2. CASE UNCHANGED Phases
    BY <1>2, <2>1, <2>2 DEF Contract!vars
  <2>3. CASE Phases[i] = "creating" /\ Phases' = [Phases EXCEPT ![i] = "settled"]
    <3>1. Contract!GiveUp(i)
      BY <1>2, <2>1, <2>3 DEF Contract!GiveUp
    <3>2. QED
      BY <3>1 DEF Contract!Next
  <2>4. QED
    BY <1>2, <2>2, <2>3, PhaseMoves
<1>3. CASE ProvPersist(i)
  <2>1. PICK pc \in {"prepare", "failed"} : ProvGoto(i, pc)
    BY <1>3 DEF ProvPersist
  <2>2. UNCHANGED Kept
    <3>1. i \in Kept
      BY <1>3 DEF ProvPersist, ProvisionHasRecord, ProvisionDone, Kept
    <3>2. CASE SaveOk(i, RecordOf(i))
      <4>1. RecordOf(i) # "none"
        BY DEF RecordOf
      <4>2. QED
        BY <3>1, <3>2, <4>1, KeptMoves
    <3>3. QED
      BY <1>3, <3>2, KeptFrame DEF ProvPersist, SaveFails
  <2>3. QED
    BY <1>2, <1>3, <2>1, <2>2 DEF ProvPersist, ProvStates, Unbooted
<1>4. CASE ProvClear(i)
  <2>1. vm[i] = "absent"
    BY <1>4 DEF ProvClear, UnbootedHasNoVM, Unbooted
  <2>2. UNCHANGED vm
    BY <1>4, <2>1 DEF ProvClear, VMDeleteOk, VMDeleteFails, Registry, TypeOK
  <2>3. PICK pc \in {"run", "failed"} : ProvGoto(i, pc)
    BY <1>4 DEF ProvClear
  <2>4. QED
    BY <1>2, <1>4, <2>2, <2>3, KeptFrame DEF ProvClear, ProvStates, Unbooted
<1>5. CASE ProvRun(i)
  <2>1. PICK s \in VMStates, pc \in {"booted", "failed"} :
          vm' = [vm EXCEPT ![i] = s] /\ ProvGoto(i, pc)
    BY <1>5 DEF ProvRun, VMStates
  <2>2. vm[i] = "absent" /\ i \in Kept
    BY <1>5 DEF ProvRun, UnbootedHasNoVM, Unbooted, ProvisionHasRecord, ProvisionDone, Kept
  <2>3. UNCHANGED Kept /\ UNCHANGED <<row, call>>
    BY <1>5, KeptFrame DEF ProvRun
  <2>4. CASE s = "absent"
    <3>1. UNCHANGED vm
      BY <2>1, <2>2, <2>4 DEF Registry, TypeOK
    <3>2. QED
      BY <1>2, <1>5, <2>1, <2>3, <3>1 DEF ProvRun, ProvStates, Unbooted
  <2>5. CASE s # "absent"
    <3>1. Phases[i] = "creating" /\ Phases' = [Phases EXCEPT ![i] = "settled"]
      BY <1>5, <2>1, <2>3, PhaseMoves DEF ProvRun, ProvStates, Unbooted
    <3>2. Contract!Boot(i)
      BY <2>1, <2>2, <2>3, <2>5, <3>1, AskedFrame DEF VMStates, Contract!Boot
    <3>3. QED
      BY <3>2 DEF Contract!Next
  <2>6. QED
    BY <2>4, <2>5
<1>6. CASE \/ ProvResolve(i) \/ ProvPrepare(i) \/ ProvBooted(i) \/ ProvFailed(i)
           \/ ProvReport(i) \/ ProvFinish(i)
  <2>1. PICK pc \in ProvStates :
          ProvGoto(i, pc) /\ prov[i] # "none" /\ (pc \in Unbooted => prov[i] \in Unbooted)
    BY <1>6 DEF ProvResolve, ProvPrepare, ProvBooted, ProvFailed, ProvReport, ProvFinish,
       ProvStates, Unbooted
  <2>2. UNCHANGED <<row, disk, vm, call>>
    BY <1>6 DEF ProvResolve, ProvPrepare, ProvBooted, ProvFailed, ProvReport, ProvFinish
  <2>3. QED
    BY <1>2, <2>1, <2>2, KeptFrame
<1>7. QED
  BY <1>1, <1>3, <1>4, <1>5, <1>6 DEF Provision

\* What happens to a VM by itself.
LEMMA OutOfBandKeepsContract ==
  ASSUME Promise, NEW i \in Ids, OutOfBand(i) PROVE [Contract!Next]_(Contract!vars)
<1>1. PICK from \in {"running", "stopped"}, to \in VMStates : VMChanges(i, from, to)
  BY DEF OutOfBand, VMStates
<1>2. /\ "outofband" \in Faults /\ vm[i] = from /\ vm' = [vm EXCEPT ![i] = to]
      /\ UNCHANGED Phases /\ UNCHANGED Kept /\ UNCHANGED Asked
  BY <1>1, PhaseFrame, KeptFrame, AskedFrame DEF VMChanges, registry
<1>3. Phases[i] = "settled"
  BY <1>2, VMIsSettled
<1>4. CASE to = "absent"
  <2>1. Contract!Remove(i)
    BY <1>2, <1>3, <1>4 DEF Contract!Remove, Contract!MayDesist
  <2>2. QED
    BY <2>1 DEF Contract!Next
<1>5. CASE to # "absent"
  <2>1. Contract!Switch(i)
    BY <1>2, <1>3, <1>5 DEF VMStates, Contract!Switch
  <2>2. QED
    BY <2>1 DEF Contract!Next
<1>6. QED
  BY <1>4, <1>5

\* A request asks for a delete of the sandbox it names, or does not show.
LEMMA RequestKeepsContract ==
  ASSUME "early" \notin Faults, NamesAreUnique, Promise, NEW c \in Calls, Request(c)
  PROVE  [Contract!Next]_(Contract!vars)
<1> USE DEF external, registry
<1>1. UNCHANGED vm /\ UNCHANGED Phases /\ UNCHANGED Kept
  BY PhaseFrame, KeptFrame DEF Request, BeginLifecycle, BeginDelete, BeginDeleteUnknown
<1>2. PICK i \in Ids :
        \/ \E t \in Ids :
             \/ \E op \in {"stop", "start"} : BeginLifecycle(c, op, i, t)
             \/ BeginDelete(c, i, t)
        \/ BeginDeleteUnknown(c, i)
  BY DEF Request
<1>3. CASE \E t \in Ids, op \in {"stop", "start"} : BeginLifecycle(c, op, i, t)
  <2>1. UNCHANGED Asked
    BY <1>3, AskedOpens DEF BeginLifecycle, CallStates
  <2>2. QED
    BY <1>1, <2>1 DEF Contract!vars
<1>4. CASE (\E t \in Ids : BeginDelete(c, i, t)) \/ BeginDeleteUnknown(c, i)
  <2>1. row[i] = "live"
    BY <1>4 DEF BeginDelete, BeginDeleteUnknown, MayDelete
  <2>2. Phases[i] \in {"creating", "settled"}
    BY <2>1 DEF Phases, Phase
  <2>3. Asked' = Asked \cup {i}
    <3>1. CASE BeginDeleteUnknown(c, i)
      BY <3>1, AskedOpens DEF BeginDeleteUnknown, CallStates
    <3>2. ASSUME NEW t \in Ids, BeginDelete(c, i, t) PROVE Asked' = Asked \cup {i}
      <4>1. t = i
        BY <3>2 DEF BeginDelete, Lookup, NamesAreUnique
      <4>2. QED
        BY <3>2, <4>1, AskedOpens DEF BeginDelete, CallStates
    <3>3. QED
      BY <1>4, <3>1, <3>2
  <2>4. Contract!Ask(i)
    BY <1>1, <2>2, <2>3 DEF Contract!Ask
  <2>5. QED
    BY <2>4 DEF Contract!Next
<1>5. QED
  BY <1>2, <1>3, <1>4

\* A stop or a start switches a VM and saves a record, and no more.
LEMMA LifecycleKeepsContract ==
  ASSUME Promise, NEW c \in Calls,
         \/ LifecycleRuntime(c) \/ LifecycleVerify(c) \/ LifecycleRecord(c)
         \/ LifecycleSave(c) \/ LifecycleCondition(c) \/ LifecycleRelease(c)
  PROVE  [Contract!Next]_(Contract!vars)
<1> DEFINE t == call[c].target
<1> USE DEF external, registry, Promise, Finality, Custody
<1>1. call[c].op \in {"stop", "start"} /\ t \in Ids /\ Knows(c, t)
  <2>1. call[c].op \in {"none", "stop", "start", "delete"}
    BY DEF Registry, TypeOK
  <2>2. QED
    BY <2>1 DEF LifecycleRuntime, LifecycleVerify, LifecycleRecord, LifecycleSave,
       LifecycleCondition, LifecycleRelease, Registry, CallShape, LifecyclePcs, KnownPcs,
       TeardownPcs, UnknownPcs, Knows
<1>2. UNCHANGED Asked
  BY <1>1, AskedFrame, AskedReturns DEF LifecycleRuntime, LifecycleVerify, LifecycleRecord,
     LifecycleSave, LifecycleCondition, LifecycleRelease, CallStates
<1>3. UNCHANGED Phases
  BY PhaseFrame DEF LifecycleRuntime, LifecycleVerify, LifecycleRecord, LifecycleSave,
     LifecycleCondition, LifecycleRelease
<1>4. CASE LifecycleRuntime(c)
  <2>1. UNCHANGED Kept
    BY <1>4, KeptFrame DEF LifecycleRuntime
  <2>2. CASE UNCHANGED vm
    BY <1>2, <1>3, <2>1, <2>2 DEF Contract!vars
  <2>3. CASE vm[t] # "absent" /\ vm' = [vm EXCEPT ![t] = Goal(call[c].op)]
    <3>1. Phases[t] = "settled"
      BY <1>1, <2>3, VMIsSettled
    <3>2. vm[t] \in {"running", "stopped"} /\ Goal(call[c].op) \in {"running", "stopped"}
      BY <1>1, <2>3 DEF Registry, TypeOK, VMStates, Goal
    <3>3. Contract!Switch(t)
      BY <1>2, <1>3, <2>1, <2>3, <3>1, <3>2 DEF Contract!Switch
    <3>4. QED
      BY <1>1, <3>3 DEF Contract!Next
  <2>4. QED
    BY <1>4, <2>2, <2>3 DEF LifecycleRuntime
<1>5. CASE LifecycleSave(c)
  <2>1. CASE SaveOk(t, GoalRecord(call[c].op))
    <3>1. GoalRecord(call[c].op) # "none" /\ ~Unknown(t)
      BY <1>1 DEF GoalRecord, Unknown
    <3>2. QED
      BY <1>1, <1>2, <1>5, <2>1, <3>1, LateSave DEF LifecycleSave
  <2>2. CASE SaveFails
    BY <1>2, <1>3, <1>5, <2>2, KeptFrame DEF LifecycleSave, SaveFails, Contract!vars
  <2>3. QED
    BY <1>5, <2>1, <2>2 DEF LifecycleSave
<1>6. CASE LifecycleVerify(c) \/ LifecycleRecord(c) \/ LifecycleCondition(c) \/ LifecycleRelease(c)
  BY <1>2, <1>3, <1>6, KeptFrame DEF LifecycleVerify, LifecycleRecord, LifecycleCondition,
     LifecycleRelease, Contract!vars
<1>7. QED
  BY <1>4, <1>5, <1>6

\* A delete takes the VM first, then the record, and answers last.
LEMMA DeleteKeepsContract ==
  ASSUME Promise, NEW c \in Calls,
         \/ DeleteCancel(c) \/ DeleteWait(c) \/ DeleteExpired(c)
         \/ DeleteTeardown(c) \/ DeleteForget(c) \/ DeleteUnregister(c)
         \/ DeleteClear(c) \/ DeletePurge(c) \/ DeleteReply(c)
  PROVE  [Contract!Next]_(Contract!vars)
<1> DEFINE t == call[c].target
<1> USE DEF external, registry, Promise, Finality, Custody
<1>1. call[c].op = "delete" /\ t \in Ids /\ t \in Asked
  <2>1. call[c].op \in {"none", "stop", "start", "delete"}
    BY DEF Registry, TypeOK
  <2>2. call[c].op = "delete"
    BY <2>1 DEF DeleteCancel, DeleteWait, DeleteExpired, DeleteTeardown, DeleteForget,
       DeleteUnregister, DeleteClear, DeletePurge, DeleteReply, Registry, CallShape,
       LifecyclePcs
  <2>3. QED
    BY <2>2 DEF Registry, CallShape, Asked
<1>2. Contract!MayDesist(t)
  BY AskedFrame, AskedReturns DEF DeleteCancel, DeleteWait, DeleteExpired, DeleteTeardown,
     DeleteForget, DeleteUnregister, DeleteClear, DeletePurge, DeleteReply, CallStates,
     Contract!MayDesist
<1>3. ASSUME UNCHANGED <<row, prov>>, UNCHANGED Kept, UNCHANGED vm
      PROVE  [Contract!Next]_(Contract!vars)
  <2>1. Contract!Desist(t)
    BY <1>2, <1>3, PhaseFrame DEF Contract!Desist
  <2>2. QED
    BY <1>1, <2>1 DEF Contract!Next
<1>4. ASSUME UNCHANGED <<row, prov, disk>>, VMDeleteOk(t) \/ VMDeleteFails(t)
      PROVE  [Contract!Next]_(Contract!vars)
  <2>1. CASE UNCHANGED vm
    BY <1>3, <1>4, <2>1, KeptFrame
  <2>2. CASE ~UNCHANGED vm
    <3>1. vm[t] # "absent" /\ vm' = [vm EXCEPT ![t] = "absent"]
      BY <1>1, <1>4, <2>2 DEF VMDeleteOk, VMDeleteFails, Registry, TypeOK
    <3>2. Phases[t] = "settled"
      BY <1>1, <3>1, VMIsSettled
    <3>3. Contract!Remove(t)
      BY <1>1, <1>2, <1>4, <3>1, <3>2, PhaseFrame, KeptFrame DEF Contract!Remove
    <3>4. QED
      BY <1>1, <3>3 DEF Contract!Next
  <2>3. QED
    BY <2>1, <2>2
<1>5. ASSUME SaveOk(t, "none"), UNCHANGED <<row, vm, prov>>, vm[t] = "absent",
             ProvisionDone(t), row[t] # "none"
      PROVE  [Contract!Next]_(Contract!vars)
  <2>1. Kept' = Kept \ {t} /\ Phases[t] \in {"settled", "gone"}
    BY <1>1, <1>5, KeptMoves, DoneIsSettled DEF Registry
  <2>2. Contract!Forget(t)
    BY <1>1, <1>2, <1>5, <2>1, PhaseFrame DEF Contract!Forget
  <2>3. QED
    BY <1>1, <2>2 DEF Contract!Next
<1>6. CASE DeleteTeardown(c) \/ DeleteClear(c)
  BY <1>4, <1>6 DEF DeleteTeardown, DeleteClear
<1>7. CASE DeleteForget(c) \/ DeletePurge(c)
  <2>1. vm[t] = "absent"
    BY <1>7 DEF DeleteForget, DeletePurge, RemovedStaysRemoved
  <2>2. ProvisionDone(t) /\ row[t] # "none"
    <3>1. CASE DeleteForget(c)
      BY <1>1, <3>1 DEF DeleteForget, Registry, TeardownAfterProvision, TeardownPcs,
         Uncreated, Unknown, Knows, KnownPcs
    <3>2. CASE DeletePurge(c)
      BY <1>1, <3>2 DEF DeletePurge, UnknownStaysUnknown, UnknownPcs, Registry,
         ProvisionRegistered
    <3>3. QED
      BY <1>7, <3>1, <3>2
  <2>3. SaveOk(t, "none") \/ UNCHANGED disk
    BY <1>7 DEF DeleteForget, DeletePurge, SaveOk, SaveFails
  <2>4. UNCHANGED <<row, vm, prov>>
    BY <1>7 DEF DeleteForget, DeletePurge
  <2>5. QED
    BY <1>3, <1>5, <2>1, <2>2, <2>3, <2>4, KeptFrame
<1>8. CASE DeleteReply(c)
  <2>1. /\ vm[t] = "absent" /\ ProvisionDone(t) /\ row[t] # "none"
        /\ row' = [row EXCEPT ![t] = "gone"] /\ UNCHANGED <<disk, vm, prov>>
    BY <1>8 DEF DeleteReply, RemovedStaysRemoved, AnsweredWasCreated, NamesItsTarget
  <2>2. CASE row[t] = "gone"
    <3>1. UNCHANGED row
      BY <2>1, <2>2 DEF Registry, TypeOK
    <3>2. QED
      BY <1>3, <2>1, <3>1, KeptFrame
  <2>3. CASE row[t] = "live"
    <3>1. Phases[t] = "settled"
      BY <1>1, <2>1, <2>3, DoneIsSettled DEF Registry
    <3>2. Phases' = [Phases EXCEPT ![t] = "gone"]
      BY <2>1 DEF Registry, TypeOK, Phases, Phase
    <3>3. Contract!Answer(t)
      BY <1>1, <1>2, <2>1, <3>1, <3>2, KeptFrame DEF Contract!Answer
    <3>4. QED
      BY <1>1, <3>3 DEF Contract!Next
  <2>4. QED
    BY <1>1, <2>1, <2>2, <2>3 DEF Registry, TypeOK
<1>9. CASE DeleteCancel(c) \/ DeleteWait(c) \/ DeleteExpired(c) \/ DeleteUnregister(c)
  BY <1>3, <1>9, KeptFrame DEF DeleteCancel, DeleteWait, DeleteExpired, DeleteUnregister
<1>10. QED
  BY <1>6, <1>7, <1>8, <1>9

\* The poller saves records; Bootstrap removes VMs that have none.
LEMMA PollKeepsContract ==
  ASSUME Promise, Poll PROVE [Contract!Next]_(Contract!vars)
<1> USE DEF external, registry
<1>1. UNCHANGED Asked
  BY AskedFrame DEF Poll, PollTick, PollList, PollListFails, PollApply, PollTake, PollSave
<1>2. CASE UNCHANGED disk
  BY <1>1, <1>2, PhaseFrame, KeptFrame DEF Poll, PollTick, PollList, PollListFails, PollApply,
     PollTake, PollSave, Contract!vars
<1>3. CASE PollSave /\ SaveOk(poll.cur, poll.rec)
  <2>1. poll.cur \in Ids /\ poll.rec # "none" /\ ~Unknown(poll.cur)
    BY <1>3 DEF PollSave, Promise, Finality, Custody, Registry, PollShape, Unknown, PollSaves
  <2>2. QED
    BY <1>1, <1>3, <2>1, LateSave DEF PollSave
<1>4. QED
  BY <1>2, <1>3 DEF Poll, PollTick, PollList, PollListFails, PollApply, PollTake, PollSave,
     SaveFails

\* See PollKeepsContract.
LEMMA BootKeepsContract ==
  ASSUME Promise, Boot PROVE [Contract!Next]_(Contract!vars)
<1> USE DEF external, registry
<1>1. CASE BootRecords \/ BootList \/ BootDone
  BY <1>1, PhaseFrame, KeptFrame, AskedFrame DEF BootRecords, BootList, BootDone,
     Contract!vars
<1>2. CASE BootAdopt
  BY <1>2, PhaseFrame, KeptFrame, AskedFrame DEF BootAdopt, Contract!vars
<1>3. ASSUME NEW i \in Ids, BootSweep(i) PROVE [Contract!Next]_(Contract!vars)
  <2>1. /\ UNCHANGED Phases /\ UNCHANGED Kept /\ UNCHANGED Asked
        /\ vm' = vm \/ vm' = [vm EXCEPT ![i] = "absent"]
    BY <1>3, PhaseFrame, KeptFrame, AskedFrame DEF BootSweep, VMDeleteOk, VMDeleteFails
  <2>2. CASE UNCHANGED vm
    BY <2>1, <2>2 DEF Contract!vars
  <2>3. CASE ~UNCHANGED vm
    <3>1. vm[i] # "absent" /\ vm' = [vm EXCEPT ![i] = "absent"]
      BY <2>1, <2>3 DEF Promise, Finality, Custody, Registry, TypeOK
    <3>2. i \notin Kept
      BY <1>3 DEF BootSweep, Promise, SweepsOrphansOnly, Kept
    <3>3. Contract!Remove(i)
      BY <2>1, <3>1, <3>2, VMIsSettled DEF Contract!Remove, Contract!MayDesist
    <3>4. QED
      BY <3>3 DEF Contract!Next
  <2>4. QED
    BY <2>2, <2>3
<1>4. QED
  BY <1>1, <1>2, <1>3 DEF Boot

\* The end of the process keeps what is on disk and in the runtime.
LEMMA RestartKeepsContract ==
  ASSUME Promise, ProcessGone PROVE [Contract!Next]_(Contract!vars)
<1>1. UNCHANGED vm /\ UNCHANGED Kept
  BY KeptFrame DEF ProcessGone, external
<1>2. Asked' = {}
  BY DEF ProcessGone, NoCall, Asked
<1>3. Phases' = [i \in Ids |-> IF Phases[i] = "creating" THEN "settled" ELSE Phases[i]]
  <2>1. ASSUME NEW i \in Ids
        PROVE  Phase(i)' = IF Phase(i) = "creating" THEN "settled" ELSE Phase(i)
    <3>1. UNCHANGED row /\ prov'[i] = "none" /\ row[i] \in {"none", "live", "gone"}
      BY DEF ProcessGone, external, Promise, Finality, Custody, Registry, TypeOK
    <3>2. QED
      BY <3>1 DEF Phase, Unbooted
  <2>2. QED
    BY <2>1 DEF Phases
<1>4. Contract!Restart
  BY <1>1, <1>2, <1>3 DEF Contract!Restart
<1>5. QED
  BY <1>4 DEF Contract!Next

\* Where sandbox names are unique and a delete is sent only after its create was
\* answered, the registry, the tasks, the poller and Bootstrap together implement the
\* contract of each sandbox.
THEOREM Refinement ==
  ASSUME "early" \notin Faults, NamesAreUnique PROVE Spec => ImplementsContract
<1>1. Init => Contract!Init
  <2> SUFFICES ASSUME Init PROVE Contract!Init
    OBVIOUS
  <2>1. Phases = [i \in Ids |-> IF i \in LostRecords THEN "settled" ELSE "new"]
    BY DEF Init, Phases, Phase, Unbooted
  <2>2. Kept = {} /\ Asked = {}
    BY DEF Init, Kept, Asked, NoCall
  <2>3. QED
    BY <2>1, <2>2 DEF Init, VMStates, Contract!Init
<1>2. Promise /\ [Next]_vars => [Contract!Next]_(Contract!vars)
  <2> SUFFICES ASSUME Promise, [Next]_vars PROVE [Contract!Next]_(Contract!vars)
    OBVIOUS
  <2>1. ASSUME NEW c \in Calls, Handle(c) PROVE [Contract!Next]_(Contract!vars)
    BY <2>1, LifecycleKeepsContract, DeleteKeepsContract DEF Handle
  <2>2. CASE Start \/ Shutdown \/ Close \/ UNCHANGED vars
    <3>1. UNCHANGED <<row, disk, vm, prov, call>>
      BY <2>2 DEF Start, Shutdown, Close, vars, external, registry
    <3>2. QED
      BY <3>1, PhaseFrame, KeptFrame, AskedFrame DEF Contract!vars
  <2>3. QED
    BY <2>1, <2>2, ProvisionKeepsContract, OutOfBandKeepsContract, RequestKeepsContract,
       PollKeepsContract, BootKeepsContract, RestartKeepsContract
       DEF Next, BootListFails, Exit, Crash
<1>3. Contract!Init /\ [][Contract!Next]_(Contract!vars) => Contract!Spec
  BY DEF Contract!Spec
<1>4. QED
  BY <1>1, <1>2, <1>3, PromiseInvariant, PTL DEF Spec, ImplementsContract
=============================================================================
