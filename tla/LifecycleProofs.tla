-------------------------- MODULE LifecycleProofs --------------------------
(***************************************************************************)
(* Type correctness and the invariant of the registry, one lemma for each  *)
(* conjunct of Registry and in it one step for each group of actions.      *)
(***************************************************************************)
EXTENDS LifecycleInvariants, TLAPS

\* The initial state is typed.
LEMMA TypeInit == Init => TypeOK
  BY LostAssumption DEF Init, TypeOK, Reasons, Marks, VMStates,
     DiskStates, ProvStates, CallStates, NoCall, NoPoll, NoBoot, NoVMs

CallRecords == [op : {"none", "stop", "start", "delete"}, pc : CallStates,
                id : Ids \cup {None}, target : Ids \cup {None}]

\* What the helpers of the actions write has the type of the variable.
LEMMA CallGotoType ==
  ASSUME TypeOK, NEW c \in Calls, NEW pc \in CallStates, CallGoto(c, pc)
  PROVE  call' \in [Calls -> CallRecords]
  BY DEF TypeOK, CallGoto, CallRecords

\* See CallGotoType.
LEMMA CallReturnType ==
  ASSUME TypeOK, NEW c \in Calls, CallReturn(c) PROVE call' \in [Calls -> CallRecords]
<1>1. NoCall \in CallRecords
  BY DEF NoCall, CallRecords, CallStates
<1>2. call \in [Calls -> CallRecords]
  BY DEF TypeOK, CallRecords
<1>3. QED
  BY <1>1, <1>2 DEF CallReturn

\* See CallGotoType.
LEMMA CallOpenType ==
  ASSUME TypeOK, NEW c \in Calls, NEW op \in {"stop", "start", "delete"},
         NEW pc \in CallStates, NEW i \in Ids, NEW t \in Ids, CallOpen(c, op, pc, i, t)
  PROVE  call' \in [Calls -> CallRecords]
<1>1. [op |-> op, pc |-> pc, id |-> i, target |-> t] \in CallRecords
  BY DEF CallRecords
<1>2. call \in [Calls -> CallRecords]
  BY DEF TypeOK, CallRecords
<1>3. QED
  BY <1>1, <1>2 DEF CallOpen

\* See CallGotoType.
LEMMA SaveType ==
  ASSUME TypeOK, NEW i, NEW rec \in DiskStates, SaveOk(i, rec) \/ SaveFails
  PROVE  disk' \in [Ids -> DiskStates]
  BY DEF TypeOK, SaveOk, SaveFails

\* See CallGotoType.
LEMMA VMDeleteType ==
  ASSUME TypeOK, NEW i, VMDeleteOk(i) \/ VMDeleteFails(i) PROVE vm' \in [Ids -> VMStates]
<1>1. vm' \in {vm, [vm EXCEPT ![i] = "absent"]}
  BY DEF VMDeleteOk, VMDeleteFails
<1>2. QED
  BY <1>1 DEF TypeOK, VMStates

\* See CallGotoType.
LEMMA MarksType ==
  ASSUME TypeOK, NEW i, NEW m \in Marks, Mark(i, m) \/ Unmark(i, m)
  PROVE  marks' \in [Ids -> SUBSET Marks]
  BY DEF TypeOK, Mark, Unmark

\* Every step of a handler, a task, the poller or the runtime keeps the types.
LEMMA TypeStep == TypeOK /\ [Next]_vars => TypeOK'
<1> SUFFICES ASSUME TypeOK, [Next]_vars PROVE TypeOK'
  OBVIOUS
<1> USE DEF TypeOK, external, registry
<1>1. ASSUME NEW i \in Ids, Create(i) PROVE TypeOK'
  BY <1>1 DEF Create, SaveOk, DiskStates, ProvStates, SetCondition, Marks, Reasons
<1>2. ASSUME NEW i \in Ids, Provision(i) PROVE TypeOK'
  <2>1. CASE ProvResolve(i)
    BY <2>1 DEF ProvResolve, ProvGoto, ProvStates
  <2>2. CASE ProvPersist(i)
    BY <2>2 DEF ProvPersist, ProvGoto, SaveOk, SaveFails, RecordOf, ProvStates, DiskStates
  <2>3. CASE ProvPrepare(i)
    BY <2>3 DEF ProvPrepare, ProvGoto, ProvStates
  <2>4. CASE ProvClear(i)
    BY <2>4 DEF ProvClear, ProvGoto, VMDeleteOk, VMDeleteFails, ProvStates, VMStates
  <2>5. CASE ProvRun(i)
    BY <2>5 DEF ProvRun, ProvGoto, ProvStates, VMStates
  <2>6. CASE ProvBooted(i)
    BY <2>6 DEF ProvBooted, ProvGoto, ProvStates, Reasons, SetCondition
  <2>7. CASE ProvFailed(i)
    BY <2>7 DEF ProvFailed, ProvGoto, ProvStates
  <2>8. CASE ProvReport(i)
    BY <2>8 DEF ProvReport, ProvGoto, ProvStates, Reasons, SetCondition
  <2>9. CASE ProvFinish(i)
    BY <2>9 DEF ProvFinish, ProvGoto, ProvStates
  <2>10. QED
    BY <1>2, <2>1, <2>2, <2>3, <2>4, <2>5, <2>6, <2>7, <2>8, <2>9 DEF Provision
<1>3. ASSUME NEW i \in Ids, OutOfBand(i) PROVE TypeOK'
  BY <1>3 DEF OutOfBand, VMChanges, VMStates
<1>4. ASSUME NEW c \in Calls, Request(c) PROVE TypeOK'
  <2>1. ASSUME NEW i \in Ids, NEW t \in Ids, NEW op \in {"stop", "start"},
               BeginLifecycle(c, op, i, t)
        PROVE  TypeOK'
    BY <2>1 DEF BeginLifecycle, CallOpen, CallStates, Mark, Marks
  <2>2. ASSUME NEW i \in Ids, NEW t \in Ids, BeginDelete(c, i, t) PROVE TypeOK'
    BY <2>2 DEF BeginDelete, CallOpen, CallStates, Mark, Marks, SetCondition, Reasons
  <2>3. ASSUME NEW i \in Ids, BeginDeleteUnknown(c, i) PROVE TypeOK'
    BY <2>3 DEF BeginDeleteUnknown, CallOpen, CallStates
  <2>4. QED
    BY <1>4, <2>1, <2>2, <2>3 DEF Request
<1>5. ASSUME NEW c \in Calls, Handle(c) PROVE TypeOK'
  <2> DEFINE CallTyped == call \in [Calls -> CallRecords]
  <2>1. ASSUME CallTyped', UNCHANGED <<row, disk, vm, mode, registered, cond, marks, prov,
                                      poll, boot>>
        PROVE  TypeOK'
    BY <2>1 DEF CallRecords
  <2>2. CASE LifecycleRuntime(c)
    <3>1. CallTyped'
      BY <2>2, CallGotoType DEF LifecycleRuntime, CallStates
    <3>2. vm' \in [Ids -> VMStates]
      BY <2>2 DEF LifecycleRuntime, Goal, VMStates
    <3>3. QED
      BY <2>2, <3>1, <3>2 DEF LifecycleRuntime, CallRecords
  <2>3. CASE LifecycleVerify(c) \/ DeleteWait(c) \/ DeleteExpired(c)
    <3>1. CallTyped'
      BY <2>3, CallGotoType, CallReturnType DEF LifecycleVerify, DeleteWait, DeleteExpired,
         CallStates
    <3>2. QED
      BY <2>1, <2>3, <3>1 DEF LifecycleVerify, DeleteWait, DeleteExpired
  <2>4. CASE LifecycleRecord(c) \/ DeleteCancel(c) \/ LifecycleRelease(c)
    <3>1. CallTyped'
      BY <2>4, CallGotoType, CallReturnType DEF LifecycleRecord, DeleteCancel,
         LifecycleRelease, CallStates
    <3>2. marks' \in [Ids -> SUBSET Marks]
      BY <2>4, MarksType DEF LifecycleRecord, DeleteCancel, LifecycleRelease, Marks
    <3>3. UNCHANGED <<row, disk, vm, mode, registered, cond, prov, poll, boot>>
      BY <2>4 DEF LifecycleRecord, DeleteCancel, LifecycleRelease
    <3>4. QED
      BY <3>1, <3>2, <3>3 DEF CallRecords
  <2>5. CASE LifecycleSave(c) \/ DeleteForget(c) \/ DeletePurge(c)
    <3>1. CallTyped'
      BY <2>5, CallGotoType, CallReturnType DEF LifecycleSave, DeleteForget, DeletePurge,
         CallStates
    <3>2. GoalRecord(call[c].op) \in DiskStates /\ "none" \in DiskStates
      BY DEF GoalRecord, DiskStates
    <3>3. disk' \in [Ids -> DiskStates]
      BY <2>5, <3>2, SaveType DEF LifecycleSave, DeleteForget, DeletePurge
    <3>4. UNCHANGED <<row, vm, mode, registered, cond, marks, prov, poll, boot>>
      BY <2>5 DEF LifecycleSave, DeleteForget, DeletePurge
    <3>5. QED
      BY <3>1, <3>3, <3>4 DEF CallRecords
  <2>6. CASE LifecycleCondition(c)
    <3>1. CallTyped'
      BY <2>6, CallGotoType DEF LifecycleCondition, CallStates
    <3>2. GoalReason(call[c].op) \in Reasons
      BY DEF GoalReason, Reasons
    <3>3. cond' \in [Ids -> Reasons]
      BY <2>6, <3>2 DEF LifecycleCondition, SetCondition
    <3>4. UNCHANGED <<row, disk, vm, mode, registered, marks, prov, poll, boot>>
      BY <2>6 DEF LifecycleCondition
    <3>5. QED
      BY <3>1, <3>3, <3>4 DEF CallRecords
  <2>7. CASE DeleteTeardown(c) \/ DeleteClear(c)
    <3>1. CallTyped'
      BY <2>7, CallGotoType, CallReturnType DEF DeleteTeardown, DeleteClear, CallStates
    <3>2. vm' \in [Ids -> VMStates]
      BY <2>7, VMDeleteType DEF DeleteTeardown, DeleteClear
    <3>3. UNCHANGED <<row, disk, mode, registered, cond, marks, prov, poll, boot>>
      BY <2>7 DEF DeleteTeardown, DeleteClear
    <3>4. QED
      BY <3>1, <3>2, <3>3 DEF CallRecords
  <2>8. CASE DeleteUnregister(c)
    <3>1. CallTyped'
      BY <2>8, CallGotoType DEF DeleteUnregister, CallStates
    <3>2. QED
      BY <2>8, <3>1 DEF DeleteUnregister, CallRecords
  <2>9. CASE DeleteReply(c)
    <3>1. CallTyped'
      BY <2>9, CallReturnType DEF DeleteReply
    <3>2. QED
      BY <2>9, <3>1 DEF DeleteReply, CallRecords
  <2>10. QED
    BY <1>5, <2>2, <2>3, <2>4, <2>5, <2>6, <2>7, <2>8, <2>9 DEF Handle
<1>6. CASE Poll
  <2>1. CASE PollTick
    BY <2>1 DEF PollTick
  <2>2. CASE PollList
    BY <2>2 DEF PollList
  <2>3. CASE PollListFails
    BY <2>3 DEF PollListFails, NoPoll, NoVMs, VMStates, DiskStates
  <2>4. CASE PollApply
    BY <2>4 DEF PollApply, NoPoll, NoVMs, VMStates, DiskStates, Observed, Marks, Reasons
  <2>5. ASSUME NEW i \in Ids, PollTake(i) PROVE TypeOK'
    BY <2>5 DEF PollTake, RecordOf, DiskStates
  <2>6. CASE PollSave
    <3>1. disk' \in [Ids -> DiskStates]
      BY <2>6, SaveType DEF PollSave
    <3>2. QED
      BY <2>6, <3>1 DEF PollSave, NoPoll, NoVMs, VMStates, DiskStates
  <2>7. QED
    BY <1>6, <2>1, <2>2, <2>3, <2>4, <2>5, <2>6 DEF Poll
<1>7. CASE Boot
  <2>1. CASE BootRecords
    BY <2>1 DEF BootRecords
  <2>2. CASE BootList
    BY <2>2 DEF BootList
  <2>3. CASE BootAdopt
    BY <2>3 DEF BootAdopt, Adopted, Marks, Reasons, VMStates
  <2>4. ASSUME NEW i \in Ids, BootSweep(i) PROVE TypeOK'
    BY <2>4 DEF BootSweep, VMDeleteOk, VMDeleteFails, VMStates
  <2>5. CASE BootDone
    BY <2>5 DEF BootDone, NoBoot, NoVMs, VMStates, DiskStates
  <2>6. QED
    BY <1>7, <2>1, <2>2, <2>3, <2>4, <2>5 DEF Boot
<1>8. CASE Start \/ Shutdown \/ Close
  BY <1>8 DEF Start, Shutdown, Close, NoBoot, NoVMs, VMStates, DiskStates
<1>9. CASE ProcessGone
  BY <1>9 DEF ProcessGone, NoCall, NoPoll, NoBoot, NoVMs, Marks, Reasons, VMStates, DiskStates, ProvStates, CallStates
<1>10. CASE UNCHANGED vars
  BY <1>10 DEF vars
<1>11. QED
  BY <1>1, <1>2, <1>3, <1>4, <1>5, <1>6, <1>7, <1>8, <1>9, <1>10 DEF Next, BootListFails, Exit, Crash

-----------------------------------------------------------------------------
\* Handlers, tasks and the poller run only after Bootstrap, and leave it alone.
LEMMA WorkingStep ==
  ASSUME TypeOK, CallShape, Dormant,
         \/ \E i \in Ids : Create(i) \/ Provision(i)
         \/ \E c \in Calls : Request(c) \/ Handle(c)
         \/ Poll
  PROVE  /\ mode \notin {"down", "booting"} /\ boot.pc = "off"
         /\ UNCHANGED <<mode, boot>>
<1> USE DEF TypeOK, Dormant, external, registry, Open
<1>1. ASSUME NEW i \in Ids, Create(i)
      PROVE  mode \notin {"down", "booting"} /\ UNCHANGED <<mode, boot>>
  BY <1>1 DEF Create
<1>2. ASSUME NEW i \in Ids, Provision(i)
      PROVE  mode \notin {"down", "booting"} /\ UNCHANGED <<mode, boot>>
  BY <1>2 DEF Provision, ProvisionDone, ProvResolve, ProvPersist, ProvPrepare,
     ProvClear, ProvRun, ProvBooted, ProvFailed, ProvReport, ProvFinish
<1>3. ASSUME NEW c \in Calls, Request(c)
      PROVE  mode \notin {"down", "booting"} /\ UNCHANGED <<mode, boot>>
  BY <1>3 DEF Request, BeginLifecycle, BeginDelete, BeginDeleteUnknown
<1>4. ASSUME NEW c \in Calls, Handle(c)
      PROVE  mode \notin {"down", "booting"} /\ UNCHANGED <<mode, boot>>
  <2>1. call[c].pc # "idle"
    BY <1>4 DEF Handle, LifecycleRuntime, LifecycleVerify, LifecycleRecord,
       LifecycleSave, LifecycleCondition, LifecycleRelease, DeleteCancel, DeleteWait,
       DeleteExpired, DeleteTeardown, DeleteForget, DeleteUnregister, DeleteClear,
       DeletePurge, DeleteReply
  <2>2. UNCHANGED <<mode, boot>>
    BY <1>4 DEF Handle, LifecycleRuntime, LifecycleVerify, LifecycleRecord,
       LifecycleSave, LifecycleCondition, LifecycleRelease, DeleteCancel, DeleteWait,
       DeleteExpired, DeleteTeardown, DeleteForget, DeleteUnregister, DeleteClear,
       DeletePurge, DeleteReply
  <2>3. QED
    BY <2>1, <2>2 DEF CallShape
<1>5. CASE Poll
  BY <1>5 DEF Poll, PollTick, PollList, PollListFails, PollApply, PollTake, PollSave
<1>6. QED
  BY <1>1, <1>2, <1>3, <1>4, <1>5

\* A handler stays within the steps of its own operation.
LEMMA CallShapeStep == TypeOK /\ CallShape /\ [Next]_vars => CallShape'
<1> SUFFICES ASSUME TypeOK, CallShape, [Next]_vars PROVE CallShape'
  OBVIOUS
<1> USE DEF TypeOK, CallShape, LifecyclePcs, KnownPcs, TeardownPcs, UnknownPcs
<1>1. ASSUME UNCHANGED call PROVE CallShape'
  BY <1>1
<1>2. ASSUME NEW i \in Ids, Create(i) \/ Provision(i) \/ OutOfBand(i)
      PROVE UNCHANGED call
  BY <1>2 DEF Create, Provision, OutOfBand, VMChanges, ProvResolve, ProvPersist,
     ProvPrepare, ProvClear, ProvRun, ProvBooted, ProvFailed, ProvReport, ProvFinish
<1>3. ASSUME NEW c \in Calls, Request(c) PROVE CallShape'
  <2>1. PICK i \in Ids :
          \/ \E t \in Ids :
               \/ \E op \in {"stop", "start"} : BeginLifecycle(c, op, i, t)
               \/ BeginDelete(c, i, t)
          \/ BeginDeleteUnknown(c, i)
    BY <1>3 DEF Request
  <2>2. ASSUME NEW t \in Ids, NEW op \in {"stop", "start"}, BeginLifecycle(c, op, i, t)
        PROVE  CallShape'
    BY <2>2 DEF BeginLifecycle, CallOpen
  <2>3. ASSUME NEW t \in Ids, BeginDelete(c, i, t) PROVE CallShape'
    BY <2>3 DEF BeginDelete, CallOpen
  <2>4. CASE BeginDeleteUnknown(c, i)
    BY <2>4 DEF BeginDeleteUnknown, CallOpen
  <2>5. QED
    BY <2>1, <2>2, <2>3, <2>4
<1>4. ASSUME NEW c \in Calls, Handle(c) PROVE CallShape'
  <2>1. CASE LifecycleRuntime(c) \/ LifecycleVerify(c) \/ LifecycleRecord(c)
               \/ LifecycleSave(c) \/ LifecycleCondition(c)
    BY <2>1 DEF LifecycleRuntime, LifecycleVerify, LifecycleRecord, LifecycleSave,
       LifecycleCondition, CallGoto
  <2>2. CASE LifecycleRelease(c)
    BY <2>2 DEF LifecycleRelease, CallReturn, NoCall
  <2>3. CASE DeleteExpired(c) \/ DeleteReply(c)
    BY <2>3 DEF DeleteExpired, DeleteReply, CallReturn, NoCall
  <2>4. CASE DeleteCancel(c) \/ DeleteWait(c)
    BY <2>4 DEF DeleteCancel, DeleteWait, CallGoto
  <2>5. CASE DeleteUnregister(c) \/ DeletePurge(c)
    BY <2>5 DEF DeleteUnregister, DeletePurge, CallGoto
  <2>6. CASE DeleteTeardown(c) \/ DeleteForget(c) \/ DeleteClear(c)
    BY <2>6 DEF DeleteTeardown, DeleteForget, DeleteClear, CallGoto, CallReturn, NoCall
  <2>7. QED
    BY <1>4, <2>1, <2>2, <2>3, <2>4, <2>5, <2>6 DEF Handle
<1>5. CASE Poll \/ Start \/ Boot \/ Shutdown \/ Close
  BY <1>5, <1>1 DEF Poll, PollTick, PollList, PollListFails, PollApply, PollTake, PollSave,
     Start, Boot, BootRecords, BootList, BootAdopt, BootSweep, BootDone, Shutdown, Close
<1>6. CASE ProcessGone
  BY <1>6 DEF ProcessGone, NoCall
<1>7. QED
  BY <1>1, <1>2, <1>3, <1>4, <1>5, <1>6 DEF Next, vars, BootListFails, Exit, Crash

\* Before the socket is served no handler, task or poll exists, and what
\* Bootstrap read from the store is still there.
LEMMA DormantStep ==
  TypeOK /\ CallShape /\ Dormant /\ [Next]_vars => Dormant'
<1> SUFFICES ASSUME TypeOK, CallShape, Dormant, [Next]_vars PROVE Dormant'
  OBVIOUS
<1>1. ASSUME \/ \E i \in Ids : Create(i) \/ Provision(i)
             \/ \E c \in Calls : Request(c) \/ Handle(c)
             \/ Poll
      PROVE  Dormant'
  BY <1>1, WorkingStep DEF Dormant
<1>2. CASE Start \/ Boot
  <2> USE DEF TypeOK, Dormant, external, registry, ProvisionDone
  <2>1. CASE Start \/ BootDone
    BY <2>1 DEF Start, BootDone, NoBoot
  <2>2. CASE BootRecords
    BY <2>2 DEF BootRecords
  <2>3. CASE BootList
    BY <2>3 DEF BootList
  <2>4. CASE BootAdopt
    BY <2>4 DEF BootAdopt
  <2>5. ASSUME NEW i \in Ids, BootSweep(i) PROVE Dormant'
    BY <2>5 DEF BootSweep
  <2>6. QED
    BY <1>2, <2>1, <2>2, <2>3, <2>4, <2>5 DEF Boot
<1>3. CASE Shutdown \/ Close \/ \E i \in Ids : OutOfBand(i)
  BY <1>3 DEF TypeOK, Dormant, Shutdown, Close, OutOfBand, VMChanges, external, registry,
     ProvisionDone
<1>4. CASE ProcessGone
  BY <1>4 DEF Dormant, ProcessGone, NoCall, NoPoll, NoBoot, ProvisionDone
<1>5. CASE UNCHANGED vars
  BY <1>5 DEF vars, Dormant, ProvisionDone
<1>6. QED
  BY <1>1, <1>2, <1>3, <1>4, <1>5 DEF Next, BootListFails, Exit, Crash

\* The poller saves a record only of a sandbox it has chosen.
LEMMA PollShapeStep == TypeOK /\ PollShape /\ [Next]_vars => PollShape'
<1> SUFFICES ASSUME TypeOK, PollShape, [Next]_vars PROVE PollShape'
  OBVIOUS
<1>1. CASE UNCHANGED poll
  BY <1>1 DEF PollShape
<1>2. ASSUME NEW i \in Ids, Create(i) \/ Provision(i) \/ OutOfBand(i)
      PROVE UNCHANGED poll
  BY <1>2 DEF Create, Provision, OutOfBand, VMChanges, ProvResolve, ProvPersist,
     ProvPrepare, ProvClear, ProvRun, ProvBooted, ProvFailed, ProvReport, ProvFinish
<1>3. ASSUME NEW c \in Calls, Request(c) \/ Handle(c) PROVE UNCHANGED poll
  BY <1>3 DEF Request, BeginLifecycle, BeginDelete, BeginDeleteUnknown, Handle,
     LifecycleRuntime, LifecycleVerify, LifecycleRecord, LifecycleSave,
     LifecycleCondition, LifecycleRelease, DeleteCancel, DeleteWait, DeleteExpired,
     DeleteTeardown, DeleteForget, DeleteUnregister, DeleteClear, DeletePurge, DeleteReply
<1>4. CASE Poll
  <2> USE DEF TypeOK, PollShape, NoPoll
  <2>1. CASE PollTick \/ PollList \/ PollListFails
    <3>1. CASE PollTick
      BY <3>1 DEF PollTick
    <3>2. CASE PollList
      BY <3>2 DEF PollList
    <3>3. CASE PollListFails
      BY <3>3 DEF PollListFails
    <3>4. QED
      BY <2>1, <3>1, <3>2, <3>3
  <2>2. CASE PollApply
    BY <2>2 DEF PollApply
  <2>3. ASSUME NEW i \in Ids, PollTake(i) PROVE PollShape'
    BY <2>3 DEF PollTake, RecordOf
  <2>4. CASE PollSave
    BY <2>4 DEF PollSave
  <2>5. QED
    BY <1>4, <2>1, <2>2, <2>3, <2>4 DEF Poll
<1>5. CASE Start \/ Boot \/ Shutdown \/ Close
  BY <1>1, <1>5 DEF Start, Boot, BootRecords, BootList, BootAdopt, BootSweep, BootDone,
     Shutdown, Close
<1>6. CASE ProcessGone
  BY <1>6 DEF PollShape, ProcessGone, NoPoll
<1>7. QED
  BY <1>1, <1>2, <1>3, <1>4, <1>5, <1>6 DEF Next, vars, BootListFails, Exit, Crash

\* The entry a request finds is registered, so its row is not "none".
LEMMA LookupRegistered ==
  ASSUME NEW i \in Ids, NEW t \in Lookup(i), TypeOK PROVE t \in registered
  BY DEF Lookup, TypeOK

\* No handler, task, poll or Bootstrap brings an unknown id into being: only its
\* create does.
LEMMA UnknownStays ==
  ASSUME Registry, [Next]_vars, NEW i \in Ids, Unknown(i), ~Create(i) PROVE Unknown(i)'
<1> USE DEF Unknown
<1>1. ASSUME NEW j \in Ids, Create(j) PROVE Unknown(i)'
  BY <1>1 DEF Create, SaveOk, Registry, TypeOK, PollSaves, Knows
<1>2. ASSUME NEW j \in Ids, Provision(j) PROVE Unknown(i)'
  <2>1. UNCHANGED <<row, registered, poll, call>>
    BY <1>2 DEF Provision, ProvResolve, ProvPersist, ProvPrepare, ProvClear, ProvRun,
       ProvBooted, ProvFailed, ProvReport, ProvFinish, external
  <2>2. j # i
    BY <1>2, <2>1 DEF Registry, ProvisionRegistered, ProvisionDone, Provision,
       ProvResolve, ProvPersist, ProvPrepare, ProvClear, ProvRun, ProvBooted, ProvFailed,
       ProvReport, ProvFinish
  <2>3. disk'[i] = disk[i]
    BY <1>2, <2>2 DEF Registry, TypeOK, Provision, ProvResolve, ProvPersist, ProvPrepare,
       ProvClear, ProvRun, ProvBooted, ProvFailed, ProvReport, ProvFinish, external,
       SaveOk, SaveFails
  <2>4. QED
    BY <2>1, <2>3 DEF PollSaves, Knows
<1>3. ASSUME NEW c \in Calls, Request(c) PROVE Unknown(i)'
  <2>1. UNCHANGED <<row, registered, poll, disk>>
    BY <1>3 DEF Request, BeginLifecycle, BeginDelete, BeginDeleteUnknown, external, registry
  <2>2. ASSUME Knows(c, i)' PROVE FALSE
    <3>1. PICK j \in Ids :
            \/ \E t \in Ids : /\ t \in Lookup(j)
                              /\ \E op \in {"stop", "start", "delete"}, pc \in CallStates :
                                   CallOpen(c, op, pc, j, t)
            \/ CallOpen(c, "delete", "clear", j, j)
      BY <1>3 DEF Request, BeginLifecycle, BeginDelete, BeginDeleteUnknown, CallStates
    <3>2. CASE CallOpen(c, "delete", "clear", j, j)
      BY <2>2, <3>2 DEF CallOpen, Knows, LifecyclePcs, KnownPcs, TeardownPcs, Registry, TypeOK
    <3>3. ASSUME NEW t \in Lookup(j), t \in Ids, NEW op \in {"stop", "start", "delete"},
                 NEW pc \in CallStates, CallOpen(c, op, pc, j, t)
          PROVE  FALSE
      <4>1. t = i
        BY <2>2, <3>3 DEF CallOpen, Knows, Registry, TypeOK
      <4>2. QED
        BY <2>1, <4>1, LookupRegistered DEF Registry
    <3>4. QED
      BY <3>1, <3>2, <3>3
  <2>3. ASSUME NEW d \in Calls, d # c PROVE call'[d] = call[d]
    BY <1>3, <2>3 DEF Request, BeginLifecycle, BeginDelete, BeginDeleteUnknown, CallOpen,
       Registry, TypeOK
  <2>4. QED
    BY <2>1, <2>2, <2>3 DEF PollSaves, Knows
<1>4. ASSUME NEW c \in Calls, Handle(c) PROVE Unknown(i)'
  <2>1. UNCHANGED poll /\ registered' \subseteq registered
    BY <1>4 DEF Handle, LifecycleRuntime, LifecycleVerify, LifecycleRecord, LifecycleSave,
       LifecycleCondition, LifecycleRelease, DeleteCancel, DeleteWait, DeleteExpired,
       DeleteTeardown, DeleteForget, DeleteUnregister, DeleteClear, DeletePurge,
       DeleteReply, external, registry
  <2>2. disk'[i] = "none"
    <3>1. CASE LifecycleSave(c)
      <4>1. call[c].target # i
        BY <3>1 DEF LifecycleSave, Knows, LifecyclePcs
      <4>2. QED
        BY <3>1, <4>1 DEF LifecycleSave, SaveOk, SaveFails, Registry, TypeOK
    <3>2. CASE DeleteForget(c) \/ DeletePurge(c)
      BY <3>2 DEF DeleteForget, DeletePurge, SaveOk, SaveFails, Registry, TypeOK
    <3>3. CASE ~(LifecycleSave(c) \/ DeleteForget(c) \/ DeletePurge(c))
      BY <1>4, <3>3 DEF Handle, LifecycleRuntime, LifecycleVerify,
         LifecycleRecord, LifecycleCondition, LifecycleRelease, DeleteCancel, DeleteWait,
         DeleteExpired, DeleteTeardown, DeleteUnregister, DeleteClear, DeleteReply, external
    <3>4. QED
      BY <3>1, <3>2, <3>3
  <2>3. ASSUME NEW d \in Calls PROVE ~Knows(d, i)'
    <3>1. CASE d # c
      <4>1. call'[d] = call[d]
        BY <1>4, <3>1 DEF Handle, LifecycleRuntime, LifecycleVerify, LifecycleRecord,
           LifecycleSave, LifecycleCondition, LifecycleRelease, DeleteCancel, DeleteWait,
           DeleteExpired, DeleteTeardown, DeleteForget, DeleteUnregister, DeleteClear,
           DeletePurge, DeleteReply, CallGoto, CallReturn, Registry, TypeOK
      <4>2. QED
        BY <4>1 DEF Knows
    <3>2. CASE d = c
      <4>1. ~Knows(c, i)
        OBVIOUS
      <4>2. CASE DeleteClear(c) \/ DeletePurge(c) \/ DeleteReply(c) \/ LifecycleRelease(c)
                   \/ DeleteExpired(c)
        BY <3>2, <4>1, <4>2, NoneAssumption DEF DeleteClear, DeletePurge, DeleteReply,
           LifecycleRelease, DeleteExpired, CallGoto, CallReturn, NoCall, Registry, TypeOK,
           Knows, LifecyclePcs, KnownPcs, TeardownPcs
      <4>3. CASE LifecycleRuntime(c) \/ LifecycleVerify(c) \/ LifecycleRecord(c)
                   \/ LifecycleSave(c) \/ LifecycleCondition(c)
        <5>1. call'[c].target = call[c].target /\ call[c].pc \in LifecyclePcs
          BY <4>3 DEF LifecycleRuntime, LifecycleVerify, LifecycleRecord, LifecycleSave,
             LifecycleCondition, CallGoto, Registry, TypeOK, LifecyclePcs
        <5>2. QED
          BY <3>2, <4>1, <5>1 DEF Knows
      <4>4. CASE DeleteCancel(c) \/ DeleteWait(c) \/ DeleteTeardown(c) \/ DeleteForget(c)
                   \/ DeleteUnregister(c)
        <5>1. /\ call[c].pc \in KnownPcs
              /\ call'[c].target = call[c].target \/ call'[c].target = None
          BY <4>4 DEF DeleteCancel, DeleteWait, DeleteTeardown, DeleteForget,
             DeleteUnregister, CallGoto, CallReturn, NoCall, Registry, TypeOK, KnownPcs,
             TeardownPcs
        <5>2. QED
          BY <3>2, <4>1, <5>1, NoneAssumption DEF Knows
      <4>5. QED
        BY <1>4, <4>2, <4>3, <4>4 DEF Handle
    <3>3. QED
      BY <3>1, <3>2
  <2>4. QED
    BY <2>1, <2>2, <2>3 DEF PollSaves
<1>5. CASE Poll
  <2>1. UNCHANGED <<row, registered, call>>
    BY <1>5 DEF Poll, PollTick, PollList, PollListFails, PollApply, PollTake, PollSave,
       external, registry
  <2>2. disk'[i] = disk[i]
    BY <1>5, <2>1 DEF Poll, PollTick, PollList, PollListFails, PollApply, PollTake,
       PollSave, external, SaveOk, SaveFails, PollSaves, Registry, TypeOK
  <2>3. ~PollSaves(i)'
    <3>1. CASE PollApply
      BY <2>1, <3>1 DEF PollApply, PollSaves, NoPoll
    <3>2. CASE PollTick \/ PollList \/ PollListFails
      <4>1. CASE PollTick
        BY <4>1 DEF PollTick, PollSaves, Registry, TypeOK
      <4>2. CASE PollList
        BY <4>2 DEF PollList, PollSaves, Registry, TypeOK
      <4>3. CASE PollListFails
        BY <4>3 DEF PollListFails, PollSaves, NoPoll
      <4>4. QED
        BY <3>2, <4>1, <4>2, <4>3
    <3>3. ASSUME NEW j \in Ids, PollTake(j) PROVE ~PollSaves(i)'
      BY <2>1, <3>3 DEF PollTake, PollSaves, Registry, TypeOK
    <3>4. CASE PollSave
      BY <2>1, <3>4 DEF PollSave, PollSaves, NoPoll, Registry, TypeOK
    <3>5. QED
      BY <1>5, <3>1, <3>2, <3>3, <3>4 DEF Poll
  <2>4. QED
    BY <2>1, <2>2, <2>3 DEF Knows
<1>6. CASE Boot
  <2>1. UNCHANGED <<row, disk, call, poll>>
    BY <1>6 DEF Boot, BootRecords, BootList, BootAdopt, BootSweep, BootDone, external
  <2>2. i \notin registered'
    <3>1. CASE BootAdopt
      BY <2>1, <3>1 DEF BootAdopt, Registry, Dormant
    <3>2. CASE ~BootAdopt
      BY <1>6, <2>1, <3>2 DEF Boot, BootRecords, BootList, BootSweep, BootDone, registry
    <3>3. QED
      BY <3>1, <3>2
  <2>3. QED
    BY <2>1, <2>2 DEF PollSaves, Knows
<1>7. ASSUME Start \/ Shutdown \/ Close \/ \E j \in Ids : OutOfBand(j) PROVE Unknown(i)'
  BY <1>7 DEF Start, Shutdown, Close, OutOfBand, VMChanges, external, registry,
     PollSaves, Knows
<1>8. CASE ProcessGone
  BY <1>8 DEF ProcessGone, external, PollSaves, Knows, NoPoll, NoCall, LifecyclePcs,
     KnownPcs, TeardownPcs
<1>9. CASE UNCHANGED vars
  BY <1>9 DEF vars, PollSaves, Knows
<1>10. QED
  BY <1>1, <1>2, <1>3, <1>4, <1>5, <1>6, <1>7, <1>8, <1>9
     DEF Next, BootListFails, Exit, Crash

\* The gateway's row changes with its create and with the answer to its delete.
LEMMA RowStep ==
  ASSUME Registry, [Next]_vars, NEW i \in Ids, row'[i] # row[i]
  PROVE  \/ Create(i) /\ row[i] = "none" /\ row'[i] = "live"
         \/ row'[i] = "gone" /\ \E c \in Calls : DeleteReply(c) /\ call[c].id = i
<1> USE DEF registry, external
<1>1. ASSUME NEW j \in Ids, Create(j)
      PROVE  Create(i) /\ row[i] = "none" /\ row'[i] = "live"
  BY <1>1 DEF Create, Registry, TypeOK
<1>2. ASSUME NEW j \in Ids, Provision(j) \/ OutOfBand(j) PROVE UNCHANGED row
  BY <1>2 DEF Provision, ProvResolve, ProvPersist, ProvPrepare, ProvClear, ProvRun,
     ProvBooted, ProvFailed, ProvReport, ProvFinish, OutOfBand, VMChanges
<1>3. ASSUME NEW c \in Calls, Request(c) PROVE UNCHANGED row
  BY <1>3 DEF Request, BeginLifecycle, BeginDelete, BeginDeleteUnknown
<1>4. ASSUME NEW c \in Calls, Handle(c)
      PROVE  row'[i] = "gone" /\ DeleteReply(c) /\ call[c].id = i
  <2>1. CASE DeleteReply(c)
    BY <2>1 DEF DeleteReply, Registry, TypeOK
  <2>2. CASE ~DeleteReply(c)
    BY <1>4, <2>2 DEF Handle, LifecycleRuntime, LifecycleVerify, LifecycleRecord,
       LifecycleSave, LifecycleCondition, LifecycleRelease, DeleteCancel, DeleteWait,
       DeleteExpired, DeleteTeardown, DeleteForget, DeleteUnregister, DeleteClear,
       DeletePurge
  <2>3. QED
    BY <2>1, <2>2
<1>5. CASE Poll \/ Start \/ Boot \/ Shutdown \/ Close \/ ProcessGone \/ UNCHANGED vars
  BY <1>5 DEF Poll, PollTick, PollList, PollListFails, PollApply, PollTake, PollSave, Start,
     Boot, BootRecords, BootList, BootAdopt, BootSweep, BootDone, Shutdown, Close,
     ProcessGone, vars
<1>6. QED
  BY <1>1, <1>2, <1>3, <1>4, <1>5 DEF Next, BootListFails, Exit, Crash

\* An id that has no row has none before the step, and its create gives it one.
LEMMA UncreatedStep == Registry /\ [Next]_vars => Uncreated'
<1> SUFFICES ASSUME Registry, [Next]_vars, NEW i \in Ids, row'[i] = "none"
             PROVE  Unknown(i)'
  BY DEF Uncreated
<1>1. row[i] = "none" /\ Unknown(i)
  BY RowStep DEF Registry, Uncreated
<1>2. ~Create(i)
  BY DEF Create, Registry, TypeOK
<1>3. QED
  BY <1>1, <1>2, UnknownStays

\* An entry leaves the registry only when its provisioning is over.
LEMMA ProvisionRegisteredStep == Registry /\ [Next]_vars => ProvisionRegistered'
<1> SUFFICES ASSUME Registry, [Next]_vars, NEW i \in Ids
             PROVE  prov'[i] # "none" => i \in registered'
  BY DEF ProvisionRegistered, ProvisionDone
<1> USE DEF ProvisionDone
<1>1. prov[i] # "none" => i \in registered
  BY DEF Registry, ProvisionRegistered
<1>2. ASSUME NEW j \in Ids, Create(j) PROVE prov'[i] # "none" => i \in registered'
  BY <1>1, <1>2 DEF Create, Registry, TypeOK
<1>3. ASSUME NEW j \in Ids, Provision(j) PROVE prov'[i] # "none" => i \in registered'
  <2>1. UNCHANGED registered /\ prov[j] # "none" /\ \E pc \in ProvStates : ProvGoto(j, pc)
    BY <1>3 DEF Provision, ProvResolve, ProvPersist, ProvPrepare, ProvClear, ProvRun,
       ProvBooted, ProvFailed, ProvReport, ProvFinish, ProvStates
  <2>2. CASE i = j
    BY <1>1, <2>1, <2>2
  <2>3. CASE i # j
    BY <1>1, <2>1, <2>3 DEF ProvGoto, Registry, TypeOK
  <2>4. QED
    BY <2>2, <2>3
<1>4. ASSUME NEW c \in Calls, Request(c) PROVE UNCHANGED <<prov, registered>>
  BY <1>4 DEF Request, BeginLifecycle, BeginDelete, BeginDeleteUnknown, registry
<1>5. ASSUME NEW c \in Calls, Handle(c) PROVE prov'[i] # "none" => i \in registered'
  <2>1. CASE DeleteUnregister(c)
    BY <1>1, <2>1 DEF DeleteUnregister, Registry, TeardownAfterProvision, TeardownPcs
  <2>2. CASE ~DeleteUnregister(c)
    BY <1>1, <1>5, <2>2 DEF Handle, LifecycleRuntime, LifecycleVerify, LifecycleRecord,
       LifecycleSave, LifecycleCondition, LifecycleRelease, DeleteCancel, DeleteWait,
       DeleteExpired, DeleteTeardown, DeleteForget, DeleteClear, DeletePurge, DeleteReply,
       registry
  <2>3. QED
    BY <2>1, <2>2
<1>6. CASE Poll
  BY <1>1, <1>6 DEF Poll, PollTick, PollList, PollListFails, PollApply, PollTake, PollSave,
     registry
<1>7. CASE Boot
  <2>1. CASE BootAdopt
    BY <1>1, <2>1 DEF BootAdopt, Registry, Dormant
  <2>2. CASE ~BootAdopt
    BY <1>1, <1>7, <2>2 DEF Boot, BootRecords, BootList, BootSweep, BootDone, registry
  <2>3. QED
    BY <2>1, <2>2
<1>8. CASE Start \/ Shutdown \/ Close \/ \E j \in Ids : OutOfBand(j)
  BY <1>1, <1>8 DEF Start, Shutdown, Close, OutOfBand, VMChanges, registry
<1>9. CASE ProcessGone
  BY <1>9 DEF ProcessGone
<1>10. CASE UNCHANGED vars
  BY <1>1, <1>10 DEF vars
<1>11. QED
  BY <1>1, <1>2, <1>3, <1>4, <1>5, <1>6, <1>7, <1>8, <1>9, <1>10
     DEF Next, BootListFails, Exit, Crash

\* A delete passes its wait only when provisioning is over, and none begins anew.
LEMMA TeardownStep == Registry /\ [Next]_vars => TeardownAfterProvision'
<1> SUFFICES ASSUME Registry, [Next]_vars, NEW c \in Calls, call'[c].pc \in TeardownPcs
             PROVE  prov'[call'[c].target] = "none"
  BY DEF TeardownAfterProvision, ProvisionDone
<1> USE DEF ProvisionDone
<1>1. call[c].pc \in TeardownPcs => prov[call[c].target] = "none" /\ call[c].target \in Ids
  BY DEF Registry, TeardownAfterProvision, TeardownPcs, CallShape
<1>2. ASSUME NEW j \in Ids, Create(j) PROVE prov'[call'[c].target] = "none"
  <2>1. call[c].target # j
    BY <1>2 DEF Create, Registry, Uncreated, Unknown, Knows, KnownPcs
  <2>2. QED
    BY <1>1, <1>2, <2>1 DEF Create, Registry, TypeOK
<1>3. ASSUME NEW j \in Ids, Provision(j) PROVE prov'[call'[c].target] = "none"
  <2>1. UNCHANGED call /\ prov[j] # "none" /\ \E pc \in ProvStates : ProvGoto(j, pc)
    BY <1>3 DEF Provision, ProvResolve, ProvPersist, ProvPrepare, ProvClear, ProvRun,
       ProvBooted, ProvFailed, ProvReport, ProvFinish, ProvStates
  <2>2. QED
    BY <1>1, <2>1 DEF ProvGoto, Registry, TypeOK
<1>4. ASSUME NEW d \in Calls, Request(d) PROVE prov'[call'[c].target] = "none"
  <2>1. UNCHANGED prov
    BY <1>4 DEF Request, BeginLifecycle, BeginDelete, BeginDeleteUnknown, registry
  <2>2. call'[c] = call[c]
    BY <1>4 DEF Request, BeginLifecycle, BeginDelete, BeginDeleteUnknown, CallOpen,
       TeardownPcs, Registry, TypeOK
  <2>3. QED
    BY <1>1, <2>1, <2>2
<1>5. ASSUME NEW d \in Calls, Handle(d) PROVE prov'[call'[c].target] = "none"
  <2>1. UNCHANGED prov
    BY <1>5 DEF Handle, LifecycleRuntime, LifecycleVerify, LifecycleRecord,
       LifecycleSave, LifecycleCondition, LifecycleRelease, DeleteCancel, DeleteWait,
       DeleteExpired, DeleteTeardown, DeleteForget, DeleteUnregister, DeleteClear,
       DeletePurge, DeleteReply, registry
  <2>2. CASE d # c
    <3>1. call'[c] = call[c]
      BY <1>5, <2>2 DEF Handle, LifecycleRuntime, LifecycleVerify, LifecycleRecord,
         LifecycleSave, LifecycleCondition, LifecycleRelease, DeleteCancel, DeleteWait,
         DeleteExpired, DeleteTeardown, DeleteForget, DeleteUnregister, DeleteClear,
         DeletePurge, DeleteReply, CallGoto, CallReturn, Registry, TypeOK
    <3>2. QED
      BY <1>1, <2>1, <3>1
  <2>3. CASE d = c /\ DeleteWait(c)
    BY <2>1, <2>3 DEF DeleteWait, CallGoto, Registry, TypeOK, TeardownPcs
  <2>4. CASE d = c /\ (DeleteTeardown(c) \/ DeleteForget(c))
    BY <1>1, <2>1, <2>4 DEF DeleteTeardown, DeleteForget, CallGoto, CallReturn, NoCall,
       Registry, TypeOK, TeardownPcs
  <2>5. CASE d = c /\ ~(DeleteWait(c) \/ DeleteTeardown(c) \/ DeleteForget(c))
    BY <1>5, <2>5 DEF Handle, LifecycleRuntime, LifecycleVerify, LifecycleRecord,
       LifecycleSave, LifecycleCondition, LifecycleRelease, DeleteCancel, DeleteExpired,
       DeleteUnregister, DeleteClear, DeletePurge, DeleteReply, CallGoto, CallReturn,
       NoCall, Registry, TypeOK, TeardownPcs
  <2>6. QED
    BY <1>5, <2>2, <2>3, <2>4, <2>5
<1>6. CASE Poll
  BY <1>1, <1>6 DEF Poll, PollTick, PollList, PollListFails, PollApply, PollTake, PollSave,
     registry
<1>7. CASE Boot
  BY <1>1, <1>7 DEF Boot, BootRecords, BootList, BootAdopt, BootSweep, BootDone, registry
<1>8. CASE Start \/ Shutdown \/ Close \/ \E j \in Ids : OutOfBand(j)
  BY <1>1, <1>8 DEF Start, Shutdown, Close, OutOfBand, VMChanges, registry
<1>9. CASE ProcessGone
  BY <1>9 DEF ProcessGone, NoCall, TeardownPcs
<1>10. CASE UNCHANGED vars
  BY <1>1, <1>10 DEF vars
<1>11. QED
  BY <1>2, <1>3, <1>4, <1>5, <1>6, <1>7, <1>8, <1>9, <1>10
     DEF Next, BootListFails, Exit, Crash

\* No stop or start operates where none is in flight.
LEMMA OperatesKnows ==
  ASSUME CallShape, NEW c \in Calls, NEW i \in Ids, Operates(c, i) PROVE Knows(c, i)
  BY DEF CallShape, Operates, Knows

\* busy is set by the one stop or start that found it unset, and cleared by it.
LEMMA ExclusiveStep == Registry /\ [Next]_vars => LifecycleExclusive'
<1> SUFFICES ASSUME Registry, [Next]_vars, NEW i \in Ids
             PROVE  /\ Is(i, "busy")' <=> \E c \in Calls : Operates(c, i)'
                    /\ \A c, d \in Calls : Operates(c, i)' /\ Operates(d, i)' => c = d
                    /\ Is(i, "busy")' => ProvisionDone(i)'
  BY DEF LifecycleExclusive
<1> DEFINE Exclusive == /\ Is(i, "busy") <=> \E c \in Calls : Operates(c, i)
                        /\ \A c, d \in Calls : Operates(c, i) /\ Operates(d, i) => c = d
                        /\ Is(i, "busy") => ProvisionDone(i)
<1>1. Exclusive /\ TypeOK /\ CallShape
  BY DEF Registry, LifecycleExclusive
<1>2. ASSUME \A c \in Calls : Operates(c, i)' <=> Operates(c, i),
             Is(i, "busy")' <=> Is(i, "busy"),
             ProvisionDone(i) => ProvisionDone(i)'
      PROVE  Exclusive'
  BY <1>1, <1>2
<1>3. ASSUME NEW j \in Ids, Create(j) PROVE Exclusive'
  <2>1. UNCHANGED call
    BY <1>3 DEF Create
  <2>2. CASE i = j
    <3>1. \A c \in Calls : ~Operates(c, i)
      BY <1>3, <2>2, OperatesKnows DEF Create, Registry, Uncreated, Unknown
    <3>2. ~Is(i, "busy")'
      BY <1>1, <1>3, <2>2 DEF Create, Is, TypeOK
    <3>3. QED
      BY <2>1, <3>1, <3>2 DEF Operates
  <2>3. CASE i # j
    BY <1>1, <1>2, <1>3, <2>1, <2>3 DEF Create, Operates, Is, TypeOK, ProvisionDone
  <2>4. QED
    BY <2>2, <2>3
<1>4. ASSUME NEW j \in Ids, Provision(j) PROVE Exclusive'
  <2>1. /\ UNCHANGED <<call, marks>> /\ prov[j] # "none"
        /\ \E pc \in ProvStates : ProvGoto(j, pc)
    BY <1>4 DEF Provision, ProvResolve, ProvPersist, ProvPrepare, ProvClear, ProvRun,
       ProvBooted, ProvFailed, ProvReport, ProvFinish, ProvStates
  <2>2. ProvisionDone(i) => ProvisionDone(i)'
    BY <1>1, <2>1 DEF ProvisionDone, ProvGoto, TypeOK
  <2>3. QED
    BY <1>2, <2>1, <2>2 DEF Operates, Is
<1>5. ASSUME NEW c \in Calls, Request(c) PROVE Exclusive'
  <2>1. PICK j \in Ids :
          \/ \E t \in Ids :
               \/ \E op \in {"stop", "start"} : BeginLifecycle(c, op, j, t)
               \/ BeginDelete(c, j, t)
          \/ BeginDeleteUnknown(c, j)
    BY <1>5 DEF Request
  <2>2. ~Operates(c, i)
    BY <1>1, <1>5 DEF CallShape, Operates, Request, BeginLifecycle, BeginDelete,
       BeginDeleteUnknown
  <2>3. /\ UNCHANGED prov
        /\ \A d \in Calls : d # c => call'[d] = call[d]
    BY <1>1, <1>5 DEF Request, BeginLifecycle, BeginDelete, BeginDeleteUnknown, CallOpen,
       registry, TypeOK
  <2>4. ASSUME NEW t \in Ids, NEW op \in {"stop", "start"}, BeginLifecycle(c, op, j, t)
        PROVE  Exclusive'
    <3>1. Operates(c, i)' <=> t = i
      BY <1>1, <2>4 DEF BeginLifecycle, CallOpen, Operates, TypeOK
    <3>2. CASE t = i
      <4>1. ~Is(i, "busy") /\ ProvisionDone(i) /\ Is(i, "busy")'
        BY <1>1, <2>4, <3>2 DEF BeginLifecycle, Pollable, Mark, Is, TypeOK
      <4>2. QED
        BY <1>1, <2>3, <3>1, <3>2, <4>1 DEF Operates, ProvisionDone
    <3>3. CASE t # i
      <4>1. Is(i, "busy")' <=> Is(i, "busy")
        BY <1>1, <2>4, <3>3 DEF BeginLifecycle, Mark, Is, TypeOK
      <4>2. QED
        BY <1>2, <2>2, <2>3, <3>1, <3>3, <4>1 DEF Operates, ProvisionDone
    <3>4. QED
      BY <3>2, <3>3
  <2>5. ASSUME NEW t \in Ids, BeginDelete(c, j, t) PROVE Exclusive'
    <3>1. ~Operates(c, i)'
      BY <1>1, <2>5 DEF BeginDelete, CallOpen, Operates, TypeOK
    <3>2. Is(i, "busy")' <=> Is(i, "busy")
      BY <1>1, <2>5 DEF BeginDelete, Mark, Is, TypeOK
    <3>3. QED
      BY <1>2, <2>2, <2>3, <3>1, <3>2 DEF Operates, ProvisionDone
  <2>6. CASE BeginDeleteUnknown(c, j)
    <3>1. ~Operates(c, i)' /\ UNCHANGED marks
      BY <1>1, <2>6 DEF BeginDeleteUnknown, CallOpen, Operates, TypeOK, registry
    <3>2. QED
      BY <1>2, <2>2, <2>3, <3>1 DEF Operates, ProvisionDone, Is
  <2>7. QED
    BY <2>1, <2>4, <2>5, <2>6
<1>6. ASSUME NEW c \in Calls, Handle(c) PROVE Exclusive'
  <2>1. /\ UNCHANGED prov
        /\ \A d \in Calls : d # c => call'[d] = call[d]
    BY <1>1, <1>6 DEF Handle, LifecycleRuntime, LifecycleVerify, LifecycleRecord,
       LifecycleSave, LifecycleCondition, LifecycleRelease, DeleteCancel, DeleteWait,
       DeleteExpired, DeleteTeardown, DeleteForget, DeleteUnregister, DeleteClear,
       DeletePurge, DeleteReply, CallGoto, CallReturn, registry, TypeOK
  <2>2. CASE LifecycleRelease(c)
    <3>1. ~Operates(c, i)'
      BY <1>1, <2>2 DEF LifecycleRelease, CallReturn, NoCall, Operates, TypeOK
    <3>2. CASE call[c].target = i
      <4>1. Operates(c, i)
        <5>1. call[c].op \in {"none", "stop", "start", "delete"}
          BY <1>1 DEF TypeOK
        <5>2. call[c].pc = "release"
          BY <2>2 DEF LifecycleRelease
        <5>3. call[c].op # "none" /\ call[c].op # "delete"
          BY <1>1, <5>2 DEF CallShape, KnownPcs, TeardownPcs, UnknownPcs
        <5>4. QED
          BY <3>2, <5>1, <5>3 DEF Operates
      <4>2. ~Is(i, "busy")'
        BY <1>1, <2>2, <3>2 DEF LifecycleRelease, Unmark, Is, TypeOK
      <4>3. QED
        BY <1>1, <2>1, <3>1, <4>1, <4>2 DEF Operates
    <3>3. CASE call[c].target # i
      <4>1. Is(i, "busy")' <=> Is(i, "busy")
        BY <1>1, <2>2, <3>3 DEF LifecycleRelease, Unmark, Is, TypeOK
      <4>2. QED
        BY <1>2, <2>1, <3>1, <3>3, <4>1 DEF Operates, ProvisionDone
    <3>4. QED
      BY <3>2, <3>3
  <2>3. CASE LifecycleRuntime(c) \/ LifecycleVerify(c) \/ LifecycleRecord(c)
               \/ LifecycleSave(c) \/ LifecycleCondition(c)
    <3>1. Operates(c, i)' <=> Operates(c, i)
      BY <1>1, <2>3 DEF LifecycleRuntime, LifecycleVerify, LifecycleRecord, LifecycleSave,
         LifecycleCondition, CallGoto, Operates, TypeOK
    <3>2. Is(i, "busy")' <=> Is(i, "busy")
      BY <1>1, <2>3 DEF LifecycleRuntime, LifecycleVerify, LifecycleRecord, LifecycleSave,
         LifecycleCondition, Mark, Unmark, Is, TypeOK, registry
    <3>3. QED
      BY <1>2, <2>1, <3>1, <3>2 DEF Operates, ProvisionDone
  <2>4. CASE ~(LifecycleRelease(c) \/ LifecycleRuntime(c) \/ LifecycleVerify(c)
               \/ LifecycleRecord(c) \/ LifecycleSave(c) \/ LifecycleCondition(c))
    <3>1. ~Operates(c, i)
      BY <1>1, <1>6, <2>4 DEF Handle, DeleteCancel, DeleteWait, DeleteExpired,
         DeleteTeardown, DeleteForget, DeleteUnregister, DeleteClear, DeletePurge,
         DeleteReply, Operates, CallShape, LifecyclePcs
    <3>2. ~Operates(c, i)'
      BY <1>1, <1>6, <2>4, <3>1 DEF Handle, DeleteCancel, DeleteWait, DeleteExpired,
         DeleteTeardown, DeleteForget, DeleteUnregister, DeleteClear, DeletePurge,
         DeleteReply, Operates, CallGoto, CallReturn, NoCall, TypeOK
    <3>3. Is(i, "busy")' <=> Is(i, "busy")
      BY <1>1, <1>6, <2>4 DEF Handle, DeleteCancel, DeleteWait, DeleteExpired,
         DeleteTeardown, DeleteForget, DeleteUnregister, DeleteClear, DeletePurge,
         DeleteReply, Mark, Is, TypeOK, registry
    <3>4. QED
      BY <1>2, <2>1, <3>1, <3>2, <3>3 DEF Operates, ProvisionDone
  <2>5. QED
    BY <2>2, <2>3, <2>4
<1>7. CASE Poll
  <2>1. UNCHANGED <<call, prov>>
    BY <1>7 DEF Poll, PollTick, PollList, PollListFails, PollApply, PollTake, PollSave,
       registry
  <2>2. Is(i, "busy")' <=> Is(i, "busy")
    <3>1. CASE PollApply
      BY <1>1, <3>1 DEF PollApply, Is, TypeOK
    <3>2. CASE ~PollApply
      BY <1>7, <3>2 DEF Poll, PollTick, PollList, PollListFails, PollTake, PollSave,
         registry, Is
    <3>3. QED
      BY <3>1, <3>2
  <2>3. QED
    BY <1>2, <2>1, <2>2 DEF Operates, ProvisionDone
<1>8. CASE Boot
  <2>1. UNCHANGED <<call, prov>>
    BY <1>8 DEF Boot, BootRecords, BootList, BootAdopt, BootSweep, BootDone, registry
  <2>2. CASE BootAdopt
    <3>1. \A c \in Calls : ~Operates(c, i)
      BY <1>1, <2>2 DEF BootAdopt, Registry, Dormant, Operates
    <3>2. ~Is(i, "busy")'
      BY <1>1, <2>2 DEF BootAdopt, Is, TypeOK
    <3>3. QED
      BY <2>1, <3>1, <3>2 DEF Operates
  <2>3. CASE ~BootAdopt
    <3>1. UNCHANGED marks
      BY <1>8, <2>3 DEF Boot, BootRecords, BootList, BootSweep, BootDone, registry
    <3>2. QED
      BY <1>2, <2>1, <3>1 DEF Operates, ProvisionDone, Is
  <2>4. QED
    BY <2>2, <2>3
<1>9. CASE Start \/ Shutdown \/ Close \/ (\E j \in Ids : OutOfBand(j)) \/ UNCHANGED vars
  <2>1. UNCHANGED <<call, prov, marks>>
    BY <1>9 DEF Start, Shutdown, Close, OutOfBand, VMChanges, registry, vars
  <2>2. QED
    BY <1>2, <2>1 DEF Operates, ProvisionDone, Is
<1>10. CASE ProcessGone
  BY <1>10 DEF ProcessGone, NoCall, Is, Operates
<1>11. QED
  BY <1>3, <1>4, <1>5, <1>6, <1>7, <1>8, <1>9, <1>10
     DEF Next, BootListFails, Exit, Crash

\* Nothing is registered, running or in flight at first.
LEMMA RegistryInit == Init => Registry
<1> SUFFICES ASSUME Init PROVE Registry
  OBVIOUS
<1>1. TypeOK
  BY TypeInit
<1>2. CallShape /\ Dormant /\ Uncreated /\ PollShape
  BY LostAssumption DEF Init, NoCall, NoPoll, NoBoot, CallShape, Dormant, Uncreated, Unknown,
     PollShape, PollSaves, Knows, LifecyclePcs, KnownPcs, TeardownPcs, ProvisionDone
<1>3. ProvisionRegistered /\ TeardownAfterProvision /\ LifecycleExclusive
  BY DEF Init, NoCall, ProvisionRegistered, TeardownAfterProvision, LifecycleExclusive,
     TeardownPcs, ProvisionDone, Operates, Is
<1>4. QED
  BY <1>1, <1>2, <1>3 DEF Registry

\* The conjuncts of Registry are inductive together.
LEMMA RegistryStep == Registry /\ [Next]_vars => Registry'
  BY TypeStep, CallShapeStep, DormantStep, UncreatedStep, PollShapeStep,
     ProvisionRegisteredStep, TeardownStep, ExclusiveStep DEF Registry

\* The inductive invariant of the registry holds under every fault.
THEOREM RegistryInvariant == Spec => []Registry
<1>1. Init => Registry
  BY RegistryInit
<1>2. Registry /\ [Next]_vars => Registry'
  BY RegistryStep
<1>3. QED
  BY <1>1, <1>2, PTL DEF Spec

\* Every variable keeps its type, for every set of sandboxes and of calls.
THEOREM TypeCorrect == Spec => []TypeOK
<1>1. Registry => TypeOK
  BY DEF Registry
<1>2. QED
  BY <1>1, RegistryInvariant, PTL

\* However many stops, starts, deletes and polls are in flight, an entry is busy
\* exactly while one stop or start works on it (beginLifecycle and its release).
THEOREM ExclusiveCorrect == Spec => []LifecycleExclusive
<1>1. Registry => LifecycleExclusive
  BY DEF Registry
<1>2. QED
  BY <1>1, RegistryInvariant, PTL
=============================================================================
