-------------------------- MODULE StateStoreProofs --------------------------
(* The files of StateStore implement the atomic store of RecordStore, for    *)
(* any callers, sandboxes and contents.                                      *)
EXTENDS StateStore, TLAPS

\* Which operation a step belongs to.
StepShape == \A c \in Client :
    /\ step[c] \in {"mkdir", "create", "write", "rename", "discard"} => call[c].op = "Save"
    /\ step[c] = "remove" => call[c].op = "Delete"
    /\ step[c] = "scan" => call[c].op = "List"
    /\ step[c] = "read" => call[c].op \in {"Load", "List"}
    /\ step[c] = "check" => call[c].op # "none"

\* What a save writes, and that it has checked its id.
SaveShape == \A c \in Client :
    /\ step[c] \notin {"idle", "check", "scan", "read", "ok", "error"} => call[c].id \in ValidId
    /\ call[c].op = "Save" => call[c].val \in Value
    /\ temp[c] # None => step[c] \in {"write", "rename", "discard"}
    /\ step[c] = "rename" => temp[c] \in {None, call[c].val}

\* A listing that has not taken the names yet has read nothing.
ListShape == \A c \in Client :
    call[c].op = "List" /\ step[c] \in {"check", "scan"} => call[c].todo = Id /\ call[c].got = Store!Blank

RecordsAreValid == \A i \in Id : file[i] # None => i \in ValidId

IInv ==
    /\ TypeOK
    /\ StepShape
    /\ SaveShape
    /\ ListShape
    /\ RecordsAreValid
    /\ NothingOutsideDirs

-----------------------------------------------------------------------------

\* Every step keeps the types; a save renames what it has written.
LEMMA TypeStep ==
    ASSUME TypeOK, StepShape, SaveShape, Next
    PROVE  TypeOK'
PROOF
<1> USE NoneIsNoValue, ValidIdIsId, SomeId DEF Goto, At, Of, TypeOK, StepShape, SaveShape, Calls, Contents, Steps
<1>1. CASE Crash
    BY <1>1 DEF Crash, Store!Requests, Store!Ask, Store!Blank, Store!NoCall, Store!AnyId
<1>2. ASSUME NEW i \in ValidId, WriteSeed(i) PROVE TypeOK'
    BY <1>2 DEF WriteSeed
<1>3. ASSUME NEW c \in Client, Call(c) PROVE TypeOK'
    BY <1>3 DEF Call, Store!Requests, Store!Ask, Store!Blank, Store!NoCall, Store!AnyId
<1>4. ASSUME NEW c \in Client, Check(c) PROVE TypeOK'
    BY <1>4 DEF Check, First
<1>5. ASSUME NEW c \in Client, Fail(c) PROVE TypeOK'
    BY <1>5 DEF Fail
<1>6. ASSUME NEW c \in Client, Return(c) PROVE TypeOK'
    BY <1>6 DEF Return, Store!Requests, Store!Ask, Store!Blank, Store!NoCall, Store!AnyId
<1>7. ASSUME NEW c \in Client, MakeDir(c) PROVE TypeOK'
    BY <1>7 DEF MakeDir
<1>8. ASSUME NEW c \in Client, CreateTemp(c) PROVE TypeOK'
    BY <1>8 DEF CreateTemp
<1>9. ASSUME NEW c \in Client, WriteTemp(c) PROVE TypeOK'
    BY <1>9 DEF WriteTemp
<1>10. ASSUME NEW c \in Client, Rename(c) PROVE TypeOK'
    BY <1>10 DEF Rename
<1>11. ASSUME NEW c \in Client, Discard(c) PROVE TypeOK'
    BY <1>11 DEF Discard
<1>12. ASSUME NEW c \in Client, RemoveFile(c) PROVE TypeOK'
    BY <1>12 DEF RemoveFile, TempsIn
<1>13. ASSUME NEW c \in Client, RemoveDir(c) PROVE TypeOK'
    BY <1>13 DEF RemoveDir, TempsIn
<1>14. ASSUME NEW c \in Client, ScanNames(c) PROVE TypeOK'
    <2>1. [call[c] EXCEPT !.todo = dirs \cap ValidId] \in Calls
        <3>1. call[c] \in Calls /\ dirs \cap ValidId \in SUBSET Id
            OBVIOUS
        <3> QED
            BY ONLY <3>1 DEF Calls
    <2>2. call' = [call EXCEPT ![c] = [call[c] EXCEPT !.todo = dirs \cap ValidId]]
        BY <1>14 DEF ScanNames
    <2> QED
        BY <1>14, <2>1, <2>2 DEF ScanNames
<1>15. ASSUME NEW c \in Client, ReadRecord(c) PROVE TypeOK'
    <2>1. PICK i \in call[c].todo : call' = [call EXCEPT ![c].todo = @ \ {i}, ![c].got = [@ EXCEPT ![i] = file[i]]]
        BY <1>15 DEF ReadRecord
    <2> DEFINE r == [call[c] EXCEPT !.todo = @ \ {i}, !.got = [@ EXCEPT ![i] = file[i]]]
    <2>2. r \in Calls
        <3>1. call[c] \in Calls
            OBVIOUS
        <3>2. [call[c].got EXCEPT ![i] = file[i]] \in [Id -> Value \cup {None}]
            BY <3>1
        <3> QED
            BY <3>1, <3>2
    <2>3. call' = [call EXCEPT ![c] = r]
        BY <2>1
    <2> QED
        BY <1>15, <2>2, <2>3 DEF ReadRecord
<1>16. ASSUME NEW c \in Client, Answer(c) PROVE TypeOK'
    BY <1>16 DEF Answer
<1> QED
    BY <1>1, <1>2, <1>3, <1>4, <1>5, <1>6, <1>7, <1>8, <1>9, <1>10, <1>11, <1>12, <1>13, <1>14, <1>15, <1>16 DEF Next, Save, Delete, Load, List

\* A step leads to a step of the same operation.
LEMMA StepShapeStep ==
    ASSUME TypeOK, StepShape, Next
    PROVE  StepShape'
PROOF
<1> USE NoneIsNoValue, ValidIdIsId, SomeId DEF Goto, At, Of, TypeOK, StepShape, Calls, Steps
<1>1. CASE Crash
    BY <1>1 DEF Crash, Store!Requests, Store!Ask, Store!Blank, Store!NoCall, Store!AnyId
<1>2. ASSUME NEW i \in ValidId, WriteSeed(i) PROVE StepShape'
    BY <1>2 DEF WriteSeed
<1>3. ASSUME NEW c \in Client, Call(c) PROVE StepShape'
    BY <1>3 DEF Call, Store!Requests, Store!Ask, Store!Blank, Store!NoCall, Store!AnyId
<1>4. ASSUME NEW c \in Client, Check(c) PROVE StepShape'
    BY <1>4 DEF Check, First
<1>5. ASSUME NEW c \in Client, Fail(c) PROVE StepShape'
    BY <1>5 DEF Fail
<1>6. ASSUME NEW c \in Client, Return(c) PROVE StepShape'
    BY <1>6 DEF Return, Store!Requests, Store!Ask, Store!Blank, Store!NoCall, Store!AnyId
<1>7. ASSUME NEW c \in Client, MakeDir(c) PROVE StepShape'
    BY <1>7 DEF MakeDir
<1>8. ASSUME NEW c \in Client, CreateTemp(c) PROVE StepShape'
    BY <1>8 DEF CreateTemp
<1>9. ASSUME NEW c \in Client, WriteTemp(c) PROVE StepShape'
    BY <1>9 DEF WriteTemp
<1>10. ASSUME NEW c \in Client, Rename(c) PROVE StepShape'
    BY <1>10 DEF Rename
<1>11. ASSUME NEW c \in Client, Discard(c) PROVE StepShape'
    BY <1>11 DEF Discard
<1>12. ASSUME NEW c \in Client, RemoveFile(c) PROVE StepShape'
    BY <1>12 DEF RemoveFile, TempsIn
<1>13. ASSUME NEW c \in Client, RemoveDir(c) PROVE StepShape'
    BY <1>13 DEF RemoveDir, TempsIn
<1>14. ASSUME NEW c \in Client, ScanNames(c) PROVE StepShape'
    BY <1>14 DEF ScanNames
<1>15. ASSUME NEW c \in Client, ReadRecord(c) PROVE StepShape'
    BY <1>15 DEF ReadRecord
<1>16. ASSUME NEW c \in Client, Answer(c) PROVE StepShape'
    BY <1>16 DEF Answer
<1> QED
    BY <1>1, <1>2, <1>3, <1>4, <1>5, <1>6, <1>7, <1>8, <1>9, <1>10, <1>11, <1>12, <1>13, <1>14, <1>15, <1>16 DEF Next, Save, Delete, Load, List

\* A save checks its id first and writes its own value.
LEMMA SaveShapeStep ==
    ASSUME TypeOK, StepShape, SaveShape, Next
    PROVE  SaveShape'
PROOF
<1> USE NoneIsNoValue, ValidIdIsId, SomeId DEF Goto, At, Of, TypeOK, StepShape, SaveShape, Calls, Contents, Steps
<1>1. CASE Crash
    BY <1>1 DEF Crash, Store!Requests, Store!Ask, Store!Blank, Store!NoCall, Store!AnyId
<1>2. ASSUME NEW i \in ValidId, WriteSeed(i) PROVE SaveShape'
    BY <1>2 DEF WriteSeed
<1>3. ASSUME NEW c \in Client, Call(c) PROVE SaveShape'
    BY <1>3 DEF Call, Store!Requests, Store!Ask, Store!Blank, Store!NoCall, Store!AnyId
<1>4. ASSUME NEW c \in Client, Check(c) PROVE SaveShape'
    BY <1>4 DEF Check, First
<1>5. ASSUME NEW c \in Client, Fail(c) PROVE SaveShape'
    BY <1>5 DEF Fail
<1>6. ASSUME NEW c \in Client, Return(c) PROVE SaveShape'
    BY <1>6 DEF Return, Store!Requests, Store!Ask, Store!Blank, Store!NoCall, Store!AnyId
<1>7. ASSUME NEW c \in Client, MakeDir(c) PROVE SaveShape'
    BY <1>7 DEF MakeDir
<1>8. ASSUME NEW c \in Client, CreateTemp(c) PROVE SaveShape'
    BY <1>8 DEF CreateTemp
<1>9. ASSUME NEW c \in Client, WriteTemp(c) PROVE SaveShape'
    BY <1>9 DEF WriteTemp
<1>10. ASSUME NEW c \in Client, Rename(c) PROVE SaveShape'
    BY <1>10 DEF Rename
<1>11. ASSUME NEW c \in Client, Discard(c) PROVE SaveShape'
    BY <1>11 DEF Discard
<1>12. ASSUME NEW c \in Client, RemoveFile(c) PROVE SaveShape'
    BY <1>12 DEF RemoveFile, TempsIn
<1>13. ASSUME NEW c \in Client, RemoveDir(c) PROVE SaveShape'
    BY <1>13 DEF RemoveDir, TempsIn
<1>14. ASSUME NEW c \in Client, ScanNames(c) PROVE SaveShape'
    BY <1>14 DEF ScanNames
<1>15. ASSUME NEW c \in Client, ReadRecord(c) PROVE SaveShape'
    BY <1>15 DEF ReadRecord
<1>16. ASSUME NEW c \in Client, Answer(c) PROVE SaveShape'
    BY <1>16 DEF Answer
<1> QED
    BY <1>1, <1>2, <1>3, <1>4, <1>5, <1>6, <1>7, <1>8, <1>9, <1>10, <1>11, <1>12, <1>13, <1>14, <1>15, <1>16 DEF Next, Save, Delete, Load, List

\* A listing reads nothing before it has the names.
LEMMA ListShapeStep ==
    ASSUME TypeOK, StepShape, ListShape, Next
    PROVE  ListShape'
PROOF
<1> USE NoneIsNoValue, ValidIdIsId, SomeId DEF Goto, At, Of, TypeOK, StepShape, ListShape, Calls, Steps, Store!Blank
<1>1. CASE Crash
    BY <1>1 DEF Crash, Store!Requests, Store!Ask, Store!Blank, Store!NoCall, Store!AnyId
<1>2. ASSUME NEW i \in ValidId, WriteSeed(i) PROVE ListShape'
    BY <1>2 DEF WriteSeed
<1>3. ASSUME NEW c \in Client, Call(c) PROVE ListShape'
    BY <1>3 DEF Call, Store!Requests, Store!Ask, Store!Blank, Store!NoCall, Store!AnyId
<1>4. ASSUME NEW c \in Client, Check(c) PROVE ListShape'
    BY <1>4 DEF Check, First
<1>5. ASSUME NEW c \in Client, Fail(c) PROVE ListShape'
    BY <1>5 DEF Fail
<1>6. ASSUME NEW c \in Client, Return(c) PROVE ListShape'
    BY <1>6 DEF Return, Store!Requests, Store!Ask, Store!Blank, Store!NoCall, Store!AnyId
<1>7. ASSUME NEW c \in Client, MakeDir(c) PROVE ListShape'
    BY <1>7 DEF MakeDir
<1>8. ASSUME NEW c \in Client, CreateTemp(c) PROVE ListShape'
    BY <1>8 DEF CreateTemp
<1>9. ASSUME NEW c \in Client, WriteTemp(c) PROVE ListShape'
    BY <1>9 DEF WriteTemp
<1>10. ASSUME NEW c \in Client, Rename(c) PROVE ListShape'
    BY <1>10 DEF Rename
<1>11. ASSUME NEW c \in Client, Discard(c) PROVE ListShape'
    BY <1>11 DEF Discard
<1>12. ASSUME NEW c \in Client, RemoveFile(c) PROVE ListShape'
    BY <1>12 DEF RemoveFile, TempsIn
<1>13. ASSUME NEW c \in Client, RemoveDir(c) PROVE ListShape'
    BY <1>13 DEF RemoveDir, TempsIn
<1>14. ASSUME NEW c \in Client, ScanNames(c) PROVE ListShape'
    BY <1>14 DEF ScanNames
<1>15. ASSUME NEW c \in Client, ReadRecord(c) PROVE ListShape'
    BY <1>15 DEF ReadRecord
<1>16. ASSUME NEW c \in Client, Answer(c) PROVE ListShape'
    BY <1>16 DEF Answer
<1> QED
    BY <1>1, <1>2, <1>3, <1>4, <1>5, <1>6, <1>7, <1>8, <1>9, <1>10, <1>11, <1>12, <1>13, <1>14, <1>15, <1>16 DEF Next, Save, Delete, Load, List

\* Only a save that has checked its id makes a record.
LEMMA RecordsStep ==
    ASSUME TypeOK, SaveShape, RecordsAreValid, Next
    PROVE  RecordsAreValid'
PROOF
<1> USE NoneIsNoValue, ValidIdIsId, SomeId DEF Goto, At, Of, TypeOK, SaveShape, RecordsAreValid
<1>1. CASE Crash
    BY <1>1 DEF Crash, Store!Requests, Store!Ask, Store!Blank, Store!NoCall, Store!AnyId
<1>2. ASSUME NEW i \in ValidId, WriteSeed(i) PROVE RecordsAreValid'
    BY <1>2 DEF WriteSeed
<1>3. ASSUME NEW c \in Client, Call(c) PROVE RecordsAreValid'
    BY <1>3 DEF Call, Store!Requests, Store!Ask, Store!Blank, Store!NoCall, Store!AnyId
<1>4. ASSUME NEW c \in Client, Check(c) PROVE RecordsAreValid'
    BY <1>4 DEF Check, First
<1>5. ASSUME NEW c \in Client, Fail(c) PROVE RecordsAreValid'
    BY <1>5 DEF Fail
<1>6. ASSUME NEW c \in Client, Return(c) PROVE RecordsAreValid'
    BY <1>6 DEF Return, Store!Requests, Store!Ask, Store!Blank, Store!NoCall, Store!AnyId
<1>7. ASSUME NEW c \in Client, MakeDir(c) PROVE RecordsAreValid'
    BY <1>7 DEF MakeDir
<1>8. ASSUME NEW c \in Client, CreateTemp(c) PROVE RecordsAreValid'
    BY <1>8 DEF CreateTemp
<1>9. ASSUME NEW c \in Client, WriteTemp(c) PROVE RecordsAreValid'
    BY <1>9 DEF WriteTemp
<1>10. ASSUME NEW c \in Client, Rename(c) PROVE RecordsAreValid'
    BY <1>10 DEF Rename
<1>11. ASSUME NEW c \in Client, Discard(c) PROVE RecordsAreValid'
    BY <1>11 DEF Discard
<1>12. ASSUME NEW c \in Client, RemoveFile(c) PROVE RecordsAreValid'
    BY <1>12 DEF RemoveFile, TempsIn
<1>13. ASSUME NEW c \in Client, RemoveDir(c) PROVE RecordsAreValid'
    BY <1>13 DEF RemoveDir, TempsIn
<1>14. ASSUME NEW c \in Client, ScanNames(c) PROVE RecordsAreValid'
    BY <1>14 DEF ScanNames
<1>15. ASSUME NEW c \in Client, ReadRecord(c) PROVE RecordsAreValid'
    BY <1>15 DEF ReadRecord
<1>16. ASSUME NEW c \in Client, Answer(c) PROVE RecordsAreValid'
    BY <1>16 DEF Answer
<1> QED
    BY <1>1, <1>2, <1>3, <1>4, <1>5, <1>6, <1>7, <1>8, <1>9, <1>10, <1>11, <1>12, <1>13, <1>14, <1>15, <1>16 DEF Next, Save, Delete, Load, List

\* Files come into being where the directory is; it goes when it is empty.
LEMMA DirsStep ==
    ASSUME TypeOK, StepShape, SaveShape, NothingOutsideDirs, Next
    PROVE  NothingOutsideDirs'
PROOF
<1> USE NoneIsNoValue, ValidIdIsId, SomeId DEF Goto, At, Of, TypeOK, StepShape, SaveShape, NothingOutsideDirs, Calls, Contents, Steps
<1>1. CASE Crash
    BY <1>1 DEF Crash, Store!Requests, Store!Ask, Store!Blank, Store!NoCall, Store!AnyId
<1>2. ASSUME NEW i \in ValidId, WriteSeed(i) PROVE NothingOutsideDirs'
    BY <1>2 DEF WriteSeed
<1>3. ASSUME NEW c \in Client, Call(c) PROVE NothingOutsideDirs'
    BY <1>3 DEF Call, Store!Requests, Store!Ask, Store!Blank, Store!NoCall, Store!AnyId
<1>4. ASSUME NEW c \in Client, Check(c) PROVE NothingOutsideDirs'
    BY <1>4 DEF Check, First
<1>5. ASSUME NEW c \in Client, Fail(c) PROVE NothingOutsideDirs'
    BY <1>5 DEF Fail
<1>6. ASSUME NEW c \in Client, Return(c) PROVE NothingOutsideDirs'
    BY <1>6 DEF Return, Store!Requests, Store!Ask, Store!Blank, Store!NoCall, Store!AnyId
<1>7. ASSUME NEW c \in Client, MakeDir(c) PROVE NothingOutsideDirs'
    BY <1>7 DEF MakeDir
<1>8. ASSUME NEW c \in Client, CreateTemp(c) PROVE NothingOutsideDirs'
    BY <1>8 DEF CreateTemp
<1>9. ASSUME NEW c \in Client, WriteTemp(c) PROVE NothingOutsideDirs'
    BY <1>9 DEF WriteTemp
<1>10. ASSUME NEW c \in Client, Rename(c) PROVE NothingOutsideDirs'
    BY <1>10 DEF Rename
<1>11. ASSUME NEW c \in Client, Discard(c) PROVE NothingOutsideDirs'
    BY <1>11 DEF Discard
<1>12. ASSUME NEW c \in Client, RemoveFile(c) PROVE NothingOutsideDirs'
    BY <1>12 DEF RemoveFile, TempsIn
<1>13. ASSUME NEW c \in Client, RemoveDir(c) PROVE NothingOutsideDirs'
    BY <1>13 DEF RemoveDir, TempsIn
<1>14. ASSUME NEW c \in Client, ScanNames(c) PROVE NothingOutsideDirs'
    BY <1>14 DEF ScanNames
<1>15. ASSUME NEW c \in Client, ReadRecord(c) PROVE NothingOutsideDirs'
    BY <1>15 DEF ReadRecord
<1>16. ASSUME NEW c \in Client, Answer(c) PROVE NothingOutsideDirs'
    BY <1>16 DEF Answer
<1> QED
    BY <1>1, <1>2, <1>3, <1>4, <1>5, <1>6, <1>7, <1>8, <1>9, <1>10, <1>11, <1>12, <1>13, <1>14, <1>15, <1>16 DEF Next, Save, Delete, Load, List

-----------------------------------------------------------------------------

\* Inductiveness of the conjunction.
THEOREM Inductive == Spec => []IInv
PROOF
<1>1. Init => IInv
    BY NoneIsNoValue, ValidIdIsId, SomeId
    DEF Init, IInv, TypeOK, StepShape, SaveShape, ListShape, RecordsAreValid, NothingOutsideDirs,
        Calls, Contents, Steps, Store!NoCall, Store!Ask, Store!Blank, Store!AnyId, Of
<1>2. IInv /\ [Next]_vars => IInv'
    <2> SUFFICES ASSUME IInv, [Next]_vars PROVE IInv'
        OBVIOUS
    <2>1. CASE Next
        BY <2>1, TypeStep, StepShapeStep, SaveShapeStep, ListShapeStep, RecordsStep, DirsStep DEF IInv
    <2>2. CASE UNCHANGED vars
        BY <2>2
        DEF vars, IInv, TypeOK, StepShape, SaveShape, ListShape, RecordsAreValid, NothingOutsideDirs, Of
    <2> QED
        BY <2>1, <2>2
<1> QED
    BY <1>1, <1>2, PTL DEF Spec

\* A directory is never taken away from under what it holds.
THEOREM DirsCorrect == Spec => []NothingOutsideDirs
PROOF
<1>1. IInv => NothingOutsideDirs
    BY DEF IInv
<1> QED
    BY <1>1, Inductive, PTL

\* A save that has ended has no temporary file.
THEOREM TempsCorrect == Spec => []NoTempLeftBehind
PROOF
<1>1. IInv => NoTempLeftBehind
    BY DEF IInv, SaveShape, NoTempLeftBehind
<1> QED
    BY <1>1, Inductive, PTL

-----------------------------------------------------------------------------
(* The refinement: each file operation is a step of the atomic store or none *)
(* that a caller could see.                                                  *)

LEMMA CallRefines ==
    ASSUME IInv, NEW c \in Client, Call(c) \/ Check(c) \/ Fail(c) \/ Return(c)
    PROVE  [Store!Next]_(Store!vars)
PROOF
<1> USE DEF IInv, TypeOK, Goto, At, Phase, Steps, Store!vars
<1>1. CASE Call(c)
    <2>1. Store!Call(c)
        BY <1>1 DEF Call, Store!Call
    <2> QED
        BY <2>1 DEF Store!Next
<1>2. CASE Check(c)
    <2>1. CASE step'[c] = "error"
        <3>1. Store!Fail(c)
            BY <1>2, <2>1 DEF Check, Store!Fail
        <3> QED
            BY <3>1 DEF Store!Next
    <2>2. CASE step'[c] # "error"
        <3>1. Phase(step'[c]) = "pending"
            BY <1>2, <2>2 DEF Check, First, StepShape, Calls
        <3> QED
            BY <1>2, <3>1 DEF Check
    <2> QED
        BY <2>1, <2>2
<1>3. CASE Fail(c)
    <2>1. CASE call[c].op = "Save"
        BY <1>3, <2>1 DEF Fail
    <2>2. CASE call[c].op # "Save"
        <3>1. Store!Fail(c)
            BY <1>3, <2>2 DEF Fail, Store!Fail
        <3> QED
            BY <3>1 DEF Store!Next
    <2> QED
        BY <2>1, <2>2
<1>4. CASE Return(c)
    <2>1. Store!Return(c)
        BY <1>4 DEF Return, Store!Return
    <2> QED
        BY <2>1 DEF Store!Next
<1> QED
    BY <1>1, <1>2, <1>3, <1>4

\* A save takes effect with its rename, and not at all when it fails before it.
LEMMA SaveRefines ==
    ASSUME IInv, NEW c \in Client, Save(c)
    PROVE  [Store!Next]_(Store!vars)
PROOF
<1> USE DEF IInv, TypeOK, Goto, At, Of, Phase, Steps, Store!vars
<1>1. CASE MakeDir(c)
    BY <1>1 DEF MakeDir
<1>2. CASE CreateTemp(c)
    BY <1>2 DEF CreateTemp
<1>3. CASE WriteTemp(c)
    BY <1>3 DEF WriteTemp
<1>4. CASE Rename(c)
    <2>1. Store!Put(c)
        BY <1>4 DEF Rename, StepShape, SaveShape, Calls, Store!Put, Store!Pending
    <2> QED
        BY <2>1 DEF Store!Next
<1>5. CASE Discard(c)
    <2>1. Store!Fail(c)
        BY <1>5 DEF Discard, Store!Fail
    <2> QED
        BY <2>1 DEF Store!Next
<1> QED
    BY <1>1, <1>2, <1>3, <1>4, <1>5 DEF Save

\* A removal takes effect with the record's file; it succeeds only where the record is gone.
LEMMA DeleteRefines ==
    ASSUME IInv, NEW c \in Client, Delete(c)
    PROVE  [Store!Next]_(Store!vars)
PROOF
<1> USE DEF IInv, TypeOK, Goto, At, Of, Phase, Steps, Store!vars
<1>1. Store!Pending(c, "Delete")
    <2>1. step[c] = "remove"
        BY DEF Delete, RemoveFile, RemoveDir
    <2> QED
        BY <2>1 DEF StepShape, Store!Pending
<1>2. CASE RemoveFile(c)
    <2>1. CASE file' = [file EXCEPT ![Of(c)] = None]
        <3>1. Store!Erase(c)
            BY <1>1, <1>2, <2>1 DEF RemoveFile, Store!Erase
        <3> QED
            BY <3>1 DEF Store!Next
    <2>2. CASE UNCHANGED file
        BY <1>2, <2>2 DEF RemoveFile
    <2> QED
        BY <1>2, <2>1, <2>2 DEF RemoveFile
<1>3. CASE RemoveDir(c)
    <2>1. Store!Erased(c)
        BY <1>1, <1>3 DEF RemoveDir, Store!Erased
    <2> QED
        BY <2>1 DEF Store!Next
<1> QED
    BY <1>2, <1>3 DEF Delete

\* Taking the names reads, at one moment, all the sandboxes that have no directory.
LEMMA ReadRefines ==
    ASSUME IInv, NEW c \in Client, Load(c) \/ List(c)
    PROVE  [Store!Next]_(Store!vars)
PROOF
<1> USE DEF IInv, TypeOK, Goto, At, Phase, Steps, Store!vars
<1>1. Store!Pending(c, "Load") \/ Store!Pending(c, "List")
    <2>1. step[c] \in {"scan", "read"}
        BY DEF Load, List, ReadRecord, Answer, ScanNames
    <2> QED
        BY <2>1 DEF StepShape, Store!Pending
<1>2. CASE ScanNames(c)
    <2> DEFINE S == Id \ (dirs \cap ValidId)
    <2>1. call[c].op = "List" /\ call[c].todo = Id /\ call[c].got = Store!Blank
        BY <1>2 DEF ScanNames, StepShape, ListShape, Calls
    <2>2. \A i \in S : file[i] = None
        BY DEF RecordsAreValid, NothingOutsideDirs
    <2>3. dirs \cap ValidId = Id \ S
        BY ValidIdIsId
    <2>4. call[c].got = [i \in Id |-> IF i \in S THEN file[i] ELSE call[c].got[i]]
        BY <2>1, <2>2 DEF Store!Blank
    <2>5. call' = [call EXCEPT ![c].todo = @ \ S,
                              ![c].got = [i \in Id |-> IF i \in S THEN file[i] ELSE call[c].got[i]]]
        <3> DEFINE r == [call[c] EXCEPT !.todo = dirs \cap ValidId]
        <3>1. call' = [call EXCEPT ![c] = r]
            BY <1>2 DEF ScanNames
        <3>2. call[c] \in Calls
            OBVIOUS
        <3>3. r = [r EXCEPT !.got = [i \in Id |-> IF i \in S THEN file[i] ELSE call[c].got[i]]]
            BY <2>4, <3>2 DEF Calls
        <3> QED
            BY <2>1, <2>3, <3>1, <3>2, <3>3
    <2>6. UNCHANGED <<file, [d \in Client |-> Phase(step[d])]>>
        BY <1>2 DEF ScanNames
    <2>7. Store!Read(c, S)
        BY <1>1, <2>1, <2>5, <2>6 DEF Store!Read
    <2> QED
        BY <2>7 DEF Store!Next
<1>3. CASE ReadRecord(c)
    <2>1. PICK i \in call[c].todo : call' = [call EXCEPT ![c].todo = @ \ {i}, ![c].got = [@ EXCEPT ![i] = file[i]]]
        BY <1>3 DEF ReadRecord
    <2>2. i \in Id
        BY <2>1 DEF Calls
    <2>3. [call[c].got EXCEPT ![i] = file[i]]
            = [j \in Id |-> IF j \in {i} THEN file[j] ELSE call[c].got[j]]
        BY DEF Calls
    <2>4. call' = [call EXCEPT ![c].todo = @ \ {i},
                              ![c].got = [j \in Id |-> IF j \in {i} THEN file[j] ELSE call[c].got[j]]]
        BY <2>1, <2>3
    <2>5. Store!Read(c, {i})
        BY <1>1, <1>3, <2>1, <2>4 DEF ReadRecord, Store!Read
    <2> QED
        BY <2>2, <2>5 DEF Store!Next
<1>4. CASE Answer(c)
    <2>1. Store!ReadAll(c)
        BY <1>1, <1>4 DEF Answer, Store!ReadAll
    <2> QED
        BY <2>1 DEF Store!Next
<1> QED
    BY <1>2, <1>3, <1>4 DEF Load, List

\* The store by file operations implements the atomic store.
THEOREM Refinement == Spec => ImplementsRecordStore
PROOF
<1>1. Init => Store!Init
    BY DEF Init, Store!Init, Phase
<1>2. IInv /\ [Next]_vars => [Store!Next]_(Store!vars)
    <2> SUFFICES ASSUME IInv, [Next]_vars PROVE [Store!Next]_(Store!vars)
        OBVIOUS
    <2>1. CASE Crash
        <3>1. Store!Crash
            BY <2>1 DEF Crash, Store!Crash, Phase
        <3> QED
            BY <3>1 DEF Store!Next
    <2>2. ASSUME NEW i \in ValidId, WriteSeed(i) PROVE [Store!Next]_(Store!vars)
        BY <2>2 DEF WriteSeed, Store!vars
    <2>3. ASSUME NEW c \in Client,
                 Call(c) \/ Check(c) \/ Fail(c) \/ Return(c) \/ Save(c) \/ Delete(c) \/ Load(c) \/ List(c)
          PROVE  [Store!Next]_(Store!vars)
        BY <2>3, CallRefines, SaveRefines, DeleteRefines, ReadRefines
    <2>4. CASE UNCHANGED vars
        BY <2>4 DEF vars, Store!vars
    <2> QED
        BY <2>1, <2>2, <2>3, <2>4 DEF Next
<1>3. Store!Init /\ [][Store!Next]_(Store!vars) => Store!Spec
    BY DEF Store!Spec
<1> QED
    BY <1>1, <1>2, <1>3, Inductive, PTL DEF Spec, ImplementsRecordStore
=============================================================================
