----------------------------- MODULE StateStore -----------------------------
(* The record store of internal/state, by file operations: a directory per   *)
(* sandbox that holds state.json, the temporary files of saves in progress   *)
(* and the sandbox's seed. Callers run concurrently, each file operation may *)
(* fail, and the process may be killed between any two.                      *)
(*                                                                           *)
(* A file's name is reduced to what it is for: state.json, the temporary     *)
(* file of a caller, or clutter, which is seed material and what a crash     *)
(* left behind.                                                              *)
EXTENDS Integers, FiniteSets

CONSTANTS
    Client,         \* callers: handlers, provisioning tasks, the poller, Bootstrap
    Id, ValidId,    \* what may be named, and what ValidID lets through
    Value, None     \* contents of a record, and no file

ASSUME NoneIsNoValue == None \notin Value
ASSUME ValidIdIsId == ValidId \subseteq Id
ASSUME SomeId == Id # {}

VARIABLES
    file,           \* file[i]: the contents of i's state.json
    dirs,           \* the directories under sandboxes/
    clutter,        \* directories that hold something else too
    temp,           \* temp[c]: the temporary file of caller c
    call,           \* call[c]: the operation of caller c and its locals
    step            \* step[c]: where it stands

vars == <<file, dirs, clutter, temp, call, step>>

\* What a caller can see of an operation, in the terms of RecordStore.
Phase(s) == IF s \in {"idle", "ok", "error"} THEN s ELSE "pending"

Store == INSTANCE RecordStore WITH
    record <- file, call <- call, state <- [c \in Client |-> Phase(step[c])]

Torn == "torn"                                  \* a file not completely written
Contents == Value \cup {None, Torn}

Calls == [op : {"none", "Save", "Delete", "Load", "List"}, id : Id, val : Value \cup {None},
          todo : SUBSET Id, got : [Id -> Value \cup {None}]]

\* The first step of each operation; the others follow in its actions.
First == [Save |-> "mkdir", Delete |-> "remove", Load |-> "read", List |-> "scan"]
Steps == {"idle", "check", "mkdir", "create", "write", "rename", "discard", "remove", "scan", "read", "ok", "error"}

Init ==
    /\ file = Store!Blank
    /\ dirs = {} /\ clutter = {}
    /\ temp = [c \in Client |-> None]
    /\ call = [c \in Client |-> Store!NoCall]
    /\ step = [c \in Client |-> "idle"]

Goto(c, s) == step' = [step EXCEPT ![c] = s]
At(c, s) == step[c] = s
Of(c) == call[c].id

Call(c) ==
    /\ At(c, "idle")
    /\ \E r \in Store!Requests : call' = [call EXCEPT ![c] = r]
    /\ Goto(c, "check")
    /\ UNCHANGED <<file, dirs, clutter, temp>>

\* An id that could lead out of the directory is refused before anything is touched.
Check(c) ==
    /\ At(c, "check")
    /\ Goto(c, IF call[c].op = "List" \/ Of(c) \in ValidId THEN First[call[c].op] ELSE "error")
    /\ UNCHANGED <<file, dirs, clutter, temp, call>>

\* Any file operation may fail; a save then removes its temporary file.
Fail(c) ==
    /\ step[c] \notin {"idle", "check", "discard", "ok", "error"}
    /\ Goto(c, IF call[c].op = "Save" THEN "discard" ELSE "error")
    /\ UNCHANGED <<file, dirs, clutter, temp, call>>

Return(c) ==
    /\ step[c] \in {"ok", "error"}
    /\ Goto(c, "idle")
    /\ call' = [call EXCEPT ![c] = Store!NoCall]
    /\ UNCHANGED <<file, dirs, clutter, temp>>

-----------------------------------------------------------------------------
(* Save: MkdirAll, CreateTemp, Write, Rename, and the deferred Remove.       *)

MakeDir(c) ==
    /\ At(c, "mkdir")
    /\ Goto(c, "create")
    /\ dirs' = dirs \cup {Of(c)}
    /\ UNCHANGED <<file, clutter, temp, call>>

CreateTemp(c) ==
    /\ At(c, "create")
    /\ Of(c) \in dirs
    /\ Goto(c, "write")
    /\ temp' = [temp EXCEPT ![c] = Torn]
    /\ UNCHANGED <<file, dirs, clutter, call>>

\* Defect: the rename does not wait for the contents.
WriteLater(c) ==
    /\ At(c, "write")
    /\ Goto(c, "rename")
    /\ UNCHANGED <<file, dirs, clutter, temp, call>>

\* A file that was removed in the meantime is written all the same, to no effect.
WriteTemp(c) ==
    /\ At(c, "write")
    /\ Goto(c, "rename")
    /\ temp' = [temp EXCEPT ![c] = IF @ = None THEN None ELSE call[c].val]
    /\ UNCHANGED <<file, dirs, clutter, call>>

Rename(c) ==
    /\ At(c, "rename")
    /\ temp[c] # None
    /\ Goto(c, "ok")
    /\ file' = [file EXCEPT ![Of(c)] = temp[c]]
    /\ temp' = [temp EXCEPT ![c] = None]
    /\ UNCHANGED <<dirs, clutter, call>>

\* Defect: a save that fails leaves its temporary file.
DiscardNothing(c) ==
    /\ At(c, "discard")
    /\ Goto(c, "error")
    /\ UNCHANGED <<file, dirs, clutter, temp, call>>

Discard(c) ==
    /\ At(c, "discard")
    /\ Goto(c, "error")
    /\ temp' = [temp EXCEPT ![c] = None]
    /\ UNCHANGED <<file, dirs, clutter, call>>

-----------------------------------------------------------------------------
(* Delete: RemoveAll removes the files in the order the directory lists      *)
(* them, then the directory, which fails if a save has put a file there.     *)

TempsIn(i) == {c \in Client : Of(c) = i /\ temp[c] # None}

RemoveFile(c) ==
    /\ At(c, "remove")
    /\ \/ /\ file' = [file EXCEPT ![Of(c)] = None]
          /\ UNCHANGED <<clutter, temp>>
       \/ /\ clutter' = clutter \ {Of(c)}
          /\ UNCHANGED <<file, temp>>
       \/ \E d \in TempsIn(Of(c)) :
             /\ temp' = [temp EXCEPT ![d] = None]
             /\ UNCHANGED <<file, clutter>>
    /\ UNCHANGED <<dirs, call, step>>

RemoveDir(c) ==
    /\ At(c, "remove")
    /\ file[Of(c)] = None
    /\ Of(c) \notin clutter
    /\ TempsIn(Of(c)) = {}
    /\ Goto(c, "ok")
    /\ dirs' = dirs \ {Of(c)}
    /\ UNCHANGED <<file, clutter, temp, call>>

-----------------------------------------------------------------------------
(* Load and List. List takes the directory's names first and reads the       *)
(* records one by one; a directory without a record is skipped.              *)

ScanNames(c) ==
    /\ At(c, "scan")
    /\ Goto(c, "read")
    /\ call' = [call EXCEPT ![c].todo = dirs \cap ValidId]
    /\ UNCHANGED <<file, dirs, clutter, temp>>

ReadRecord(c) ==
    /\ At(c, "read")
    /\ \E i \in call[c].todo :
          call' = [call EXCEPT ![c].todo = @ \ {i}, ![c].got = [@ EXCEPT ![i] = file[i]]]
    /\ UNCHANGED <<file, dirs, clutter, temp, step>>

Answer(c) ==
    /\ At(c, "read")
    /\ call[c].todo = {}
    /\ Goto(c, "ok")
    /\ UNCHANGED <<file, dirs, clutter, temp, call>>

-----------------------------------------------------------------------------
(* Around the store: the seed is written below the sandbox's directory,      *)
(* which it creates when it is missing, and the process may be killed.       *)

WriteSeed(i) ==
    /\ dirs' = dirs \cup {i}
    /\ clutter' = clutter \cup {i}
    /\ UNCHANGED <<file, temp, call, step>>

Crash ==
    /\ step' = [c \in Client |-> "idle"]
    /\ temp' = [c \in Client |-> None]
    /\ clutter' = clutter \cup {Of(c) : c \in {d \in Client : temp[d] # None}}
    /\ call' = [c \in Client |-> Store!NoCall]
    /\ UNCHANGED <<file, dirs>>

-----------------------------------------------------------------------------

Save(c) == MakeDir(c) \/ CreateTemp(c) \/ WriteTemp(c) \/ Rename(c) \/ Discard(c)
Delete(c) == RemoveFile(c) \/ RemoveDir(c)
Load(c) == ReadRecord(c) \/ Answer(c)
List(c) == ScanNames(c)

Next ==
    \/ Crash
    \/ \E i \in ValidId : WriteSeed(i)
    \/ \E c \in Client :
          Call(c) \/ Check(c) \/ Fail(c) \/ Return(c) \/ Save(c) \/ Delete(c) \/ Load(c) \/ List(c)

Spec == Init /\ [][Next]_vars

-----------------------------------------------------------------------------

TypeOK ==
    /\ file \in [Id -> Value \cup {None}]
    /\ dirs \subseteq Id /\ clutter \subseteq Id
    /\ temp \in [Client -> Contents]
    /\ call \in [Client -> Calls]
    /\ step \in [Client -> Steps]

\* The files implement the atomic store: no reader and no successor of a killed process ever
\* meets half a record or an older one come back, and a listing returns, of every sandbox, a
\* record it had between call and answer, though saves and removals go on meanwhile.
ImplementsRecordStore == Store!Spec

\* A save that ended, well or not, has left no temporary file behind (the deferred Remove);
\* only a kill leaves one, and then the sandbox's removal takes it along.
NoTempLeftBehind == \A c \in Client : step[c] \in {"idle", "ok", "error"} => temp[c] = None

\* The entries of a directory are where the directory is: a removal never takes a directory
\* away from under the record or the temporary file of a save in progress.
NothingOutsideDirs ==
    /\ clutter \cup {i \in Id : file[i] # None} \subseteq dirs
    /\ \A c \in Client : temp[c] # None => Of(c) \in dirs
=============================================================================
