---------------------------- MODULE RecordStore ----------------------------
(* What the store of internal/state promises its callers: one record per     *)
(* sandbox, each save and each removal takes effect at one moment between    *)
(* call and answer, or, when it fails, not at all (a removal that fails may  *)
(* have taken effect), and a crash loses calls and never a record.           *)
EXTENDS Integers, FiniteSets

CONSTANTS Client, Id, Value, None

VARIABLES
    record,         \* record[i]: the record of sandbox i, or None
    call,           \* call[c]: the operation of caller c, with what a reader has got so far
    state           \* state[c]: "idle", "pending", "ok" or "error"

vars == <<record, call, state>>

Blank == [i \in Id |-> None]
AnyId == CHOOSE i \in Id : TRUE                 \* where an operation is not about one sandbox

Ask(op, i, v) == [op |-> op, id |-> i, val |-> v, got |-> Blank,
                  todo |-> IF op = "List" THEN Id ELSE {i}]
NoCall == Ask("none", AnyId, None)
Requests ==
    {Ask("Save", i, v) : i \in Id, v \in Value}
        \cup {Ask(op, i, None) : op \in {"Delete", "Load"}, i \in Id}
        \cup {Ask("List", AnyId, None)}

Init ==
    /\ record = Blank
    /\ call = [c \in Client |-> NoCall]
    /\ state = [c \in Client |-> "idle"]

Call(c) ==
    /\ state[c] = "idle"
    /\ \E r \in Requests : call' = [call EXCEPT ![c] = r]
    /\ state' = [state EXCEPT ![c] = "pending"]
    /\ UNCHANGED record

Pending(c, op) == state[c] = "pending" /\ call[c].op = op

Put(c) ==
    /\ Pending(c, "Save")
    /\ record' = [record EXCEPT ![call[c].id] = call[c].val]
    /\ state' = [state EXCEPT ![c] = "ok"]
    /\ UNCHANGED call

Erase(c) ==
    /\ Pending(c, "Delete")
    /\ record' = [record EXCEPT ![call[c].id] = None]
    /\ UNCHANGED <<call, state>>

Erased(c) ==
    /\ Pending(c, "Delete")
    /\ record[call[c].id] = None
    /\ state' = [state EXCEPT ![c] = "ok"]
    /\ UNCHANGED <<record, call>>

\* A reader takes some of the records it has still to read, all at one moment.
Read(c, S) ==
    /\ Pending(c, "Load") \/ Pending(c, "List")
    /\ S \subseteq call[c].todo
    /\ call' = [call EXCEPT ![c].todo = @ \ S,
                            ![c].got = [i \in Id |-> IF i \in S THEN record[i] ELSE call[c].got[i]]]
    /\ UNCHANGED <<record, state>>

ReadAll(c) ==
    /\ Pending(c, "Load") \/ Pending(c, "List")
    /\ call[c].todo = {}
    /\ state' = [state EXCEPT ![c] = "ok"]
    /\ UNCHANGED <<record, call>>

Fail(c) ==
    /\ state[c] = "pending"
    /\ state' = [state EXCEPT ![c] = "error"]
    /\ UNCHANGED <<record, call>>

Return(c) ==
    /\ state[c] \in {"ok", "error"}
    /\ state' = [state EXCEPT ![c] = "idle"]
    /\ call' = [call EXCEPT ![c] = NoCall]
    /\ UNCHANGED record

Crash ==
    /\ state' = [c \in Client |-> "idle"]
    /\ call' = [c \in Client |-> NoCall]
    /\ UNCHANGED record

Next ==
    \/ Crash
    \/ \E c \in Client :
          \/ Call(c) \/ Put(c) \/ Erase(c) \/ Erased(c) \/ ReadAll(c) \/ Fail(c) \/ Return(c)
          \/ \E S \in SUBSET Id : Read(c, S)

Spec == Init /\ [][Next]_vars
=============================================================================
