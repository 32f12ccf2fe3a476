-------------------------- MODULE SandboxContract --------------------------
(***************************************************************************)
(* What the driver promises of a sandbox, whatever interleaves, fails or   *)
(* crashes.  Its VM is made once, by its create, while there is a record   *)
(* of it.  A VM with a record is taken away only while a delete is at      *)
(* work, unless the user does it.  The record goes only after the VM, and  *)
(* also only while a delete is at work.  A delete is answered only after   *)
(* the VM is gone, and after that there is none again.                     *)
(***************************************************************************)
CONSTANTS
  Ids,          \* the sandboxes
  LostRecords,  \* those that have a VM at first, and no record
  Meddling      \* whether VMs may change without the driver

VARIABLES
  phase,   \* phase[i]: "new", "creating", "settled" or "gone"
  kept,    \* the sandboxes that have a record
  vm,      \* vm[i]: "absent", "running" or "stopped"
  asked    \* the sandboxes at which a delete is at work

vars == <<phase, kept, vm, asked>>

Init ==
  /\ phase = [i \in Ids |-> IF i \in LostRecords THEN "settled" ELSE "new"]
  /\ kept = {}
  /\ vm \in [Ids -> {"absent", "running", "stopped"}]
  /\ \A i \in Ids : vm[i] = "absent" <=> i \notin LostRecords
  /\ asked = {}

Accept(i) ==
  /\ phase[i] = "new"
  /\ phase' = [phase EXCEPT ![i] = "creating"]
  /\ kept' = kept \cup {i}
  /\ UNCHANGED <<vm, asked>>

\* The one step that makes a VM: it may be found stopped at once.
Boot(i) ==
  /\ phase[i] = "creating"
  /\ i \in kept
  /\ vm[i] = "absent"
  /\ phase' = [phase EXCEPT ![i] = "settled"]
  /\ \E s \in {"running", "stopped"} : vm' = [vm EXCEPT ![i] = s]
  /\ UNCHANGED <<kept, asked>>

GiveUp(i) ==
  /\ phase[i] = "creating"
  /\ phase' = [phase EXCEPT ![i] = "settled"]
  /\ UNCHANGED <<kept, vm, asked>>

\* By the driver or without it, a VM is switched on and off.
Switch(i) ==
  /\ phase[i] = "settled"
  /\ \E s, t \in {"running", "stopped"} :
       vm[i] = s /\ vm' = [vm EXCEPT ![i] = t]
  /\ UNCHANGED <<phase, kept, asked>>

Ask(i) ==
  /\ phase[i] \in {"creating", "settled"}
  /\ asked' = asked \cup {i}
  /\ UNCHANGED <<phase, kept, vm>>

\* A delete fails, with or without what it was about to do; another may go on.
MayDesist(i) == asked' = asked \/ asked' = asked \ {i}

Desist(i) == MayDesist(i) /\ UNCHANGED <<phase, kept, vm>>

Remove(i) ==
  /\ phase[i] = "settled"
  /\ vm[i] # "absent"
  /\ i \in asked \/ i \notin kept \/ Meddling
  /\ vm' = [vm EXCEPT ![i] = "absent"]
  /\ MayDesist(i)
  /\ UNCHANGED <<phase, kept>>

Forget(i) ==
  /\ phase[i] \in {"settled", "gone"}
  /\ vm[i] = "absent"
  /\ i \in asked
  /\ kept' = kept \ {i}
  /\ MayDesist(i)
  /\ UNCHANGED <<phase, vm>>

\* A save that a delete has overtaken brings the record back, never the VM.
Recall(i) ==
  /\ phase[i] \in {"settled", "gone"}
  /\ vm[i] = "absent"
  /\ kept' = kept \cup {i}
  /\ UNCHANGED <<phase, vm, asked>>

Answer(i) ==
  /\ phase[i] = "settled"
  /\ vm[i] = "absent"
  /\ i \in asked
  /\ phase' = [phase EXCEPT ![i] = "gone"]
  /\ MayDesist(i)
  /\ UNCHANGED <<kept, vm>>

\* The driver goes, and with it what it was doing; records and VMs stay.
Restart ==
  /\ phase' = [i \in Ids |-> IF phase[i] = "creating" THEN "settled" ELSE phase[i]]
  /\ asked' = {}
  /\ UNCHANGED <<kept, vm>>

Next ==
  \/ Restart
  \/ \E i \in Ids : \/ Accept(i) \/ Boot(i) \/ GiveUp(i) \/ Switch(i)
                    \/ Ask(i) \/ Desist(i) \/ Remove(i) \/ Forget(i)
                    \/ Recall(i) \/ Answer(i)

Spec == Init /\ [][Next]_vars
=============================================================================
