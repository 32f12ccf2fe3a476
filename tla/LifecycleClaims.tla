-------------------------- MODULE LifecycleClaims --------------------------
(***************************************************************************)
(* What the repository's documents, comments and tests say of the          *)
(* lifecycle plane and its code does not keep in every interleaving.  Each *)
(* is checked alone, in a run that admits only the faults it needs.        *)
(***************************************************************************)
EXTENDS Lifecycle

\* No handler is in flight and the poller is between two ticks.
Quiet == mode = "serving" /\ poll.pc = "idle" /\ \A c \in Calls : call[c].pc = "idle"

\* docs/architecture.md: a stopped sandbox never reads as Error.  Where no VM
\* stops but by StopSandbox, none is reported as exited on its own.
StoppedNeverReadsExited ==
  \A i \in registered : cond[i] # "ContainerExited"

\* lifecycle.go, setStopped: the intent on disk is the intent in memory, "so a
\* driver restart keeps reporting a stopped VM as stopped".
IntentPersisted ==
  Quiet => \A i \in registered :
             ~Is(i, "deleting") => disk[i] = RecordOf(i)

\* docs/architecture.md: a delete ends with VM and record removed.  No record is
\* left of a sandbox whose delete was answered.
DeletedLeavesNoRecord ==
  Quiet => \A i \in Ids : row[i] = "gone" => disk[i] = "none"

\* create.go, DeleteSandbox: a delete "must not leave the sandbox half-removed";
\* where no command fails, an entry being deleted has a delete at work on it.
NoDeleteIsHalfDone ==
  \A i \in registered : Is(i, "deleting") =>
    \E c \in Calls : call[c].op = "delete" /\ call[c].target = i

\* create.go, DeleteSandbox: a delete racing a create "cancels provisioning first,
\* then removes whatever was already built"; once answered, no VM is left.
RacingDeleteWins ==
  Quiet => \A i \in Ids : row[i] = "gone" => vm[i] = "absent"

\* service.go, Close: it "cancels background provisioning and waits for tasks to
\* finish".  seed.go removes an extraction container outside of that context and
\* without a timeout: where `container delete` hangs, so does the driver.
CloseReturns == mode = "closing" ~> mode = "down"
=============================================================================
