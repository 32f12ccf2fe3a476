------------------------------ MODULE Extractor ------------------------------
(* The supervisor binary's way into a sandbox: Ensure takes it out of an     *)
(* image by way of a short-lived container and caches it, Write copies it    *)
(* into the sandbox's seed, and the VM boots from that (internal/seed and    *)
(* provisionInner). Creates of one process share the extractor's mutex;      *)
(* processes share cache and containers. A process may be killed, and one    *)
(* that starts sweeps the containers that have no record, which extraction   *)
(* containers never have.                                                    *)
(*                                                                           *)
(* A file is reduced to the digest of the image its contents came from.      *)
EXTENDS Integers, FiniteSets

CONSTANTS
    Process,            \* instances of the driver, each started once
    Task, ProcessOf,    \* creates, and the process each belongs to
    Matched, Pinned,    \* the supervisor image that matches the gateway, and the fallback
    Explicit,           \* did the operator name the image?
    Digest,             \* what a tag may point to in the registry
    Elf,                \* the digests whose supervisor is a Linux binary
    Published,          \* Published[r]: the digests tag r may point to
    None

Ref == {Matched, Pinned}

ASSUME TasksBelong == ProcessOf \in [Task -> Process]
ASSUME PublishedDigests == Published \in [Ref -> SUBSET Digest]
ASSUME ExplicitIsBoolean == Explicit \in BOOLEAN
ASSUME NoneIsNothing == None \notin Digest \cup Task \cup Process
ASSUME BinariesAreImages == Elf \subseteq Digest

VARIABLES
    phase,          \* phase[p]: "off", "list", "sweep", "up" or "dead"
    listed,         \* listed[p]: the containers Bootstrap of p is still to remove
    spared,         \* history: the containers that p, alone, has failed to remove
    alone,          \* history: processes that have had the host to themselves
    lock,           \* lock[p]: the task that holds p's extractor, or None
    image,          \* image[r]: the digest of the local image of tag r, or None
    cache,          \* cache[r, d]: the cached binary under tag r and digest d
    filler,         \* history: filler[r, d]: the process that put it there
    box,            \* box[t]: the image that t's extraction container runs, or None
    part,           \* part[t]: t's partial file in the cache directory
    seed,           \* seed[t]: the supervisor in the seed of t's sandbox
    task            \* task[t]: where t stands, with its image, digest and error

vars == <<phase, listed, spared, alone, lock, image, cache, filler, box, part, seed, task>>
host == <<phase, listed, spared, alone>>
files == <<cache, filler, part, seed>>

Torn == "torn"                              \* a file that is not complete
Contents == Digest \cup {None, Torn}

Holding == {"recheck", "run", "copy", "install", "close"}
Stages == {"image", "stat", "lock", "seed", "booted", "failed", "killed"} \cup Holding

Init ==
    /\ phase = [p \in Process |-> "off"]
    /\ listed = [p \in Process |-> {}]
    /\ spared = [p \in Process |-> {}]
    /\ alone = {}
    /\ lock = [p \in Process |-> None]
    /\ image = [r \in Ref |-> None]
    /\ cache = [k \in Ref \X Digest |-> None]
    /\ filler = [k \in Ref \X Digest |-> None]
    /\ box = [t \in Task |-> None]
    /\ part = [t \in Task |-> None]
    /\ seed = [t \in Task |-> None]
    /\ task = [t \in Task |-> [pc |-> "image", ref |-> Matched, digest |-> None, err |-> FALSE]]

Up(p) == phase[p] = "up"
At(t, pc) == task[t].pc = pc /\ Up(ProcessOf[t])
Goto(t, pc) == task' = [task EXCEPT ![t].pc = pc]
Key(t) == <<task[t].ref, task[t].digest>>

\* The task has failed, and goes on to what is deferred.
Err(t, pc) == task' = [task EXCEPT ![t].pc = pc, ![t].err = TRUE]

\* A task that is over is forgotten but for how it ended.
End(pc) == [pc |-> pc, ref |-> Matched, digest |-> None, err |-> FALSE]

\* Ensure has failed: the pinned release is tried once, unless the operator chose the image.
Fallback(t) ==
    task' = [task EXCEPT ![t] =
                IF @.ref = Matched /\ ~Explicit
                THEN [pc |-> "image", ref |-> Pinned, digest |-> None, err |-> FALSE]
                ELSE End("failed")]

\* Ensure returns and with that unlocks.
Leave(t, failed) ==
    /\ lock' = [lock EXCEPT ![ProcessOf[t]] = None]
    /\ IF failed THEN Fallback(t) ELSE Goto(t, "seed")

-----------------------------------------------------------------------------
(* Ensure: the image, the look without the lock, the lock, the second look.  *)
(* The steps are commands and whatever else others could see in between.     *)

\* The image is pulled unless it is there; from here on the cache's key is fixed.
EnsureImage(t) ==
    /\ At(t, "image")
    /\ \/ /\ \E d \in IF image[task[t].ref] = None THEN Published[task[t].ref] ELSE {image[task[t].ref]} :
                /\ image' = [image EXCEPT ![task[t].ref] = d]
                /\ task' = [task EXCEPT ![t].pc = "stat", ![t].digest = d]
       \/ Fallback(t) /\ UNCHANGED image
    /\ UNCHANGED <<host, lock, files, box>>

StatCache(t) ==
    /\ At(t, "stat")
    /\ Goto(t, IF cache[Key(t)] # None THEN "seed" ELSE "lock")
    /\ UNCHANGED <<host, lock, image, files, box>>

Lock(t) ==
    /\ At(t, "lock")
    /\ lock[ProcessOf[t]] = None
    /\ lock' = [lock EXCEPT ![ProcessOf[t]] = t]
    /\ Goto(t, "recheck")
    /\ UNCHANGED <<host, image, files, box>>

\* Defect: the cache is not looked at again under the lock.
RecheckNot(t) ==
    /\ At(t, "recheck")
    /\ Goto(t, "run")
    /\ UNCHANGED <<host, lock, image, files, box>>

Recheck(t) ==
    /\ At(t, "recheck")
    /\ \/ cache[Key(t)] # None /\ Leave(t, FALSE)
       \/ cache[Key(t)] = None /\ Goto(t, "run") /\ UNCHANGED lock
       \/ cache[Key(t)] = None /\ Leave(t, TRUE)              \* the directory cannot be made
    /\ UNCHANGED <<host, image, files, box>>

\* The container is started from the tag, whatever that points to by now. A command that
\* fails may leave a container, which nobody removes.
RunContainer(t) ==
    /\ At(t, "run")
    /\ \/ box' = [box EXCEPT ![t] = image[task[t].ref]] /\ Goto(t, "copy") /\ UNCHANGED lock
       \/ box' \in {box, [box EXCEPT ![t] = image[task[t].ref]]} /\ Leave(t, TRUE)
    /\ UNCHANGED <<host, image, files>>

\* The copy fails when the container is gone; a copy that fails may leave a torn file, whose
\* removal is deferred only after this.
CopyFrom(t) ==
    /\ At(t, "copy")
    /\ \/ /\ box[t] # None
          /\ part' = [part EXCEPT ![t] = box[t]]
          /\ Goto(t, "install")
       \/ /\ \E c \in {None, Torn} : part' = [part EXCEPT ![t] = c]
          /\ Err(t, "close")
    /\ UNCHANGED <<host, lock, image, cache, filler, seed, box>>

\* Defect: whatever could be copied is taken for a binary.
ValidAlways(c) == c # None

\* validateELF
Valid(c) == c \in Elf

\* Chmod and rename of a valid binary, any of which may fail; the partial file goes away.
Install(t) ==
    /\ At(t, "install")
    /\ \/ /\ Valid(part[t])
          /\ cache' = [cache EXCEPT ![Key(t)] = part[t]]
          /\ filler' = [filler EXCEPT ![Key(t)] = ProcessOf[t]]
          /\ Goto(t, "close")
       \/ Err(t, "close") /\ UNCHANGED <<cache, filler>>
    /\ part' = [part EXCEPT ![t] = None]
    /\ UNCHANGED <<host, lock, image, seed, box>>

\* The container is removed whether or not the context is canceled; a failure is only logged.
Close(t) ==
    /\ At(t, "close")
    /\ box' \in {box, [box EXCEPT ![t] = None]}
    /\ Leave(t, task[t].err)
    /\ UNCHANGED <<host, image, files>>

-----------------------------------------------------------------------------

\* Write, and the boot of the VM if nothing failed.
WriteSeed(t) ==
    /\ At(t, "seed")
    /\ \/ seed' = [seed EXCEPT ![t] = cache[Key(t)]] /\ task' = [task EXCEPT ![t] = End("booted")]
       \/ (\E c \in {None, Torn} : seed' = [seed EXCEPT ![t] = c]) /\ task' = [task EXCEPT ![t] = End("failed")]
    /\ UNCHANGED <<host, lock, image, cache, filler, part, box>>

-----------------------------------------------------------------------------
(* Processes, and a tag that somebody moves.                                 *)

Running(p) == phase[p] \in {"list", "sweep", "up"}

Start(p) ==
    /\ phase[p] = "off"
    /\ phase' = [phase EXCEPT ![p] = "list"]
    /\ alone' = {q \in {p} : \A r \in Process \ {p} : ~Running(r)}
    /\ UNCHANGED <<listed, spared, lock, image, files, box, task>>

ListContainers(p) ==
    /\ phase[p] = "list"
    /\ phase' = [phase EXCEPT ![p] = "sweep"]
    /\ listed' = [listed EXCEPT ![p] = {t \in Task : box[t] # None}]
    /\ UNCHANGED <<spared, alone, lock, image, files, box, task>>

\* Defect: containers without the label of a sandbox are spared.
SweepNothing(p) ==
    /\ phase[p] = "sweep"
    /\ phase' = [phase EXCEPT ![p] = "up"]
    /\ listed' = [listed EXCEPT ![p] = {}]
    /\ UNCHANGED <<spared, alone, lock, image, files, box, task>>

\* The listed containers are removed one by one; a failure is only logged, and one that
\* has removed the container all the same is like a success.
Sweep(p) ==
    /\ phase[p] = "sweep"
    /\ \/ /\ listed[p] = {}
          /\ phase' = [phase EXCEPT ![p] = "up"]
          /\ UNCHANGED <<listed, spared, box>>
       \/ \E t \in listed[p] :
             /\ listed' = [listed EXCEPT ![p] = @ \ {t}]
             /\ \/ box' = [box EXCEPT ![t] = None] /\ UNCHANGED spared
                \/ /\ spared' = IF p \in alone THEN [spared EXCEPT ![p] = @ \cup {t}] ELSE spared
                   /\ UNCHANGED box
             /\ UNCHANGED phase
    /\ UNCHANGED <<alone, lock, image, files, task>>

Kill(p) ==
    /\ Running(p)
    /\ phase' = [phase EXCEPT ![p] = "dead"]
    /\ lock' = [lock EXCEPT ![p] = None]
    /\ task' = [t \in Task |-> IF ProcessOf[t] = p THEN End("killed") ELSE task[t]]
    /\ listed' = [listed EXCEPT ![p] = {}]
    /\ spared' = [spared EXCEPT ![p] = {}]
    /\ UNCHANGED <<alone, image, files, box>>

MoveTag(r) ==
    /\ image[r] # None
    /\ \E d \in Published[r] : image' = [image EXCEPT ![r] = d]
    /\ UNCHANGED <<host, lock, files, box, task>>

-----------------------------------------------------------------------------

Locked(t) == Recheck(t) \/ RunContainer(t) \/ CopyFrom(t) \/ Install(t) \/ Close(t)
Create(t) == EnsureImage(t) \/ StatCache(t) \/ Lock(t) \/ Locked(t) \/ WriteSeed(t)

Next ==
    \/ \E p \in Process : Start(p) \/ ListContainers(p) \/ Sweep(p) \/ Kill(p)
    \/ \E t \in Task : Create(t)
    \/ \E r \in Ref : MoveTag(r)

Spec == Init /\ [][Next]_vars

-----------------------------------------------------------------------------

TypeOK ==
    /\ phase \in [Process -> {"off", "list", "sweep", "up", "dead"}]
    /\ listed \in [Process -> SUBSET Task]
    /\ spared \in [Process -> SUBSET Task]
    /\ alone \subseteq Process
    /\ lock \in [Process -> Task \cup {None}]
    /\ image \in [Ref -> Digest \cup {None}]
    /\ cache \in [Ref \X Digest -> Contents]
    /\ filler \in [Ref \X Digest -> Process \cup {None}]
    /\ box \in [Task -> Contents] /\ part \in [Task -> Contents] /\ seed \in [Task -> Contents]
    /\ task \in [Task -> [pc : Stages, ref : Ref, digest : Digest \cup {None}, err : BOOLEAN]]

\* What is cached is a complete binary, and so is what a sandbox boots, whoever else extracts,
\* is killed or has its container swept away at the same time.
OnlyWholeBinaries ==
    /\ \A k \in Ref \X Digest : cache[k] \in Elf \cup {None}
    /\ \A t \in Task : task[t].pc = "booted" => seed[t] \in Elf

\* A task that extracts, extracts what no task of its process has cached yet: creates that
\* arrive together with a cold cache cause one extraction (the mutex and the second look).
ExtractedOnce ==
    \A t \in Task :
        /\ task[t].pc \in Holding => lock[ProcessOf[t]] = t
        /\ task[t].pc \in {"run", "copy", "install"} => filler[Key(t)] # ProcessOf[t]

\* Once a process alone on the host has started, the containers there are its own: those a
\* killed process or a command that failed has left are gone, but for those that it tried to
\* remove and could not.
LeaksAreReclaimed ==
    \A p \in alone : Up(p) =>
        \A t \in Task : box[t] # None => ProcessOf[t] = p \/ t \in spared[p]
=============================================================================
