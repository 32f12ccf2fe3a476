--------------------------- MODULE ExtractorProofs ---------------------------
(* Theorems about Extractor, for any number of processes, creates and images *)
(* that may be published under the two tags.                                 *)
EXTENDS Extractor, TLAPS

-----------------------------------------------------------------------------
(* The inductive invariant.                                                  *)

States == [pc : Stages, ref : Ref, digest : Digest \cup {None}, err : BOOLEAN]

\* A create between the look at the image and its end knows the digest.
Keyed ==
    \A t \in Task :
        task[t].pc \in {"stat", "lock", "seed"} \cup Holding => task[t].digest \in Digest

\* A create at its seed has found its binary; one that closes without an error has put it there.
Found ==
    \A t \in Task :
        task[t].pc = "seed" \/ (task[t].pc = "close" /\ ~task[t].err) => cache[Key(t)] # None

\* Whatever is not cached was never put there.
Filled == \A k \in Ref \X Digest : cache[k] = None => filler[k] = None

\* A process that is alone is the only one, and its sweep works on all the containers there are.
Alone ==
    \A p \in alone :
        /\ Running(p) => \A q \in Process \ {p} : ~Running(q)
        /\ phase[p] = "sweep" =>
              \A t \in Task : box[t] # None => t \in listed[p] \cup spared[p]

IInv ==
    /\ TypeOK /\ Keyed /\ Found /\ Filled /\ Alone
    /\ OnlyWholeBinaries /\ ExtractedOnce /\ LeaksAreReclaimed

-----------------------------------------------------------------------------
(* What the helpers of the actions do to the creates.                        *)

Others(t) == \A u \in Task \ {t} : task'[u] = task[u]
SameKey(t) == task'[t].ref = task[t].ref /\ task'[t].digest = task[t].digest

\* Goto moves one create and changes nothing else of it.
LEMMA GotoEffect ==
    ASSUME task \in [Task -> States], NEW t \in Task, NEW pc \in Stages, Goto(t, pc)
    PROVE  /\ task' \in [Task -> States] /\ Others(t) /\ SameKey(t)
           /\ task'[t].pc = pc /\ task'[t].err = task[t].err
PROOF
  BY DEF Goto, States, Others, SameKey

\* Err moves one create to a stage with its error set.
LEMMA ErrEffect ==
    ASSUME task \in [Task -> States], NEW t \in Task, NEW pc \in Stages, Err(t, pc)
    PROVE  /\ task' \in [Task -> States] /\ Others(t) /\ SameKey(t)
           /\ task'[t].pc = pc /\ task'[t].err = TRUE
PROOF
  BY DEF Err, States, Others, SameKey

\* The state a create ends in is well-typed.
LEMMA EndTyped == ASSUME NEW pc \in Stages PROVE End(pc) \in States /\ End(pc).pc = pc
PROOF
  BY DEF End, States, Ref

\* A create that ends leaves the others alone.
LEMMA EndEffect ==
    ASSUME task \in [Task -> States], NEW t \in Task, NEW pc \in Stages,
           task' = [task EXCEPT ![t] = End(pc)]
    PROVE  task' \in [Task -> States] /\ Others(t) /\ task'[t].pc = pc
PROOF
  BY EndTyped DEF Others

\* A failed Ensure has the create look for the pinned image or fail.
LEMMA FallbackEffect ==
    ASSUME task \in [Task -> States], NEW t \in Task, Fallback(t)
    PROVE  task' \in [Task -> States] /\ Others(t) /\ task'[t].pc \in {"image", "failed"}
PROOF
<1> DEFINE again == [pc |-> "image", ref |-> Pinned, digest |-> None, err |-> FALSE]
<1>1. again \in States /\ End("failed") \in States /\ End("failed").pc = "failed"
    BY EndTyped DEF States, Stages, Ref
<1>2. task'[t] \in {again, End("failed")} /\ Others(t)
    BY DEF Fallback, Others
<1>3. task' \in [Task -> States]
    <2>1. task' = [task EXCEPT ![t] = IF @.ref = Matched /\ ~Explicit THEN again ELSE End("failed")]
        BY DEF Fallback
    <2>2. QED
        BY <1>1, <2>1
<1>4. QED
    BY <1>1, <1>2, <1>3

\* A create that leaves the critical section releases the mutex of its process and no other.
LEMMA LeaveEffect ==
    ASSUME task \in [Task -> States], lock \in [Process -> Task \cup {None}],
           NEW t \in Task, NEW failed \in BOOLEAN, Leave(t, failed)
    PROVE  /\ task' \in [Task -> States] /\ Others(t)
           /\ failed => task'[t].pc \in {"image", "failed"}
           /\ ~failed => task'[t].pc = "seed" /\ SameKey(t)
           /\ lock' \in [Process -> Task \cup {None}]
           /\ lock'[ProcessOf[t]] = None
           /\ \A p \in Process \ {ProcessOf[t]} : lock'[p] = lock[p]
PROOF
<1>1. CASE failed
    BY <1>1, FallbackEffect, TasksBelong DEF Leave
<1>2. CASE ~failed
    <2>1. "seed" \in Stages
        BY DEF Stages
    <2>2. QED
        BY <1>2, <2>1, GotoEffect, TasksBelong DEF Leave
<1>3. QED
    BY <1>1, <1>2

\* The stages, spelled out.
LEMMA StageNames ==
    Stages = {"image", "stat", "lock", "seed", "booted", "failed", "killed",
              "recheck", "run", "copy", "install", "close"}
PROOF
  BY DEF Stages, Holding

\* A create in its stages knows its key.
LEMMA KeyKnown ==
    ASSUME TypeOK, Keyed, NEW u \in Task, task[u].pc \in {"stat", "lock", "seed"} \cup Holding
    PROVE  Key(u) \in Ref \X Digest
PROOF
  BY DEF TypeOK, Keyed, Key

\* The other creates keep what they have found while the cache keeps what it has.
LEMMA FoundKept ==
    ASSUME TypeOK, Keyed, Found, NEW t \in Task, Others(t),
           \A k \in Ref \X Digest : cache[k] # None => cache'[k] # None,
           task'[t].pc = "seed" \/ (task'[t].pc = "close" /\ ~task'[t].err) => cache'[Key(t)'] # None
    PROVE  Found'
PROOF
<1> SUFFICES ASSUME NEW u \in Task, task'[u].pc = "seed" \/ (task'[u].pc = "close" /\ ~task'[u].err)
             PROVE  cache'[Key(u)'] # None
    BY DEF Found
<1>1. CASE u # t
    <2>1. task'[u] = task[u] /\ Key(u)' = Key(u)
        BY <1>1 DEF Others, Key
    <2>2. Key(u) \in Ref \X Digest
        BY <2>1, KeyKnown DEF Holding
    <2>3. cache[Key(u)] # None
        BY <2>1 DEF Found
    <2>4. QED
        BY <2>1, <2>2, <2>3
<1>2. QED
    BY <1>1

\* A step of one create leaves the others with the lock and the key they hold.
LEMMA OnceKept ==
    ASSUME TypeOK, Keyed, ExtractedOnce, NEW t \in Task, Others(t),
           \A p \in Process \ {ProcessOf[t]} : lock'[p] = lock[p],
           lock'[ProcessOf[t]] = lock[ProcessOf[t]] \/ lock[ProcessOf[t]] \in {t, None},
           \A k \in Ref \X Digest :
               filler'[k] = filler[k] \/ (filler'[k] = ProcessOf[t] /\ lock[ProcessOf[t]] = t),
           task'[t].pc \in Holding => lock'[ProcessOf[t]] = t,
           task'[t].pc \in {"run", "copy", "install"} => filler'[Key(t)'] # ProcessOf[t]
    PROVE  ExtractedOnce'
PROOF
<1> SUFFICES ASSUME NEW u \in Task
             PROVE  /\ task'[u].pc \in Holding => lock'[ProcessOf[u]] = u
                    /\ task'[u].pc \in {"run", "copy", "install"} => filler'[Key(u)'] # ProcessOf[u]
    BY DEF ExtractedOnce
<1>1. CASE u # t /\ task[u].pc \in Holding
    <2>1. task'[u] = task[u] /\ Key(u)' = Key(u) /\ Key(u) \in Ref \X Digest
        BY <1>1, KeyKnown DEF Others, Key
    <2>2. lock[ProcessOf[u]] = u /\ ProcessOf[u] \in Process /\ u # None
        BY <1>1, TasksBelong, NoneIsNothing DEF ExtractedOnce
    <2>3. lock'[ProcessOf[u]] = u /\ (lock[ProcessOf[t]] = t => ProcessOf[u] # ProcessOf[t])
        BY <1>1, <2>2
    <2>4. task[u].pc \in {"run", "copy", "install"} => filler[Key(u)] # ProcessOf[u]
        BY DEF ExtractedOnce
    <2>5. QED
        BY <2>1, <2>3, <2>4
<1>2. CASE u # t /\ task[u].pc \notin Holding
    BY <1>2 DEF Others, Holding
<1>3. QED
    BY <1>1, <1>2

-----------------------------------------------------------------------------
(* The steps of a create, each preserving the invariant.                     *)

\* A look at the cache without the mutex changes no file; what it finds, stays.
LEMMA StatCacheKeeps == ASSUME IInv, NEW t \in Task, StatCache(t) PROVE IInv'
PROOF
<1>1. task[t].pc = "stat" /\ phase[ProcessOf[t]] = "up" /\ ProcessOf[t] \in Process
    BY TasksBelong DEF StatCache, At, Up
<1>2. UNCHANGED <<phase, listed, spared, alone, lock, image, cache, filler, box, part, seed>>
    BY DEF StatCache, host, files
<1>3. task \in [Task -> States] /\ lock \in [Process -> Task \cup {None}]
    BY DEF IInv, TypeOK, States
<1>4. task' \in [Task -> States] /\ Others(t) /\ SameKey(t)
      /\ task'[t].pc \in {"seed", "lock"} /\ (task'[t].pc = "seed" => cache[Key(t)] # None)
    BY <1>3, GotoEffect, StageNames DEF StatCache
<1>5. task' \in [Task -> States]
    BY <1>4
<1>6. TypeOK'
    BY <1>2, <1>5 DEF IInv, TypeOK, States
<1>7. Keyed'
    BY <1>1, <1>4 DEF IInv, Keyed, Others, SameKey
<1>8. Found'
    <2>1. task'[t].pc = "seed" \/ (task'[t].pc = "close" /\ ~task'[t].err) => cache'[Key(t)'] # None
        BY <1>2, <1>4 DEF Key, SameKey
    <2>2. QED
        BY <2>1, FoundKept, <1>2, <1>4 DEF IInv
<1>9. Filled'
    BY <1>2 DEF IInv, Filled
<1>10. Alone'
    BY <1>2 DEF IInv, Alone, Running
<1>11. OnlyWholeBinaries'
    BY <1>2, <1>4 DEF IInv, OnlyWholeBinaries, Others
<1>12. ExtractedOnce'
    <2>1. /\ \A p \in Process \ {ProcessOf[t]} : lock'[p] = lock[p]
          /\ lock'[ProcessOf[t]] = lock[ProcessOf[t]] \/ lock[ProcessOf[t]] \in {t, None}
          /\ task'[t].pc \in Holding => lock'[ProcessOf[t]] = t
        BY <1>2, <1>4 DEF Holding
    <2>2. QED
        BY <2>1, OnceKept, <1>2, <1>4 DEF IInv
<1>13. LeaksAreReclaimed'
    BY <1>2 DEF IInv, LeaksAreReclaimed, Up
<1>14. QED
    BY <1>6, <1>7, <1>8, <1>9, <1>10, <1>11, <1>12, <1>13 DEF IInv

\* A resolved image only gives a create its key.
LEMMA EnsureImageKeeps == ASSUME IInv, NEW t \in Task, EnsureImage(t) PROVE IInv'
PROOF
<1>1. UNCHANGED <<phase, listed, spared, alone, lock, cache, filler, box, part, seed>>
    BY DEF EnsureImage, host, files
<1>2. task \in [Task -> States] /\ lock \in [Process -> Task \cup {None}]
    BY DEF IInv, TypeOK, States
<1>3. /\ task[t].ref \in Ref /\ Published[task[t].ref] \subseteq Digest
      /\ image \in [Ref -> Digest \cup {None}]
    BY PublishedDigests DEF IInv, TypeOK
<1>4. \/ Fallback(t) /\ UNCHANGED image
      \/ \E d \in Digest : /\ image' = [image EXCEPT ![task[t].ref] = d]
                         /\ task' = [task EXCEPT ![t].pc = "stat", ![t].digest = d]
    BY <1>3 DEF EnsureImage
<1>5. /\ task' \in [Task -> States] /\ Others(t)
      /\ task'[t].pc \in {"image", "failed", "stat"}
      /\ task'[t].pc = "stat" => task'[t].digest \in Digest
    BY <1>2, <1>4, FallbackEffect, StageNames DEF States, Others
<1>6. image' \in [Ref -> Digest \cup {None}] /\ task' \in [Task -> States]
    BY <1>3, <1>4, <1>5
<1>7. TypeOK'
    BY <1>1, <1>6 DEF IInv, TypeOK, States
<1>8. Keyed'
    BY <1>5 DEF IInv, Keyed, Holding, Others
<1>9. Found'
    BY FoundKept, <1>1, <1>5 DEF IInv
<1>10. Filled'
    BY <1>1 DEF IInv, Filled
<1>11. Alone'
    BY <1>1 DEF IInv, Alone, Running
<1>12. OnlyWholeBinaries'
    BY <1>1, <1>5 DEF IInv, OnlyWholeBinaries, Others
<1>13. ExtractedOnce'
    <2>1. /\ \A p \in Process \ {ProcessOf[t]} : lock'[p] = lock[p]
          /\ lock'[ProcessOf[t]] = lock[ProcessOf[t]] \/ lock[ProcessOf[t]] \in {t, None}
          /\ task'[t].pc \in Holding => lock'[ProcessOf[t]] = t
        BY <1>1, <1>5 DEF Holding
    <2>2. QED
        BY <2>1, OnceKept, <1>1, <1>5 DEF IInv
<1>14. LeaksAreReclaimed'
    BY <1>1 DEF IInv, LeaksAreReclaimed, Up
<1>15. QED
    BY <1>7, <1>8, <1>9, <1>10, <1>11, <1>12, <1>13, <1>14 DEF IInv

\* The mutex goes to one create, and only when no other of the process has it.
LEMMA LockKeeps == ASSUME IInv, NEW t \in Task, Lock(t) PROVE IInv'
PROOF
<1>1. task[t].pc = "lock" /\ phase[ProcessOf[t]] = "up" /\ ProcessOf[t] \in Process
    BY TasksBelong DEF Lock, At, Up
<1>2. UNCHANGED <<phase, listed, spared, alone, image, cache, filler, box, part, seed>>
    BY DEF Lock, host, files
<1>3. task \in [Task -> States] /\ lock \in [Process -> Task \cup {None}]
    BY DEF IInv, TypeOK, States
<1>4. task' \in [Task -> States] /\ Others(t) /\ SameKey(t) /\ task'[t].pc = "recheck"
    BY <1>3, GotoEffect, StageNames DEF Lock
<1>5. lock[ProcessOf[t]] = None /\ lock' = [lock EXCEPT ![ProcessOf[t]] = t]
    BY DEF Lock
<1>6. lock' \in [Process -> Task \cup {None}] /\ task' \in [Task -> States]
    BY <1>3, <1>4, <1>5
<1>7. TypeOK'
    BY <1>2, <1>6 DEF IInv, TypeOK, States
<1>8. Keyed'
    BY <1>1, <1>4 DEF IInv, Keyed, Others, SameKey
<1>9. Found'
    BY FoundKept, <1>2, <1>4 DEF IInv
<1>10. Filled'
    BY <1>2 DEF IInv, Filled
<1>11. Alone'
    BY <1>2 DEF IInv, Alone, Running
<1>12. OnlyWholeBinaries'
    BY <1>2, <1>4 DEF IInv, OnlyWholeBinaries, Others
<1>13. ExtractedOnce'
    BY OnceKept, <1>2, <1>4, <1>5, <1>6 DEF IInv
<1>14. LeaksAreReclaimed'
    BY <1>2 DEF IInv, LeaksAreReclaimed, Up
<1>15. QED
    BY <1>7, <1>8, <1>9, <1>10, <1>11, <1>12, <1>13, <1>14 DEF IInv

\* The second look, with the mutex, lets only a create go on whose binary its process never cached.
LEMMA RecheckKeeps == ASSUME IInv, NEW t \in Task, Recheck(t) PROVE IInv'
PROOF
<1>1. task[t].pc = "recheck" /\ phase[ProcessOf[t]] = "up" /\ ProcessOf[t] \in Process
    BY TasksBelong DEF Recheck, At, Up
<1>2. UNCHANGED <<phase, listed, spared, alone, image, cache, filler, box, part, seed>>
    BY DEF Recheck, host, files
<1>3. task \in [Task -> States] /\ lock \in [Process -> Task \cup {None}]
    BY DEF IInv, TypeOK, States
<1>4. \/ cache[Key(t)] # None /\ Leave(t, FALSE)
      \/ cache[Key(t)] = None /\ Goto(t, "run") /\ UNCHANGED lock
      \/ cache[Key(t)] = None /\ Leave(t, TRUE)
    BY DEF Recheck
<1>5. task' \in [Task -> States] /\ Others(t) /\ lock' \in [Process -> Task \cup {None}]
      /\ \/ task'[t].pc = "seed" /\ SameKey(t) /\ cache[Key(t)] # None
         \/ task'[t].pc = "run" /\ SameKey(t) /\ cache[Key(t)] = None /\ UNCHANGED lock
         \/ task'[t].pc \in {"image", "failed"}
      /\ \A p \in Process \ {ProcessOf[t]} : lock'[p] = lock[p]
    BY <1>3, <1>4, GotoEffect, LeaveEffect, StageNames
<1>6. lock' \in [Process -> Task \cup {None}] /\ task' \in [Task -> States]
    BY <1>5
<1>7. TypeOK'
    BY <1>2, <1>6 DEF IInv, TypeOK, States
<1>8. Keyed'
    BY <1>1, <1>5 DEF IInv, Keyed, Holding, Others, SameKey
<1>9. Found'
    <2>1. task'[t].pc = "seed" \/ (task'[t].pc = "close" /\ ~task'[t].err) => cache'[Key(t)'] # None
        BY <1>2, <1>5 DEF Key, SameKey
    <2>2. QED
        BY <2>1, FoundKept, <1>2, <1>5 DEF IInv
<1>10. Filled'
    BY <1>2 DEF IInv, Filled
<1>11. Alone'
    BY <1>2 DEF IInv, Alone, Running
<1>12. OnlyWholeBinaries'
    BY <1>2, <1>5 DEF IInv, OnlyWholeBinaries, Others
<1>13. ExtractedOnce'
    <2>1. task[t].pc \in Holding => lock[ProcessOf[t]] = t
        BY DEF IInv, ExtractedOnce
    <2>2. /\ \A p \in Process \ {ProcessOf[t]} : lock'[p] = lock[p]
          /\ lock'[ProcessOf[t]] = lock[ProcessOf[t]] \/ lock[ProcessOf[t]] \in {t, None}
          /\ task'[t].pc \in Holding => lock'[ProcessOf[t]] = t
        BY <1>1, <1>5, <2>1 DEF Holding
    <2>3. task'[t].pc \in {"run", "copy", "install"} => filler'[Key(t)'] # ProcessOf[t]
        <3>1. Key(t) \in Ref \X Digest
            BY <1>1, KeyKnown DEF IInv, Holding
        <3>2. cache[Key(t)] = None => filler[Key(t)] # ProcessOf[t]
            BY <3>1, TasksBelong, NoneIsNothing DEF IInv, Filled
        <3>3. QED
            BY <1>2, <1>5, <3>2 DEF Key, SameKey
    <2>4. QED
        BY <2>2, <2>3, OnceKept, <1>2, <1>5 DEF IInv
<1>14. LeaksAreReclaimed'
    BY <1>2 DEF IInv, LeaksAreReclaimed, Up
<1>15. QED
    BY <1>7, <1>8, <1>9, <1>10, <1>11, <1>12, <1>13, <1>14 DEF IInv

\* A container is started by the holder of the mutex of a running process.
LEMMA RunContainerKeeps == ASSUME IInv, NEW t \in Task, RunContainer(t) PROVE IInv'
PROOF
<1>1. task[t].pc = "run" /\ phase[ProcessOf[t]] = "up" /\ ProcessOf[t] \in Process
    BY TasksBelong DEF RunContainer, At, Up
<1>2. UNCHANGED <<phase, listed, spared, alone, image, cache, filler, part, seed>>
    BY DEF RunContainer, host, files
<1>3. task \in [Task -> States] /\ lock \in [Process -> Task \cup {None}]
    BY DEF IInv, TypeOK, States
<1>4. \/ Goto(t, "copy") /\ UNCHANGED lock
      \/ Leave(t, TRUE)
    BY DEF RunContainer
<1>5. box' \in {box, [box EXCEPT ![t] = image[task[t].ref]]}
    BY DEF RunContainer
<1>6. task' \in [Task -> States] /\ Others(t) /\ lock' \in [Process -> Task \cup {None}]
      /\ \/ task'[t].pc = "copy" /\ SameKey(t) /\ UNCHANGED lock
         \/ task'[t].pc \in {"image", "failed"}
      /\ \A p \in Process \ {ProcessOf[t]} : lock'[p] = lock[p]
    BY <1>3, <1>4, GotoEffect, LeaveEffect, StageNames
<1>7. /\ lock' \in [Process -> Task \cup {None}]
      /\ box' \in [Task -> Contents] /\ task' \in [Task -> States]
    <2>1. task[t].ref \in Ref
        BY <1>3 DEF States
    <2>2. image[task[t].ref] \in Contents /\ box \in [Task -> Contents]
        BY <2>1 DEF IInv, TypeOK, Contents
    <2>3. QED
        BY <1>5, <1>6, <2>2
<1>8. TypeOK'
    BY <1>2, <1>7 DEF IInv, TypeOK, States
<1>9. Keyed'
    BY <1>1, <1>6 DEF IInv, Keyed, Holding, Others, SameKey
<1>10. Found'
    BY FoundKept, <1>2, <1>6 DEF IInv
<1>11. Filled'
    BY <1>2 DEF IInv, Filled
<1>12. Alone'
    BY <1>1, <1>2 DEF IInv, Alone, Running
<1>13. OnlyWholeBinaries'
    BY <1>2, <1>6 DEF IInv, OnlyWholeBinaries, Others
<1>14. ExtractedOnce'
    <2>1. task[t].pc \in Holding => lock[ProcessOf[t]] = t
        BY DEF IInv, ExtractedOnce
    <2>2. /\ \A p \in Process \ {ProcessOf[t]} : lock'[p] = lock[p]
          /\ lock'[ProcessOf[t]] = lock[ProcessOf[t]] \/ lock[ProcessOf[t]] \in {t, None}
          /\ task'[t].pc \in Holding => lock'[ProcessOf[t]] = t
        BY <1>1, <1>6, <2>1 DEF Holding
    <2>3. task'[t].pc \in {"run", "copy", "install"} => filler'[Key(t)'] # ProcessOf[t]
        BY <1>1, <1>2, <1>6 DEF IInv, ExtractedOnce, Key, SameKey
    <2>4. QED
        BY <2>2, <2>3, OnceKept, <1>2, <1>6 DEF IInv
<1>15. LeaksAreReclaimed'
    BY <1>1, <1>2, <1>5, <1>7 DEF IInv, Alone, LeaksAreReclaimed, Up, Running
<1>16. QED
    BY <1>8, <1>9, <1>10, <1>11, <1>12, <1>13, <1>14, <1>15 DEF IInv

\* The copy goes to a temporary file, which no create reads but its own.
LEMMA CopyFromKeeps == ASSUME IInv, NEW t \in Task, CopyFrom(t) PROVE IInv'
PROOF
<1>1. task[t].pc = "copy" /\ phase[ProcessOf[t]] = "up" /\ ProcessOf[t] \in Process
    BY TasksBelong DEF CopyFrom, At, Up
<1>2. UNCHANGED <<phase, listed, spared, alone, lock, image, cache, filler, box, seed>>
    BY DEF CopyFrom, host
<1>3. task \in [Task -> States] /\ lock \in [Process -> Task \cup {None}]
    BY DEF IInv, TypeOK, States
<1>4. \E c \in Contents : part' = [part EXCEPT ![t] = c]
    BY DEF CopyFrom, IInv, TypeOK, Contents
<1>5. Goto(t, "install") \/ Err(t, "close")
    BY DEF CopyFrom
<1>6. task' \in [Task -> States] /\ Others(t) /\ SameKey(t)
      /\ (task'[t].pc = "install" \/ (task'[t].pc = "close" /\ task'[t].err))
    BY <1>3, <1>5, GotoEffect, ErrEffect, StageNames
<1>7. part' \in [Task -> Contents] /\ task' \in [Task -> States]
    <2>1. PICK c \in Contents : part' = [part EXCEPT ![t] = c]
        BY <1>4
    <2>2. part \in [Task -> Contents]
        BY DEF IInv, TypeOK
    <2>3. QED
        BY <1>6, <2>1, <2>2
<1>8. TypeOK'
    BY <1>2, <1>7 DEF IInv, TypeOK, States
<1>9. Keyed'
    BY <1>1, <1>6 DEF IInv, Keyed, Holding, Others, SameKey
<1>10. Found'
    BY FoundKept, <1>2, <1>6 DEF IInv
<1>11. Filled'
    BY <1>2 DEF IInv, Filled
<1>12. Alone'
    BY <1>2 DEF IInv, Alone, Running
<1>13. OnlyWholeBinaries'
    BY <1>2, <1>6 DEF IInv, OnlyWholeBinaries, Others
<1>14. ExtractedOnce'
    <2>1. task[t].pc \in Holding => lock[ProcessOf[t]] = t
        BY DEF IInv, ExtractedOnce
    <2>2. /\ \A p \in Process \ {ProcessOf[t]} : lock'[p] = lock[p]
          /\ lock'[ProcessOf[t]] = lock[ProcessOf[t]] \/ lock[ProcessOf[t]] \in {t, None}
          /\ task'[t].pc \in Holding => lock'[ProcessOf[t]] = t
        BY <1>1, <1>2, <2>1 DEF Holding
    <2>3. task'[t].pc \in {"run", "copy", "install"} => filler'[Key(t)'] # ProcessOf[t]
        BY <1>1, <1>2, <1>6 DEF IInv, ExtractedOnce, Key, SameKey
    <2>4. QED
        BY <2>2, <2>3, OnceKept, <1>2, <1>6 DEF IInv
<1>15. LeaksAreReclaimed'
    BY <1>2 DEF IInv, LeaksAreReclaimed, Up
<1>16. QED
    BY <1>8, <1>9, <1>10, <1>11, <1>12, <1>13, <1>14, <1>15 DEF IInv

\* The rename replaces the cached binary by a whole one, by the holder of the mutex.
LEMMA InstallKeeps == ASSUME IInv, NEW t \in Task, Install(t) PROVE IInv'
PROOF
<1>1. task[t].pc = "install" /\ phase[ProcessOf[t]] = "up" /\ ProcessOf[t] \in Process
    BY TasksBelong DEF Install, At, Up
<1>2. UNCHANGED <<phase, listed, spared, alone, lock, image, box, seed>>
    BY DEF Install, host
<1>3. task \in [Task -> States] /\ lock \in [Process -> Task \cup {None}]
    BY DEF IInv, TypeOK, States
<1>4. \/ /\ part[t] \in Elf /\ Goto(t, "close")
         /\ cache' = [cache EXCEPT ![Key(t)] = part[t]]
         /\ filler' = [filler EXCEPT ![Key(t)] = ProcessOf[t]]
      \/ Err(t, "close") /\ UNCHANGED <<cache, filler>>
    BY DEF Install, Valid
<1>5. task' \in [Task -> States] /\ Others(t) /\ SameKey(t) /\ task'[t].pc = "close"
      /\ \/ task'[t].err
         \/ (/\ part[t] \in Elf /\ cache' = [cache EXCEPT ![Key(t)] = part[t]]
                         /\ filler' = [filler EXCEPT ![Key(t)] = ProcessOf[t]])
    BY <1>3, <1>4, GotoEffect, ErrEffect, StageNames
<1>6. /\ Key(t) \in Ref \X Digest
      /\ \A u \in Task :
             task[u].pc \in {"run", "copy", "install"} => u = t \/ ProcessOf[u] # ProcessOf[t]
    BY <1>1 DEF IInv, TypeOK, Keyed, ExtractedOnce, Key, Holding
<1>7. /\ cache' \in [Ref \X Digest -> Contents]
      /\ filler' \in [Ref \X Digest -> Process \cup {None}]
      /\ part' \in [Task -> Contents] /\ task' \in [Task -> States]
    BY <1>1, <1>4, <1>5 DEF Install, IInv, TypeOK, Contents
<1>8. TypeOK'
    BY <1>2, <1>7 DEF IInv, TypeOK, States
<1>9. Keyed'
    BY <1>1, <1>5 DEF IInv, Keyed, Holding, Others, SameKey
<1>10. Found'
    <2>1. task'[t].pc = "seed" \/ (task'[t].pc = "close" /\ ~task'[t].err) => cache'[Key(t)'] # None
        BY <1>5, <1>6, <1>7, NoneIsNothing, BinariesAreImages DEF Key, SameKey
    <2>2. QED
        BY <2>1, FoundKept, <1>4, <1>5, <1>7, NoneIsNothing, BinariesAreImages DEF IInv
<1>11. Filled'
    BY <1>4, <1>7, NoneIsNothing, BinariesAreImages DEF IInv, Filled
<1>12. Alone'
    BY <1>2 DEF IInv, Alone, Running
<1>13. OnlyWholeBinaries'
    BY <1>2, <1>4, <1>5, <1>7 DEF IInv, OnlyWholeBinaries, Others
<1>14. ExtractedOnce'
    <2>1. task[t].pc \in Holding => lock[ProcessOf[t]] = t
        BY DEF IInv, ExtractedOnce
    <2>2. \A k \in Ref \X Digest :
              filler'[k] = filler[k] \/ (filler'[k] = ProcessOf[t] /\ lock[ProcessOf[t]] = t)
        BY <1>1, <1>4, <1>7, <2>1 DEF Holding
    <2>3. /\ \A p \in Process \ {ProcessOf[t]} : lock'[p] = lock[p]
          /\ lock'[ProcessOf[t]] = lock[ProcessOf[t]] \/ lock[ProcessOf[t]] \in {t, None}
          /\ task'[t].pc \in Holding => lock'[ProcessOf[t]] = t
        BY <1>1, <1>2, <2>1 DEF Holding
    <2>4. QED
        BY <2>2, <2>3, OnceKept, <1>5 DEF IInv
<1>15. LeaksAreReclaimed'
    BY <1>2 DEF IInv, LeaksAreReclaimed, Up
<1>16. QED
    BY <1>8, <1>9, <1>10, <1>11, <1>12, <1>13, <1>14, <1>15 DEF IInv

\* The last step removes the container and releases the mutex.
LEMMA CloseKeeps == ASSUME IInv, NEW t \in Task, Close(t) PROVE IInv'
PROOF
<1>1. task[t].pc = "close" /\ phase[ProcessOf[t]] = "up" /\ ProcessOf[t] \in Process
    BY TasksBelong DEF Close, At, Up
<1>2. UNCHANGED <<phase, listed, spared, alone, image, cache, filler, part, seed>>
    BY DEF Close, host, files
<1>3. task \in [Task -> States] /\ lock \in [Process -> Task \cup {None}]
    BY DEF IInv, TypeOK, States
<1>4. Leave(t, task[t].err) /\ task[t].err \in BOOLEAN
    BY <1>3 DEF Close, States
<1>5. box' \in {box, [box EXCEPT ![t] = None]}
    BY DEF Close
<1>6. task' \in [Task -> States] /\ Others(t) /\ lock' \in [Process -> Task \cup {None}]
      /\ \/ task'[t].pc = "seed" /\ SameKey(t) /\ ~task[t].err
         \/ task'[t].pc \in {"image", "failed"}
      /\ \A p \in Process \ {ProcessOf[t]} : lock'[p] = lock[p]
    BY <1>3, <1>4, LeaveEffect
<1>7. /\ lock' \in [Process -> Task \cup {None}]
      /\ box' \in [Task -> Contents] /\ task' \in [Task -> States]
    BY <1>5, <1>6 DEF IInv, TypeOK, Contents
<1>8. TypeOK'
    BY <1>2, <1>7 DEF IInv, TypeOK, States
<1>9. Keyed'
    BY <1>1, <1>6 DEF IInv, Keyed, Holding, Others, SameKey
<1>10. Found'
    <2>1. task'[t].pc = "seed" \/ (task'[t].pc = "close" /\ ~task'[t].err) => cache'[Key(t)'] # None
        BY <1>1, <1>2, <1>6 DEF IInv, Found, Key, SameKey
    <2>2. QED
        BY <2>1, FoundKept, <1>2, <1>6 DEF IInv
<1>11. Filled'
    BY <1>2 DEF IInv, Filled
<1>12. Alone'
    BY <1>2, <1>5, <1>7 DEF IInv, Alone, Running
<1>13. OnlyWholeBinaries'
    BY <1>2, <1>6 DEF IInv, OnlyWholeBinaries, Others
<1>14. ExtractedOnce'
    <2>1. task[t].pc \in Holding => lock[ProcessOf[t]] = t
        BY DEF IInv, ExtractedOnce
    <2>2. /\ \A p \in Process \ {ProcessOf[t]} : lock'[p] = lock[p]
          /\ lock'[ProcessOf[t]] = lock[ProcessOf[t]] \/ lock[ProcessOf[t]] \in {t, None}
          /\ task'[t].pc \in Holding => lock'[ProcessOf[t]] = t
        BY <1>1, <1>6, <2>1 DEF Holding
    <2>3. QED
        BY <2>2, OnceKept, <1>2, <1>6 DEF IInv
<1>15. LeaksAreReclaimed'
    BY <1>2, <1>5, <1>7 DEF IInv, LeaksAreReclaimed, Up
<1>16. QED
    BY <1>8, <1>9, <1>10, <1>11, <1>12, <1>13, <1>14, <1>15 DEF IInv

\* A sandbox boots from a copy of a cached binary, which is a whole one.
LEMMA WriteSeedKeeps == ASSUME IInv, NEW t \in Task, WriteSeed(t) PROVE IInv'
PROOF
<1>1. task[t].pc = "seed" /\ phase[ProcessOf[t]] = "up" /\ ProcessOf[t] \in Process
    BY TasksBelong DEF WriteSeed, At, Up
<1>2. UNCHANGED <<phase, listed, spared, alone, lock, image, cache, filler, box, part>>
    BY DEF WriteSeed, host
<1>3. task \in [Task -> States] /\ lock \in [Process -> Task \cup {None}]
    BY DEF IInv, TypeOK, States
<1>4. \/ seed' = [seed EXCEPT ![t] = cache[Key(t)]] /\ task' = [task EXCEPT ![t] = End("booted")]
      \/ /\ \E c \in {None, Torn} : seed' = [seed EXCEPT ![t] = c]
         /\ task' = [task EXCEPT ![t] = End("failed")]
    BY DEF WriteSeed
<1>5. /\ task' \in [Task -> States] /\ Others(t)
      /\ \/ task'[t].pc = "booted" /\ seed' = [seed EXCEPT ![t] = cache[Key(t)]]
         \/ task'[t].pc = "failed" /\ (\E c \in {None, Torn} : seed' = [seed EXCEPT ![t] = c])
    <2>1. CASE /\ seed' = [seed EXCEPT ![t] = cache[Key(t)]]
               /\ task' = [task EXCEPT ![t] = End("booted")]
        <3>1. "booted" \in Stages /\ task' = [task EXCEPT ![t] = End("booted")]
            BY <2>1, StageNames
        <3>2. task' \in [Task -> States] /\ Others(t) /\ task'[t].pc = "booted"
            BY <1>3, <3>1, EndEffect
        <3>3. QED
            BY <2>1, <3>2
    <2>2. CASE /\ \E c \in {None, Torn} : seed' = [seed EXCEPT ![t] = c]
               /\ task' = [task EXCEPT ![t] = End("failed")]
        BY <1>3, <2>2, EndEffect, StageNames
    <2>3. QED
        BY <1>4, <2>1, <2>2
<1>6. Key(t) \in Ref \X Digest /\ cache[Key(t)] # None
    BY <1>1 DEF IInv, TypeOK, Keyed, Found, Key
<1>7. seed' \in [Task -> Contents] /\ task' \in [Task -> States]
    <2>1. cache[Key(t)] \in Contents /\ seed \in [Task -> Contents]
        BY <1>6 DEF IInv, TypeOK
    <2>2. \E c \in Contents : seed' = [seed EXCEPT ![t] = c]
        BY <1>5, <2>1 DEF Contents
    <2>3. QED
        BY <1>5, <2>1, <2>2
<1>8. TypeOK'
    BY <1>2, <1>7 DEF IInv, TypeOK, States
<1>9. Keyed'
    BY <1>4, <1>5 DEF IInv, Keyed, Holding
<1>10. Found'
    BY FoundKept, <1>2, <1>5 DEF IInv
<1>11. Filled'
    BY <1>2 DEF IInv, Filled
<1>12. Alone'
    BY <1>2 DEF IInv, Alone, Running
<1>13. OnlyWholeBinaries'
    BY <1>2, <1>4, <1>5, <1>6, <1>7 DEF IInv, OnlyWholeBinaries
<1>14. ExtractedOnce'
    <2>1. /\ \A p \in Process \ {ProcessOf[t]} : lock'[p] = lock[p]
          /\ lock'[ProcessOf[t]] = lock[ProcessOf[t]] \/ lock[ProcessOf[t]] \in {t, None}
          /\ task'[t].pc \in Holding => lock'[ProcessOf[t]] = t
        BY <1>2, <1>5 DEF Holding
    <2>2. QED
        BY <2>1, OnceKept, <1>2, <1>5 DEF IInv
<1>15. LeaksAreReclaimed'
    BY <1>2 DEF IInv, LeaksAreReclaimed, Up
<1>16. QED
    BY <1>8, <1>9, <1>10, <1>11, <1>12, <1>13, <1>14, <1>15 DEF IInv

-----------------------------------------------------------------------------
(* The other steps.                                                          *)

\* A process that starts has touched nothing; it is alone if no other runs.
LEMMA StartKeeps == ASSUME IInv, NEW p \in Process, Start(p) PROVE IInv'
PROOF
<1>1. UNCHANGED <<listed, spared, lock, image, cache, filler, box, part, seed, task>> /\ phase[p] = "off"
    BY DEF Start, files
<1>2. phase' = [phase EXCEPT ![p] = "list"] /\ alone' \subseteq {p}
    BY DEF Start
<1>3. p \in alone' => \A q \in Process \ {p} : ~Running(q)
    BY DEF Start
<1>4. TypeOK'
    BY <1>1, <1>2 DEF IInv, TypeOK
<1>5. Keyed' /\ Found' /\ Filled' /\ OnlyWholeBinaries' /\ ExtractedOnce'
    BY <1>1 DEF IInv, Keyed, Found, Filled, OnlyWholeBinaries, ExtractedOnce, Key
<1>6. Alone' /\ LeaksAreReclaimed'
    BY <1>1, <1>2, <1>3 DEF Alone, LeaksAreReclaimed, Running, Up
<1>7. QED
    BY <1>4, <1>5, <1>6 DEF IInv

\* The listing of a lone process has every container there is.
LEMMA ListContainersKeeps == ASSUME IInv, NEW p \in Process, ListContainers(p) PROVE IInv'
PROOF
<1>1. UNCHANGED <<spared, alone, lock, image, cache, filler, box, part, seed, task>> /\ phase[p] = "list"
    BY DEF ListContainers, files
<1>2. /\ phase' = [phase EXCEPT ![p] = "sweep"]
      /\ listed' = [listed EXCEPT ![p] = {t \in Task : box[t] # None}]
    BY DEF ListContainers
<1>3. TypeOK'
    BY <1>1, <1>2 DEF IInv, TypeOK
<1>4. Keyed' /\ Found' /\ Filled' /\ OnlyWholeBinaries' /\ ExtractedOnce'
    BY <1>1 DEF IInv, Keyed, Found, Filled, OnlyWholeBinaries, ExtractedOnce, Key
<1>5. Alone' /\ LeaksAreReclaimed'
    BY <1>1, <1>2 DEF IInv, TypeOK, Alone, LeaksAreReclaimed, Running, Up
<1>6. QED
    BY <1>3, <1>4, <1>5 DEF IInv

\* The sweep removes what was listed and nothing else; what it fails to remove is on record.
LEMMA SweepKeeps == ASSUME IInv, NEW p \in Process, Sweep(p) PROVE IInv'
PROOF
<1>1. UNCHANGED <<alone, lock, image, cache, filler, part, seed, task>> /\ phase[p] = "sweep"
    BY DEF Sweep, files
<1>2. Keyed' /\ Found' /\ Filled' /\ OnlyWholeBinaries' /\ ExtractedOnce'
    BY <1>1 DEF IInv, Keyed, Found, Filled, OnlyWholeBinaries, ExtractedOnce, Key
<1>3. CASE /\ listed[p] = {}
           /\ phase' = [phase EXCEPT ![p] = "up"]
           /\ UNCHANGED <<listed, spared, box>>
    <2>1. TypeOK'
        BY <1>1, <1>3 DEF IInv, TypeOK
    <2>2. Alone' /\ LeaksAreReclaimed'
        BY <1>1, <1>3 DEF IInv, TypeOK, Alone, LeaksAreReclaimed, Running, Up
    <2>3. QED
        BY <1>2, <2>1, <2>2 DEF IInv
<1>4. ASSUME NEW t \in listed[p], listed' = [listed EXCEPT ![p] = @ \ {t}],
             box' = [box EXCEPT ![t] = None], UNCHANGED <<phase, spared>>
      PROVE  IInv'
    <2>1. TypeOK'
        BY <1>1, <1>4 DEF IInv, TypeOK, Contents
    <2>2. Alone' /\ LeaksAreReclaimed'
        BY <1>1, <1>4 DEF IInv, TypeOK, Alone, LeaksAreReclaimed, Running, Up
    <2>3. QED
        BY <1>2, <2>1, <2>2 DEF IInv
<1>5. ASSUME NEW t \in listed[p], listed' = [listed EXCEPT ![p] = @ \ {t}],
             spared' = IF p \in alone THEN [spared EXCEPT ![p] = @ \cup {t}] ELSE spared,
             UNCHANGED <<phase, box>>
      PROVE  IInv'
    <2>1. TypeOK'
        BY <1>1, <1>5 DEF IInv, TypeOK
    <2>2. Alone' /\ LeaksAreReclaimed'
        BY <1>1, <1>5 DEF IInv, TypeOK, Alone, LeaksAreReclaimed, Running, Up
    <2>3. QED
        BY <1>2, <2>1, <2>2 DEF IInv
<1>6. QED
    BY <1>3, <1>4, <1>5 DEF Sweep

\* A kill ends the creates of a process and leaves every file as it is.
LEMMA KillKeeps == ASSUME IInv, NEW p \in Process, Kill(p) PROVE IInv'
PROOF
<1>1. UNCHANGED <<alone, image, cache, filler, box, part, seed>>
    BY DEF Kill, files
<1>2. /\ phase' = [phase EXCEPT ![p] = "dead"] /\ lock' = [lock EXCEPT ![p] = None]
      /\ listed' = [listed EXCEPT ![p] = {}] /\ spared' = [spared EXCEPT ![p] = {}]
    BY DEF Kill
<1>3. \A t \in Task : IF ProcessOf[t] = p THEN task'[t] \in States /\ task'[t].pc = "killed"
                                          ELSE task'[t] = task[t]
    BY EndTyped, StageNames DEF Kill
<1>4. TypeOK'
    <2>1. task' \in [Task -> States]
        <3>1. task' = [t \in Task |-> IF ProcessOf[t] = p THEN End("killed") ELSE task[t]]
            BY DEF Kill
        <3>2. \A t \in Task : task'[t] \in States
            BY <1>3 DEF IInv, TypeOK, States
        <3>3. QED
            BY <3>1, <3>2
    <2>2. QED
        BY <1>1, <1>2, <2>1 DEF IInv, TypeOK, States
<1>5. \A t \in Task : \/ task'[t].pc = "killed"
                      \/ task'[t] = task[t] /\ ProcessOf[t] # p
    BY <1>3
<1>6. Keyed' /\ Found' /\ OnlyWholeBinaries'
    BY <1>1, <1>5 DEF IInv, Keyed, Found, OnlyWholeBinaries, Key, Holding
<1>7. ExtractedOnce'
    BY <1>1, <1>2, <1>5 DEF IInv, ExtractedOnce, Key, Holding
<1>8. Filled' /\ Alone' /\ LeaksAreReclaimed'
    BY <1>1, <1>2 DEF IInv, TypeOK, Filled, Alone, LeaksAreReclaimed, Running, Up
<1>9. QED
    BY <1>4, <1>6, <1>7, <1>8 DEF IInv

\* A tag that moves touches neither the cache nor a create.
LEMMA MoveTagKeeps == ASSUME IInv, NEW r \in Ref, MoveTag(r) PROVE IInv'
PROOF
<1>1. UNCHANGED <<phase, listed, spared, alone, lock, cache, filler, part, seed, box, task>>
    BY DEF MoveTag, host, files
<1>2. image' \in [Ref -> Digest \cup {None}]
    <2>1. PICK d \in Published[r] : image' = [image EXCEPT ![r] = d]
        BY DEF MoveTag
    <2>2. d \in Digest
        BY PublishedDigests
    <2>3. QED
        BY <2>1, <2>2 DEF IInv, TypeOK
<1>3. TypeOK'
    BY <1>1, <1>2 DEF IInv, TypeOK
<1>4. QED
    BY <1>1, <1>3 DEF IInv, Keyed, Found, Filled, Alone, OnlyWholeBinaries, ExtractedOnce,
                      LeaksAreReclaimed, Key, Running, Up

-----------------------------------------------------------------------------
(* The invariant holds at the start and is preserved by every step.          *)

\* Nothing is cached, and nothing runs, at first.
LEMMA InitInv == Init => IInv
PROOF
<1> SUFFICES ASSUME Init PROVE IInv
    OBVIOUS
<1>1. TypeOK
    BY StageNames DEF Init, TypeOK, Contents, Ref
<1>2. Keyed /\ Found /\ Filled
    BY DEF Init, Keyed, Found, Filled, Holding
<1>3. Alone /\ LeaksAreReclaimed
    BY DEF Init, Alone, LeaksAreReclaimed
<1>4. OnlyWholeBinaries /\ ExtractedOnce
    BY DEF Init, OnlyWholeBinaries, ExtractedOnce, Holding
<1>5. QED
    BY <1>1, <1>2, <1>3, <1>4 DEF IInv

\* Every step keeps the invariant.
LEMMA Inductive == IInv /\ [Next]_vars => IInv'
PROOF
<1> SUFFICES ASSUME IInv, [Next]_vars PROVE IInv'
    OBVIOUS
<1>1. CASE \E p \in Process : Start(p) \/ ListContainers(p) \/ Sweep(p) \/ Kill(p)
    BY <1>1, StartKeeps, ListContainersKeeps, SweepKeeps, KillKeeps
<1>2. CASE \E t \in Task : Create(t)
    <2>1. PICK t \in Task : Create(t)
        BY <1>2
    <2>2. CASE EnsureImage(t) \/ StatCache(t) \/ Lock(t) \/ WriteSeed(t)
        BY <2>2, EnsureImageKeeps, StatCacheKeeps, LockKeeps, WriteSeedKeeps
    <2>3. CASE Locked(t)
        BY <2>3, RecheckKeeps, RunContainerKeeps, CopyFromKeeps, InstallKeeps, CloseKeeps DEF Locked
    <2>4. QED
        BY <2>1, <2>2, <2>3 DEF Create
<1>3. CASE \E r \in Ref : MoveTag(r)
    BY <1>3, MoveTagKeeps
<1>4. CASE UNCHANGED vars
    <2>1. UNCHANGED <<phase, listed, spared, alone, lock, image, cache, filler, box, part, seed, task>>
        BY <1>4 DEF vars
    <2>2. QED
        BY <2>1 DEF IInv, TypeOK, Keyed, Found, Filled, Alone, OnlyWholeBinaries, ExtractedOnce,
                    LeaksAreReclaimed, Key, Running, Up
<1>5. QED
    BY <1>1, <1>2, <1>3, <1>4 DEF Next

\* The inductive invariant holds in every reachable state.
THEOREM Invariant == Spec => []IInv
PROOF
  BY InitInv, Inductive, PTL DEF Spec

\* No crash, sweep, failed copy or concurrent create puts anything but a complete Linux binary
\* into the cache (Ensure) or into the seed of a sandbox that boots (Write).
THEOREM WholeCorrect == Spec => []OnlyWholeBinaries
PROOF
<1>1. IInv => OnlyWholeBinaries
    BY DEF IInv
<1>2. QED
    BY <1>1, Invariant, PTL

\* Of the creates of a process, however many, only the holder of the extractor's mutex works
\* on a container, and never for a binary that the process has cached.
THEOREM OnceCorrect == Spec => []ExtractedOnce
PROOF
<1>1. IInv => ExtractedOnce
    BY DEF IInv
<1>2. QED
    BY <1>1, Invariant, PTL

\* The sweep of a process that has the host to itself leaves no extraction container of an
\* earlier process but those whose removal has failed, and none reappears while it runs.
THEOREM LeaksCorrect == Spec => []LeaksAreReclaimed
PROOF
<1>1. IInv => LeaksAreReclaimed
    BY DEF IInv
<1>2. QED
    BY <1>1, Invariant, PTL
=============================================================================
