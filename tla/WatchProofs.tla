----------------------------- MODULE WatchProofs -----------------------------
(* What reaches the streams of Watch, and that Watch implements what           *)
(* StreamContract promises them: for any sandboxes, streams and buffer size,  *)
(* and however often an entry changes.                                        *)
EXTENDS Watch, TLAPS

-----------------------------------------------------------------------------
(* The inductive invariant.                                                  *)

\* Who is about to publish has something to publish.
PublisherShape ==
    /\ \A p \in Publishers : pub[p].pc = "publish" => pub[p].snap \in Events
    /\ pub[Poller].pc \in {"idle", "tails", "warn", "snapshot", "publish"}
    /\ pub[Poller].pc \in {"warn", "snapshot"} => poll.cur \in Ids

\* A sandbox is created once, and provisioned once its create has returned.
OneAfterTheOther ==
    \A i \in Ids :
        /\ entry[i].in = "never" => Idle(<<"create", i>>) /\ Idle(<<"provision", i>>)
        /\ Idle(<<"create", i>>) \/ Idle(<<"provision", i>>)

\* The poller ends with nothing left to publish, and fetches a console tail only of what it will
\* publish.
PollerFinishes ==
    /\ poll.tails \subseteq poll.left
    /\ Idle(Poller) => poll.left = {}

\* A handler that sends, or is about to, is a subscriber.
SendersSubscribe == \A w \in Streams : stream[w].pc \in {"open", "send"} => w \in subs

Shape == TypeOK /\ PublisherShape /\ OneAfterTheOther /\ PollerFinishes /\ SendersSubscribe

IInv == Shape /\ NothingLost /\ DeletionReachesReplayed

-----------------------------------------------------------------------------
(* Publishers, and what they do to themselves.                               *)

Pcs == {"idle", "pull", "pulled", "work", "snapshot", "publish", "event", "teardown", "farewell",
        "tails", "warn"}
PublisherStates == [pc : Pcs, snap : Events \cup {NoEvent}]
Entries == [in : {"never", "registry", "removed"}, rev : Nat,
            exited : BOOLEAN, deleting : BOOLEAN, canceled : BOOLEAN]

\* The poller is one publisher; every other one is of a kind and has a sandbox.
LEMMA PublisherKinds ==
    /\ Poller \in Publishers /\ Poller[1] = "poll"
    /\ \A k \in {"create", "provision", "operate", "delete"}, i \in Ids :
           <<k, i>> \in Publishers /\ <<k, i>> # Poller
    /\ \A p \in Publishers \ {Poller} :
           p[1] \in {"create", "provision", "operate", "delete"} /\ p[2] \in Ids /\ p = <<p[1], p[2]>>
PROOF
  BY DEF Publishers, Poller

\* What is published is an event.
LEMMA EventTypes ==
    ASSUME TypeOK, NEW i \in Ids
    PROVE  SandboxEvent(i) \in Events /\ DeletedEvent(i) \in Events /\ PlatformEvent(i) \in Events
PROOF
  BY DEF TypeOK, Events, SandboxEvent, DeletedEvent, PlatformEvent, Event

\* The kinds of the events differ, and the sandbox of an event is its id.
LEMMA EventKinds ==
    ASSUME NEW i
    PROVE  /\ SandboxEvent(i).kind = "sandbox" /\ SandboxEvent(i).id = i
           /\ DeletedEvent(i).kind = "deleted" /\ PlatformEvent(i).kind = "platform"
PROOF
  BY DEF SandboxEvent, DeletedEvent, PlatformEvent, Event

\* Goto moves one publisher and changes nothing else of it.
LEMMA GotoEffect ==
    ASSUME pub \in [Publishers -> PublisherStates], NEW p \in Publishers, NEW pc \in Pcs, Goto(p, pc)
    PROVE  /\ pub' \in [Publishers -> PublisherStates]
           /\ pub'[p].pc = pc /\ pub'[p].snap = pub[p].snap
           /\ \A q \in Publishers \ {p} : pub'[q] = pub[q]
PROOF
  BY DEF Goto, PublisherStates

-----------------------------------------------------------------------------
(* What the streams have is not taken from them.                             *)

\* A stream that is served was served before, and has what it had but for platform events.
StreamsKept ==
    \A w \in Streams : Served(w)' =>
        /\ Served(w) /\ stream'[w].base = stream[w].base
        /\ \A ev \in Reaches(w) : ev.kind # "platform" => ev \in Reaches(w)'

\* Every stream that is served has the event or will be sent it.
EveryoneHas(ev) == \A w \in Streams : Served(w)' => ev \in Reaches(w)'

\* An event that is published reaches every stream for which nothing is dropped.
LEMMA PublishEffect ==
    ASSUME TypeOK, SendersSubscribe, NEW ev \in Events, Publish(ev), UNCHANGED clientVars
    PROVE  /\ chan' \in [Streams -> Seq(Events)] /\ \A w \in Streams : Len(chan'[w]) <= WatchBuffer
           /\ subs' = subs /\ lost' \in SUBSET Streams
           /\ StreamsKept
           /\ ev.kind # "platform" => EveryoneHas(ev)
PROOF
<1> DEFINE full == {w \in subs : Len(chan[w]) >= WatchBuffer}
<1>1. /\ chan' = [w \in Streams |-> IF w \in subs \ full THEN Append(chan[w], ev) ELSE chan[w]]
      /\ lost' = IF ev.kind = "platform" THEN lost ELSE lost \cup full
      /\ subs' = subs
    BY DEF Publish
<1>2. UNCHANGED <<stream, seen>>
    BY DEF clientVars
<1>3. /\ chan \in [Streams -> Seq(Events)] /\ subs \subseteq Streams /\ lost \subseteq Streams
      /\ \A w \in Streams : Len(chan[w]) \in Nat /\ Len(chan[w]) <= WatchBuffer
      /\ WatchBuffer \in Nat
    BY WatchBufferAssumption DEF TypeOK
<1>4. ASSUME NEW w \in Streams
      PROVE  /\ chan'[w] \in Seq(Events) /\ Len(chan'[w]) <= WatchBuffer
             /\ {chan[w][n] : n \in DOMAIN chan[w]} \subseteq {chan'[w][n] : n \in DOMAIN chan'[w]}
             /\ w \in subs \ full => ev \in {chan'[w][n] : n \in DOMAIN chan'[w]}
    <2>1. CASE w \in subs \ full
        <3>1. chan'[w] = Append(chan[w], ev) /\ chan[w] \in Seq(Events) /\ Len(chan[w]) < WatchBuffer
            BY <1>1, <1>3, <2>1
        <3>2. /\ Append(chan[w], ev) \in Seq(Events) /\ Len(Append(chan[w], ev)) = Len(chan[w]) + 1
              /\ \A n \in 1 .. Len(chan[w]) : Append(chan[w], ev)[n] = chan[w][n]
              /\ Append(chan[w], ev)[Len(chan[w]) + 1] = ev
              /\ DOMAIN chan[w] = 1 .. Len(chan[w])
              /\ DOMAIN Append(chan[w], ev) = 1 .. Len(chan[w]) + 1
            BY <3>1
        <3>3. QED
            BY <1>3, <3>1, <3>2
    <2>2. CASE w \notin subs \ full
        BY <1>1, <1>3, <2>2
    <2>3. QED
        BY <2>1, <2>2
<1>5. chan' \in [Streams -> Seq(Events)] /\ lost' \in SUBSET Streams
    <2>1. chan' = [w \in Streams |-> chan'[w]]
        BY <1>1
    <2>2. QED
        BY <1>1, <1>3, <1>4, <2>1
<1>6. StreamsKept
    BY <1>1, <1>2, <1>4 DEF StreamsKept, Served, Reaches
<1>7. ASSUME ev.kind # "platform" PROVE EveryoneHas(ev)
    <2>1. SUFFICES ASSUME NEW w \in Streams, Served(w)' PROVE ev \in Reaches(w)'
        BY DEF EveryoneHas
    <2>2. w \in subs /\ w \notin full
        BY <1>1, <1>2, <1>7, <2>1 DEF Served, SendersSubscribe
    <2>3. QED
        BY <1>4, <2>2 DEF Reaches
<1>8. QED
    BY <1>1, <1>4, <1>5, <1>6, <1>7

\* Where neither the hub nor a client does anything, all streams keep what they have.
LEMMA StreamsUntouched ==
    ASSUME UNCHANGED <<hubVars, clientVars>>
    PROVE  StreamsKept
PROOF
  BY DEF hubVars, clientVars, StreamsKept, Served, Reaches

\* No stream misses the state of a sandbox by a step after which somebody still owes it, or that
\* has published it.
LEMMA NothingLostKept ==
    ASSUME NothingLost, StreamsKept,
           \A i \in Registered' :
               \/ Owed(i)'
               \/ EveryoneHas(Event("sandbox", i, entry'[i].rev))
               \/ i \in Registered /\ entry'[i].rev = entry[i].rev /\ ~Owed(i)
    PROVE  NothingLost'
PROOF
<1> SUFFICES ASSUME NEW w \in Streams, NEW i \in Registered', Served(w)', ~Owed(i)'
             PROVE  SandboxEvent(i)' \in Reaches(w)'
    BY DEF NothingLost
<1>1. CASE EveryoneHas(Event("sandbox", i, entry'[i].rev))
    BY <1>1 DEF EveryoneHas, SandboxEvent
<1>2. CASE i \in Registered /\ entry'[i].rev = entry[i].rev /\ ~Owed(i)
    <2>1. Served(w) /\ (SandboxEvent(i) \in Reaches(w) => SandboxEvent(i) \in Reaches(w)')
        BY EventKinds DEF StreamsKept
    <2>2. SandboxEvent(i)' = SandboxEvent(i)
        BY <1>2 DEF SandboxEvent, Event
    <2>3. QED
        BY <1>2, <2>1, <2>2 DEF NothingLost
<1>3. QED
    BY <1>1, <1>2

\* No stream misses a removal by a step after which the delete still has to tell of it, or that
\* has told.
LEMMA DeletionKept ==
    ASSUME DeletionReachesReplayed, StreamsKept,
           \A i \in Ids : entry'[i].in = "removed" =>
               \/ pub'[<<"delete", i>>].pc = "farewell"
               \/ EveryoneHas(DeletedEvent(i))
               \/ entry[i].in = "removed" /\ pub[<<"delete", i>>].pc # "farewell"
    PROVE  DeletionReachesReplayed'
PROOF
<1> SUFFICES ASSUME NEW w \in Streams, NEW i \in Ids, Served(w)', i \in stream'[w].base,
                    entry'[i].in = "removed", pub'[<<"delete", i>>].pc # "farewell"
             PROVE  DeletedEvent(i) \in Reaches(w)'
    BY DEF DeletionReachesReplayed, DeletedEvent, Event
<1>1. CASE EveryoneHas(DeletedEvent(i))
    BY <1>1 DEF EveryoneHas
<1>2. CASE entry[i].in = "removed" /\ pub[<<"delete", i>>].pc # "farewell"
    BY <1>2, EventKinds DEF StreamsKept, DeletionReachesReplayed
<1>3. QED
    BY <1>1, <1>2

\* A step of publishers that had nothing in hand leaves what is owed for other sandboxes, and for
\* those that have not changed.
LEMMA OwedKept ==
    ASSUME NEW P \in SUBSET Publishers, NEW i \in Ids, Owed(i), entry'[i].rev = entry[i].rev,
           i \in poll.left => i \in poll'.left,
           Poller \in P \/ poll'.cur = poll.cur,
           \A q \in Publishers \ P : pub'[q] = pub[q],
           \A q \in P : pub[q].pc \notin {"snapshot", "publish"}
    PROVE  Owed(i)'
PROOF
<1>1. CASE i \in poll.left
    BY <1>1 DEF Owed
<1>2. ASSUME NEW q \in Publishers, pub[q].pc = "snapshot" /\ Subject(q) = i
      PROVE  Owed(i)'
    <2>1. q \notin P /\ pub'[q] = pub[q]
        BY <1>2
    <2>2. Subject(q)' = i
        BY <1>2, <2>1 DEF Subject
    <2>3. QED
        BY <1>2, <2>1, <2>2 DEF Owed
<1>3. ASSUME NEW q \in Publishers, pub[q].pc = "publish" /\ pub[q].snap = SandboxEvent(i)
      PROVE  Owed(i)'
    <2>1. q \notin P /\ pub'[q] = pub[q] /\ SandboxEvent(i)' = SandboxEvent(i)
        BY <1>3 DEF SandboxEvent, Event
    <2>2. QED
        BY <1>3, <2>1 DEF Owed
<1>4. QED
    BY <1>1, <1>2, <1>3 DEF Owed

-----------------------------------------------------------------------------
(* The steps of a publication.                                               *)

\* The snapshot is of the entry as it is, so what was owed is.
LEMMA TakeSnapshotKeeps == ASSUME IInv, NEW p \in Publishers, TakeSnapshot(p) PROVE IInv'
PROOF
<1>1. UNCHANGED <<entry, poll, subs, chan, stream, seen, lost>> /\ pub[p].pc = "snapshot"
    BY DEF TakeSnapshot, hubVars, clientVars
<1>2. Subject(p) \in Ids
    BY <1>1, PublisherKinds DEF IInv, Shape, PublisherShape, Subject
<1>3. SandboxEvent(Subject(p)) \in Events
    BY <1>2, EventTypes DEF IInv, Shape
<1>4. /\ pub \in [Publishers -> PublisherStates] /\ pub' \in [Publishers -> PublisherStates]
      /\ pub'[p] = [pc |-> "publish", snap |-> SandboxEvent(Subject(p))]
      /\ \A q \in Publishers \ {p} : pub'[q] = pub[q]
    BY <1>3 DEF TakeSnapshot, IInv, Shape, TypeOK, PublisherStates, Pcs
<1>5. TypeOK'
    BY <1>1, <1>4 DEF IInv, Shape, TypeOK, PublisherStates, Pcs
<1>6. PublisherShape' /\ OneAfterTheOther' /\ PollerFinishes' /\ SendersSubscribe'
    BY <1>1, <1>3, <1>4, PublisherKinds
    DEF IInv, Shape, PublisherShape, OneAfterTheOther, PollerFinishes, SendersSubscribe, Idle
<1>7. StreamsKept
    BY <1>1, StreamsUntouched DEF hubVars, clientVars
<1>8. NothingLost'
    <2>1. ASSUME NEW i \in Ids, Owed(i) PROVE Owed(i)'
        <3>1. SandboxEvent(i)' = SandboxEvent(i) /\ \A q \in Publishers : Subject(q)' = Subject(q)
            BY <1>1 DEF SandboxEvent, Event, Subject
        <3>2. CASE Subject(p) = i
            BY <1>4, <3>1, <3>2 DEF Owed
        <3>3. CASE Subject(p) # i
            BY <1>1, <1>4, <2>1, <3>1, <3>3 DEF Owed
        <3>4. QED
            BY <3>2, <3>3
    <2>2. QED
        BY <1>1, <1>7, <2>1, NothingLostKept DEF IInv, Registered
<1>9. DeletionReachesReplayed'
    BY <1>1, <1>4, <1>7, DeletionKept, PublisherKinds DEF IInv
<1>10. QED
    BY <1>5, <1>6, <1>8, <1>9 DEF IInv, Shape

\* Whoever was owed the state that is published has it, unless it was dropped.
LEMMA PublishSandboxKeeps == ASSUME IInv, NEW p \in Publishers, PublishSandbox(p) PROVE IInv'
PROOF
<1> DEFINE ev == pub[p].snap
           next == CASE p[1] = "delete" -> "teardown"
                     [] p = Poller -> IF poll.left = {} THEN "idle" ELSE "tails"
                     [] OTHER -> "event"
<1>1. UNCHANGED <<poll, stream, seen>> /\ pub[p].pc = "publish" /\ ev \in Events /\ Publish(ev)
    BY DEF PublishSandbox, clientVars, IInv, Shape, PublisherShape
<1>2. /\ chan' \in [Streams -> Seq(Events)] /\ \A w \in Streams : Len(chan'[w]) <= WatchBuffer
      /\ subs' = subs /\ lost' \in SUBSET Streams /\ StreamsKept
      /\ ev.kind # "platform" => EveryoneHas(ev)
    BY <1>1, PublishEffect DEF IInv, Shape, clientVars
<1>3. next \in Pcs \ {"publish", "snapshot", "warn"} /\ (p = Poller => next \in {"idle", "tails"})
      /\ (p = Poller /\ next = "idle" => poll.left = {})
    BY PublisherKinds DEF Pcs
<1>4. /\ pub \in [Publishers -> PublisherStates] /\ pub' \in [Publishers -> PublisherStates]
      /\ pub'[p].pc = next
      /\ \A q \in Publishers \ {p} : pub'[q] = pub[q]
    <2>1. pub' = [pub EXCEPT ![p] = [pc |-> next, snap |-> NoEvent]]
        BY DEF PublishSandbox
    <2>2. pub \in [Publishers -> PublisherStates]
        BY DEF IInv, Shape, TypeOK, PublisherStates, Pcs
    <2>3. [pc |-> next, snap |-> NoEvent] \in PublisherStates
        BY <1>3 DEF PublisherStates
    <2>4. QED
        BY <2>1, <2>2, <2>3
<1>5. /\ entry \in [Ids -> Entries] /\ entry' \in [Ids -> Entries]
      /\ \A i \in Ids : entry'[i].in = entry[i].in /\ entry'[i].rev = entry[i].rev
    <2>1. entry \in [Ids -> Entries]
        BY DEF IInv, Shape, TypeOK, Entries
    <2>2. CASE p[1] = "delete"
        <3>1. entry' = [entry EXCEPT ![p[2]].canceled = TRUE] /\ p[2] \in Ids
            BY <2>2, PublisherKinds DEF PublishSandbox
        <3>2. QED
            BY <2>1, <3>1 DEF Entries
    <2>3. CASE p[1] # "delete"
        BY <2>1, <2>3 DEF PublishSandbox
    <2>4. QED
        BY <2>2, <2>3
<1>6. TypeOK'
    BY <1>1, <1>2, <1>4, <1>5 DEF IInv, Shape, TypeOK, PublisherStates, Pcs, Entries
<1>7. PublisherShape' /\ PollerFinishes' /\ SendersSubscribe'
    BY <1>1, <1>2, <1>3, <1>4, PublisherKinds
    DEF IInv, Shape, PublisherShape, PollerFinishes, SendersSubscribe, Idle
<1>8. OneAfterTheOther'
    BY <1>1, <1>4, <1>5, PublisherKinds DEF IInv, Shape, OneAfterTheOther, Idle
<1>9. NothingLost'
    <2>1. ASSUME NEW i \in Ids, Owed(i) PROVE Owed(i)' \/ EveryoneHas(Event("sandbox", i, entry'[i].rev))
        <3>1. SandboxEvent(i)' = SandboxEvent(i) /\ \A q \in Publishers : Subject(q)' = Subject(q)
            BY <1>1, <1>5 DEF SandboxEvent, Event, Subject
        <3>2. CASE ev = SandboxEvent(i)
            BY <1>2, <1>5, <3>2, EventKinds DEF SandboxEvent
        <3>3. CASE ev # SandboxEvent(i)
            BY <1>1, <1>4, <2>1, <3>1, <3>3 DEF Owed
        <3>4. QED
            BY <3>2, <3>3
    <2>2. Registered' = Registered
        BY <1>5 DEF Registered
    <2>3. QED
        BY <1>2, <1>5, <2>1, <2>2, NothingLostKept DEF IInv, Registered
<1>10. DeletionReachesReplayed'
    BY <1>1, <1>2, <1>4, <1>5, DeletionKept, PublisherKinds DEF IInv
<1>11. QED
    BY <1>6, <1>7, <1>8, <1>9, <1>10 DEF IInv, Shape

\* The task begins when the create has returned.
LEMMA PublishOutcomeKeeps == ASSUME IInv, NEW p \in Publishers, PublishOutcome(p) PROVE IInv'
PROOF
<1>1. UNCHANGED <<entry, poll, stream, seen>> /\ pub[p].pc = "event" /\ Publish(PlatformEvent(p[2]))
    BY DEF PublishOutcome, clientVars
<1>2. p \in Publishers \ {Poller} /\ p[2] \in Ids
    BY <1>1, PublisherKinds DEF IInv, Shape, PublisherShape
<1>3. /\ chan' \in [Streams -> Seq(Events)] /\ \A w \in Streams : Len(chan'[w]) <= WatchBuffer
      /\ subs' = subs /\ lost' \in SUBSET Streams /\ StreamsKept
    BY <1>1, <1>2, PublishEffect, EventTypes DEF IInv, Shape, clientVars
<1> DEFINE P == IF p[1] = "create" THEN {p, <<"provision", p[2]>>} ELSE {p}
<1>4. /\ pub' \in [Publishers -> PublisherStates]
      /\ \A q \in Publishers \ P : pub'[q] = pub[q]
      /\ pub'[p].pc = "idle" /\ \A q \in P : pub'[q].pc \in {"idle", "pull", "work"}
      /\ P \subseteq Publishers /\ Poller \notin P
    <2>1. pub \in [Publishers -> PublisherStates]
        BY DEF IInv, Shape, TypeOK, PublisherStates, Pcs
    <2>2. CASE p[1] = "create"
        <3>1. PICK pc \in {"pull", "work"} :
                  pub' = [pub EXCEPT ![p].pc = "idle", ![<<"provision", p[2]>>].pc = pc]
            BY <2>2 DEF PublishOutcome
        <3>2. <<"provision", p[2]>> \in Publishers \ {p, Poller}
            BY <1>2, <2>2, PublisherKinds
        <3>3. QED
            BY <1>2, <2>1, <2>2, <3>1, <3>2 DEF PublisherStates, Pcs
    <2>3. CASE p[1] # "create"
        BY <1>2, <2>1, <2>3, GotoEffect DEF PublishOutcome, Pcs
    <2>4. QED
        BY <2>2, <2>3
<1>5. \A q \in P : pub[q].pc \in {"event", "idle"}
    BY <1>1, <1>2, PublisherKinds DEF IInv, Shape, OneAfterTheOther, Idle
<1>6. TypeOK'
    BY <1>1, <1>3, <1>4 DEF IInv, Shape, TypeOK, PublisherStates, Pcs
<1>7. PublisherShape' /\ PollerFinishes' /\ SendersSubscribe'
    BY <1>1, <1>3, <1>4, PublisherKinds
    DEF IInv, Shape, PublisherShape, PollerFinishes, SendersSubscribe, Idle
<1>8. OneAfterTheOther'
    <2> SUFFICES ASSUME NEW i \in Ids
                 PROVE  /\ entry[i].in = "never" =>
                              pub'[<<"create", i>>].pc = "idle" /\ pub'[<<"provision", i>>].pc = "idle"
                        /\ pub'[<<"create", i>>].pc = "idle" \/ pub'[<<"provision", i>>].pc = "idle"
        BY <1>1 DEF OneAfterTheOther, Idle
    <2>1. /\ entry[i].in = "never" =>
                pub[<<"create", i>>].pc = "idle" /\ pub[<<"provision", i>>].pc = "idle"
          /\ pub[<<"create", i>>].pc = "idle" \/ pub[<<"provision", i>>].pc = "idle"
        BY DEF IInv, Shape, OneAfterTheOther, Idle
    <2>2. CASE p = <<"create", i>>
        BY <1>1, <1>4, <2>1, <2>2
    <2>3. CASE p # <<"create", i>>
        <3>1. <<"create", i>> \notin P \/ pub'[<<"create", i>>].pc = "idle"
            BY <1>4, <2>3
        <3>2. <<"provision", i>> \notin P \/ pub'[<<"provision", i>>].pc = "idle"
            BY <1>2, <1>4, <2>3, PublisherKinds
        <3>3. QED
            BY <1>4, <2>1, <3>1, <3>2, PublisherKinds
    <2>4. QED
        BY <2>2, <2>3
<1>9. NothingLost'
    <2>1. ASSUME NEW i \in Ids, Owed(i) PROVE Owed(i)'
        BY <1>1, <1>4, <1>5, <2>1, OwedKept
    <2>2. QED
        BY <1>1, <1>3, <2>1, NothingLostKept DEF IInv, Registered
<1>10. DeletionReachesReplayed'
    <2>1. ASSUME NEW i \in Ids, pub[<<"delete", i>>].pc = "farewell"
          PROVE  pub'[<<"delete", i>>].pc = "farewell"
        BY <1>4, <1>5, <2>1, PublisherKinds
    <2>2. QED
        BY <1>1, <1>3, <2>1, DeletionKept DEF IInv
<1>11. QED
    BY <1>6, <1>7, <1>8, <1>9, <1>10 DEF IInv, Shape

-----------------------------------------------------------------------------
(* The steps of those who publish, by what they have in common: one          *)
(* publisher p of sandbox i goes from a point where it has nothing in hand   *)
(* to another point.                                                         *)

\* What such a step leaves of the shape.
LEMMA StepShape ==
    ASSUME Shape, NEW i \in Ids, NEW k \in {"create", "provision", "operate", "delete"},
           NEW pc \in Pcs \ {"publish"}, Goto(<<k, i>>, pc),
           entry' \in [Ids -> Entries], \A j \in Ids : entry'[j].in = "never" => entry[j].in = "never",
           k \in {"create", "provision"} => pc = "idle" \/ entry'[i].in # "never",
           k = "create" => pc = "idle" \/ pub[<<"provision", i>>].pc = "idle",
           k = "provision" => pc = "idle" \/ pub[<<"provision", i>>].pc # "idle",
           chan' \in [Streams -> Seq(Events)], \A w \in Streams : Len(chan'[w]) <= WatchBuffer,
           lost' \in SUBSET Streams, UNCHANGED <<poll, subs, stream, seen>>
    PROVE  Shape'
PROOF
<1>1. /\ pub \in [Publishers -> PublisherStates] /\ pub' \in [Publishers -> PublisherStates]
      /\ pub'[<<k, i>>].pc = pc /\ pub'[<<k, i>>].snap = pub[<<k, i>>].snap
      /\ \A q \in Publishers \ {<<k, i>>} : pub'[q] = pub[q]
    <2>1. pub \in [Publishers -> PublisherStates] /\ <<k, i>> \in Publishers
        BY PublisherKinds DEF Shape, TypeOK, PublisherStates, Pcs
    <2>2. QED
        BY <2>1, GotoEffect
<1>2. TypeOK'
    BY <1>1 DEF Shape, TypeOK, PublisherStates, Pcs, Entries
<1>3. PublisherShape' /\ PollerFinishes' /\ SendersSubscribe'
    BY <1>1, PublisherKinds DEF Shape, PublisherShape, PollerFinishes, SendersSubscribe, Idle
<1>4. OneAfterTheOther'
    <2> SUFFICES ASSUME NEW j \in Ids
                 PROVE  /\ entry'[j].in = "never" =>
                              pub'[<<"create", j>>].pc = "idle" /\ pub'[<<"provision", j>>].pc = "idle"
                        /\ pub'[<<"create", j>>].pc = "idle" \/ pub'[<<"provision", j>>].pc = "idle"
        BY DEF OneAfterTheOther, Idle
    <2>1. /\ entry[j].in = "never" =>
                pub[<<"create", j>>].pc = "idle" /\ pub[<<"provision", j>>].pc = "idle"
          /\ pub[<<"create", j>>].pc = "idle" \/ pub[<<"provision", j>>].pc = "idle"
        BY DEF Shape, OneAfterTheOther, Idle
    <2>2. /\ <<"create", j>> # <<k, i>> => pub'[<<"create", j>>] = pub[<<"create", j>>]
          /\ <<"provision", j>> # <<k, i>> => pub'[<<"provision", j>>] = pub[<<"provision", j>>]
        BY <1>1, PublisherKinds
    <2>3. CASE <<"create", j>> = <<k, i>>
        BY <1>1, <2>1, <2>2, <2>3
    <2>4. CASE <<"provision", j>> = <<k, i>>
        BY <1>1, <2>1, <2>2, <2>4
    <2>5. QED
        BY <2>1, <2>2, <2>3, <2>4
<1>5. QED
    BY <1>2, <1>3, <1>4 DEF Shape

\* Such a step leaves it to the streams what they have, what is owed for a sandbox that has not
\* changed, and a farewell that is not this one.
LEMMA StepOwes ==
    ASSUME IInv, NEW i \in Ids, NEW k \in {"create", "provision", "operate", "delete"},
           NEW pc \in Pcs, Goto(<<k, i>>, pc),
           pub[<<k, i>>].pc \notin {"snapshot", "publish"}, poll' = poll, StreamsKept,
           \A j \in Ids \ {i} : entry'[j] = entry[j],
           \/ pc = "snapshot"
           \/ entry'[i].in # "registry"
           \/ entry'[i].rev = entry[i].rev /\ entry'[i].in = entry[i].in
    PROVE  NothingLost'
PROOF
<1>1. /\ pub'[<<k, i>>].pc = pc /\ <<k, i>> \in Publishers \ {Poller}
      /\ \A q \in Publishers \ {<<k, i>>} : pub'[q] = pub[q]
    <2>1. pub \in [Publishers -> PublisherStates] /\ <<k, i>> \in Publishers \ {Poller}
        BY PublisherKinds DEF IInv, Shape, TypeOK, PublisherStates, Pcs
    <2>2. QED
        BY <2>1, GotoEffect
<1>2. ASSUME NEW j \in Ids, Owed(j), entry'[j].rev = entry[j].rev PROVE Owed(j)'
    <2> DEFINE P == {<<k, i>>}
    <2>1. /\ P \in SUBSET Publishers /\ \A q \in Publishers \ P : pub'[q] = pub[q]
          /\ \A q \in P : pub[q].pc \notin {"snapshot", "publish"}
        BY <1>1
    <2>2. QED
        BY <1>2, <2>1, OwedKept
<1>3. CASE pc = "snapshot"
    <2>1. Owed(i)'
        BY <1>1, <1>3 DEF Owed, Subject
    <2>2. QED
        BY <1>2, <2>1, NothingLostKept DEF IInv, Registered
<1>4. CASE entry'[i].in # "registry" \/ (entry'[i].rev = entry[i].rev /\ entry'[i].in = entry[i].in)
    BY <1>2, <1>4, NothingLostKept DEF IInv, Registered
<1>5. QED
    BY <1>3, <1>4

\* Such a step, of the hub or not, keeps the invariant, if a removal is announced by a delete.
LEMMA StepKeeps ==
    ASSUME IInv, NEW i \in Ids, NEW k \in {"create", "provision", "operate", "delete"},
           NEW pc \in Pcs \ {"publish"}, Goto(<<k, i>>, pc),
           pub[<<k, i>>].pc \notin {"snapshot", "publish"},
           chan' \in [Streams -> Seq(Events)], \A w \in Streams : Len(chan'[w]) <= WatchBuffer,
           lost' \in SUBSET Streams, UNCHANGED <<poll, subs, stream, seen>>, StreamsKept,
           entry'[i] \in Entries, entry' = [entry EXCEPT ![i] = entry'[i]],
           entry'[i].in = "never" => entry[i].in = "never",
           k \in {"create", "provision"} => pc = "idle" \/ entry'[i].in # "never",
           k = "create" => pc = "idle" \/ pub[<<"provision", i>>].pc = "idle",
           k = "provision" => pc = "idle" \/ pub[<<"provision", i>>].pc # "idle",
           \/ pc = "snapshot"
           \/ entry'[i].in # "registry"
           \/ entry'[i].rev = entry[i].rev /\ entry'[i].in = entry[i].in,
           entry'[i].in = "removed" =>
               entry[i].in = "removed" \/ (k = "delete" /\ pc = "farewell"),
           k = "delete" /\ pub[<<k, i>>].pc = "farewell" => EveryoneHas(DeletedEvent(i))
    PROVE  IInv'
PROOF
<1>1. entry \in [Ids -> Entries] /\ entry' \in [Ids -> Entries] /\ \A j \in Ids \ {i} : entry'[j] = entry[j]
    <2>1. entry \in [Ids -> Entries]
        BY DEF IInv, Shape, TypeOK, Entries
    <2>2. QED
        BY <2>1
<1>2. Shape'
    BY <1>1, StepShape DEF IInv
<1>3. NothingLost'
    BY <1>1, StepOwes
<1>4. DeletionReachesReplayed'
    <2>1. ASSUME NEW j \in Ids, <<"delete", j>> # <<k, i>>
          PROVE  pub'[<<"delete", j>>] = pub[<<"delete", j>>]
        BY <2>1 DEF Goto
    <2>2. k = "delete" => pub'[<<"delete", i>>].pc = pc
        BY PublisherKinds DEF Goto, IInv, Shape, TypeOK
    <2>3. QED
        BY <1>1, <2>1, <2>2, DeletionKept DEF IInv
<1>5. QED
    BY <1>2, <1>3, <1>4 DEF IInv

\* What is known of the hub and the entries before a step, and after one that leaves them alone.
LEMMA Untouched ==
    ASSUME IInv
    PROVE  /\ entry \in [Ids -> Entries] /\ pub \in [Publishers -> PublisherStates]
           /\ UNCHANGED <<hubVars, clientVars>> =>
                /\ chan' \in [Streams -> Seq(Events)] /\ \A w \in Streams : Len(chan'[w]) <= WatchBuffer
                /\ lost' \in SUBSET Streams /\ UNCHANGED <<subs, stream, seen>> /\ StreamsKept
PROOF
<1>1. entry \in [Ids -> Entries] /\ pub \in [Publishers -> PublisherStates]
    BY DEF IInv, Shape, TypeOK, Entries, PublisherStates, Pcs
<1>2. ASSUME UNCHANGED <<hubVars, clientVars>>
      PROVE  /\ chan' \in [Streams -> Seq(Events)] /\ \A w \in Streams : Len(chan'[w]) <= WatchBuffer
             /\ lost' \in SUBSET Streams /\ UNCHANGED <<subs, stream, seen>> /\ StreamsKept
    <2>1. chan' = chan /\ lost' = lost /\ UNCHANGED <<subs, stream, seen>>
        BY <1>2 DEF hubVars, clientVars
    <2>2. QED
        BY <1>2, <2>1, StreamsUntouched DEF IInv, Shape, TypeOK
<1>3. QED
    BY <1>1, <1>2

\* A registration is published.
LEMMA CreateKeeps == ASSUME IInv, NEW i \in Ids, Create(i) PROVE IInv'
PROOF
<1>1. /\ entry' = [entry EXCEPT ![i].in = "registry", ![i].rev = 1] /\ entry[i].in = "never"
      /\ Goto(<<"create", i>>, "snapshot") /\ UNCHANGED <<poll, hubVars, clientVars>>
    BY DEF Create
<1>2. entry' = [entry EXCEPT ![i] = entry'[i]] /\ entry'[i] \in Entries /\ entry'[i].in = "registry"
    BY <1>1, Untouched DEF Entries
<1>3. pub[<<"provision", i>>].pc = "idle" /\ pub[<<"create", i>>].pc = "idle"
    BY <1>1 DEF IInv, Shape, OneAfterTheOther, Idle
<1>4. QED
    BY <1>1, <1>2, <1>3, Untouched, StepKeeps DEF Pcs

\* Pulling and Pulled tell nothing of the state.
LEMMA ProvisionPullKeeps == ASSUME IInv, NEW i \in Ids, ProvisionPull(i) PROVE IInv'
PROOF
<1> DEFINE pc == IF pub[<<"provision", i>>].pc = "pull" THEN "pulled" ELSE "work"
<1>1. /\ UNCHANGED <<entry, poll, clientVars>> /\ Publish(PlatformEvent(i))
      /\ Goto(<<"provision", i>>, pc) /\ pub[<<"provision", i>>].pc \in {"pull", "pulled"}
    BY DEF ProvisionPull
<1>2. /\ chan' \in [Streams -> Seq(Events)] /\ \A w \in Streams : Len(chan'[w]) <= WatchBuffer
      /\ subs' = subs /\ lost' \in SUBSET Streams /\ StreamsKept
    BY <1>1, PublishEffect, EventTypes DEF IInv, Shape
<1>3. UNCHANGED <<stream, seen>> /\ pc \in Pcs \ {"publish"}
    BY <1>1 DEF clientVars, Pcs
<1>4. entry' = [entry EXCEPT ![i] = entry'[i]] /\ entry'[i] = entry[i] /\ entry'[i] \in Entries
    BY <1>1, Untouched
<1>5. entry[i].in # "never"
    BY <1>1 DEF IInv, Shape, OneAfterTheOther, Idle
<1>6. QED
    BY <1>1, <1>2, <1>3, <1>4, <1>5, StepKeeps

\* What is observed of an entry can be changed.
LEMMA ExitedTyped ==
    ASSUME NEW entries \in [Ids -> Entries], NEW i \in Ids, NEW exited \in BOOLEAN
    PROVE  /\ [entries EXCEPT ![i].exited = exited] \in [Ids -> Entries]
           /\ [entries EXCEPT ![i].exited = exited][i].in = entries[i].in
PROOF
<1>1. [entries EXCEPT ![i].exited = exited] \in [Ids -> Entries]
    BY DEF Entries
<1>2. [entries[i] EXCEPT !.exited = exited].in = entries[i].in
    <2>1. entries[i] \in Entries
        OBVIOUS
    <2>2. QED
        BY <2>1 DEF Entries
<1>3. [entries EXCEPT ![i].exited = exited][i] = [entries[i] EXCEPT !.exited = exited]
    OBVIOUS
<1>4. QED
    BY <1>1, <1>2, <1>3

\* A change of an entry is counted, and may change what is observed of it.
LEMMA ChangeEffect ==
    ASSUME entry \in [Ids -> Entries], NEW i \in Ids, NEW exited \in BOOLEAN,
           NEW new, new = [entry EXCEPT ![i].rev = @ + 1, ![i].exited = exited]
    PROVE  /\ new = [entry EXCEPT ![i] = new[i]] /\ new \in [Ids -> Entries]
           /\ new[i].in = entry[i].in
PROOF
<1> DEFINE counted == [entry EXCEPT ![i].rev = @ + 1]
<1>1. counted \in [Ids -> Entries] /\ counted[i].in = entry[i].in
    BY DEF Entries
<1>2. new = [counted EXCEPT ![i].exited = exited] /\ counted = [entry EXCEPT ![i] = counted[i]]
    OBVIOUS
<1> HIDE DEF counted
<1>3. new \in [Ids -> Entries] /\ new[i].in = entry[i].in
    <2>1. /\ [counted EXCEPT ![i].exited = exited] \in [Ids -> Entries]
          /\ [counted EXCEPT ![i].exited = exited][i].in = counted[i].in
        BY <1>1, ExitedTyped
    <2>2. QED
        BY <1>1, <1>2, <2>1, Zenon
<1>4. new = [entry EXCEPT ![i] = new[i]]
    OBVIOUS
<1>5. QED
    BY <1>3, <1>4

\* What came of a create is published, unless the create was canceled and failed.
LEMMA ProvisionEndKeeps == ASSUME IInv, NEW i \in Ids, ProvisionEnd(i) PROVE IInv'
PROOF
<1>1. /\ UNCHANGED <<poll, hubVars, clientVars>> /\ pub[<<"provision", i>>].pc \in {"pulled", "work"}
      /\ \/ Observe(i, FALSE) /\ Goto(<<"provision", i>>, "snapshot")
         \/ Goto(<<"provision", i>>, "idle") /\ UNCHANGED entry
    BY DEF ProvisionEnd
<1>2. entry[i].in # "never"
    BY <1>1 DEF IInv, Shape, OneAfterTheOther, Idle
<1>3. CASE Observe(i, FALSE) /\ Goto(<<"provision", i>>, "snapshot")
    <2>1. /\ entry' = [entry EXCEPT ![i] = entry'[i]] /\ entry'[i] \in Entries
          /\ entry'[i].in = entry[i].in
        <3>1. entry' = [entry EXCEPT ![i].rev = @ + 1, ![i].exited = FALSE]
            BY <1>3 DEF Observe
        <3>2. entry \in [Ids -> Entries]
            BY Untouched
        <3>3. /\ entry' = [entry EXCEPT ![i] = entry'[i]] /\ entry' \in [Ids -> Entries]
              /\ entry'[i].in = entry[i].in
            BY <3>1, <3>2, ChangeEffect
        <3>4. QED
            BY <3>3
    <2>2. QED
        BY <1>1, <1>2, <1>3, <2>1, Untouched, StepKeeps DEF Pcs
<1>4. CASE Goto(<<"provision", i>>, "idle") /\ UNCHANGED entry
    <2>1. entry' = [entry EXCEPT ![i] = entry'[i]] /\ entry'[i] = entry[i] /\ entry'[i] \in Entries
        BY <1>4, Untouched
    <2>2. QED
        BY <1>1, <1>2, <1>4, <2>1, Untouched, StepKeeps DEF Pcs
<1>5. QED
    BY <1>1, <1>3, <1>4

\* A stop or start begins without a word.
LEMMA BeginOperateKeeps == ASSUME IInv, NEW i \in Ids, BeginOperate(i) PROVE IInv'
PROOF
<1>1. /\ UNCHANGED <<entry, poll, hubVars, clientVars>> /\ pub[<<"operate", i>>].pc = "idle"
      /\ Goto(<<"operate", i>>, "work")
    BY DEF BeginOperate, Pollable, Idle
<1>2. entry' = [entry EXCEPT ![i] = entry'[i]] /\ entry'[i] = entry[i] /\ entry'[i] \in Entries
    BY <1>1, Untouched
<1>3. QED
    BY <1>1, <1>2, Untouched, StepKeeps DEF Pcs

\* The outcome of a stop or start is published, unless it failed.
LEMMA OperateEndKeeps == ASSUME IInv, NEW i \in Ids, OperateEnd(i) PROVE IInv'
PROOF
<1>1. /\ UNCHANGED <<poll, hubVars, clientVars>> /\ pub[<<"operate", i>>].pc = "work"
      /\ \/ Observe(i, FALSE) /\ Goto(<<"operate", i>>, "snapshot")
         \/ Goto(<<"operate", i>>, "idle") /\ UNCHANGED entry
    BY DEF OperateEnd
<1>2. CASE Observe(i, FALSE) /\ Goto(<<"operate", i>>, "snapshot")
    <2>1. /\ entry' = [entry EXCEPT ![i] = entry'[i]] /\ entry'[i] \in Entries
          /\ entry'[i].in = entry[i].in
        <3>1. entry' = [entry EXCEPT ![i].rev = @ + 1, ![i].exited = FALSE]
            BY <1>2 DEF Observe
        <3>2. entry \in [Ids -> Entries]
            BY Untouched
        <3>3. /\ entry' = [entry EXCEPT ![i] = entry'[i]] /\ entry' \in [Ids -> Entries]
              /\ entry'[i].in = entry[i].in
            BY <3>1, <3>2, ChangeEffect
        <3>4. QED
            BY <3>3
    <2>2. QED
        BY <1>1, <1>2, <2>1, Untouched, StepKeeps DEF Pcs
<1>3. CASE Goto(<<"operate", i>>, "idle") /\ UNCHANGED entry
    <2>1. entry' = [entry EXCEPT ![i] = entry'[i]] /\ entry'[i] = entry[i] /\ entry'[i] \in Entries
        BY <1>3, Untouched
    <2>2. QED
        BY <1>1, <1>3, <2>1, Untouched, StepKeeps DEF Pcs
<1>4. QED
    BY <1>1, <1>2, <1>3

\* The Deleting condition is published.
LEMMA BeginDeleteKeeps == ASSUME IInv, NEW i \in Ids, BeginDelete(i) PROVE IInv'
PROOF
<1>1. /\ UNCHANGED <<poll, hubVars, clientVars>> /\ pub[<<"delete", i>>].pc = "idle"
      /\ entry[i].in = "registry" /\ Goto(<<"delete", i>>, "snapshot")
      /\ entry' = [entry EXCEPT ![i].rev = @ + 1, ![i].exited = FALSE, ![i].deleting = TRUE]
    BY DEF BeginDelete, Idle, Registered
<1>2. entry' = [entry EXCEPT ![i] = entry'[i]] /\ entry'[i].in = "registry" /\ entry'[i] \in Entries
    <2> DEFINE e == [entry EXCEPT ![i].rev = @ + 1, ![i].exited = FALSE]
    <2>1. e \in [Ids -> Entries] /\ e[i].in = "registry" /\ e = [entry EXCEPT ![i] = e[i]]
        BY <1>1, ChangeEffect, Untouched
    <2>2. entry' = [e EXCEPT ![i].deleting = TRUE]
        BY <1>1, Untouched
    <2> HIDE DEF e
    <2>3. QED
        BY <2>1, <2>2 DEF Entries
<1>3. QED
    BY <1>1, <1>2, Untouched, StepKeeps DEF Pcs

\* A removal has its farewell to come.
LEMMA DeleteTeardownKeeps == ASSUME IInv, NEW i \in Ids, DeleteTeardown(i) PROVE IInv'
PROOF
<1>1. /\ UNCHANGED <<poll, hubVars, clientVars>> /\ pub[<<"delete", i>>].pc = "teardown"
      /\ \/ Goto(<<"delete", i>>, "idle") /\ UNCHANGED entry
         \/ Goto(<<"delete", i>>, "farewell") /\ entry' = [entry EXCEPT ![i].in = "removed"]
    BY DEF DeleteTeardown
<1>2. CASE Goto(<<"delete", i>>, "idle") /\ UNCHANGED entry
    <2>1. entry' = [entry EXCEPT ![i] = entry'[i]] /\ entry'[i] = entry[i] /\ entry'[i] \in Entries
        BY <1>2, Untouched
    <2>2. QED
        BY <1>1, <1>2, <2>1, Untouched, StepKeeps DEF Pcs
<1>3. CASE Goto(<<"delete", i>>, "farewell") /\ entry' = [entry EXCEPT ![i].in = "removed"]
    <2>1. entry' = [entry EXCEPT ![i] = entry'[i]] /\ entry'[i].in = "removed" /\ entry'[i] \in Entries
        BY <1>3, Untouched DEF Entries
    <2>2. QED
        BY <1>1, <1>3, <2>1, Untouched, StepKeeps DEF Pcs
<1>4. QED
    BY <1>1, <1>2, <1>3

\* The farewell reaches every stream for which nothing is dropped.
LEMMA DeleteFarewellKeeps == ASSUME IInv, NEW i \in Ids, DeleteFarewell(i) PROVE IInv'
PROOF
<1>1. /\ UNCHANGED <<entry, poll, clientVars>> /\ Publish(DeletedEvent(i))
      /\ Goto(<<"delete", i>>, "idle") /\ pub[<<"delete", i>>].pc = "farewell"
    BY DEF DeleteFarewell
<1>2. /\ chan' \in [Streams -> Seq(Events)] /\ \A w \in Streams : Len(chan'[w]) <= WatchBuffer
      /\ subs' = subs /\ lost' \in SUBSET Streams /\ StreamsKept /\ EveryoneHas(DeletedEvent(i))
    BY <1>1, PublishEffect, EventTypes, EventKinds DEF IInv, Shape
<1>3. UNCHANGED <<stream, seen>>
    BY <1>1 DEF clientVars
<1>4. entry' = [entry EXCEPT ![i] = entry'[i]] /\ entry'[i] = entry[i] /\ entry'[i] \in Entries
    BY <1>1, Untouched
<1>5. QED
    BY <1>1, <1>2, <1>3, <1>4, StepKeeps DEF Pcs

-----------------------------------------------------------------------------
(* The poller.                                                               *)

\* Whoever has changed is on the list of what is to be published.
LEMMA PollApplyKeeps == ASSUME IInv, PollApply PROVE IInv'
PROOF
<1>1. /\ UNCHANGED <<hubVars, clientVars>> /\ Goto(Poller, "tails") /\ pub[Poller].pc = "idle"
      /\ poll.left = {}
    BY DEF PollApply, Idle, IInv, Shape, PollerFinishes
<1>2. PICK changed \in SUBSET Ids, exited \in SUBSET Ids :
          /\ exited \subseteq changed
          /\ poll' = [tails |-> exited, left |-> changed, cur |-> None]
          /\ entry' = [i \in Ids |-> IF i \in changed
                                     THEN [entry[i] EXCEPT !.rev = @ + 1, !.exited = i \in exited]
                                     ELSE entry[i]]
    BY DEF PollApply
<1>3. entry' \in [Ids -> Entries] /\ \A i \in Ids : entry'[i].in = entry[i].in
    <2>1. ASSUME NEW i \in Ids, i \in changed
          PROVE  entry'[i] \in Entries /\ entry'[i].in = entry[i].in
        <3> DEFINE e == [entry EXCEPT ![i].rev = @ + 1, ![i].exited = i \in exited]
        <3>1. entry \in [Ids -> Entries] /\ (i \in exited) \in BOOLEAN
            BY Untouched
        <3>2. e \in [Ids -> Entries] /\ e[i].in = entry[i].in
            BY <3>1, ChangeEffect
        <3>3. e[i] = [entry[i] EXCEPT !.rev = @ + 1, !.exited = i \in exited]
            BY <3>1
        <3>4. entry'[i] = e[i]
            BY <1>2, <2>1, <3>3
        <3> HIDE DEF e
        <3>5. QED
            BY <3>2, <3>4
    <2>2. ASSUME NEW i \in Ids, i \notin changed
          PROVE  entry'[i] = entry[i] /\ entry[i] \in Entries
        BY <1>2, <2>2, Untouched
    <2>3. entry' = [i \in Ids |-> entry'[i]]
        BY <1>2
    <2>4. QED
        BY <2>1, <2>2, <2>3
<1>4. /\ pub' \in [Publishers -> PublisherStates] /\ pub'[Poller].pc = "tails"
      /\ pub'[Poller].snap = pub[Poller].snap /\ \A q \in Publishers \ {Poller} : pub'[q] = pub[q]
    BY <1>1, GotoEffect, PublisherKinds, Untouched DEF Pcs
<1>5. /\ chan' = chan /\ subs' = subs /\ lost' = lost /\ UNCHANGED <<stream, seen>> /\ StreamsKept
    BY <1>1, StreamsUntouched DEF hubVars, clientVars
<1>6. TypeOK'
    BY <1>2, <1>3, <1>4, <1>5 DEF IInv, Shape, TypeOK, Entries, PublisherStates, Pcs
<1>7. PublisherShape' /\ PollerFinishes' /\ SendersSubscribe'
    BY <1>2, <1>4, <1>5, PublisherKinds
    DEF IInv, Shape, PublisherShape, PollerFinishes, SendersSubscribe, Idle
<1>8. OneAfterTheOther'
    BY <1>3, <1>4, PublisherKinds DEF IInv, Shape, OneAfterTheOther, Idle
<1>9. NothingLost'
    <2>1. ASSUME NEW i \in Ids PROVE Owed(i)' \/ (entry'[i].rev = entry[i].rev /\ ~Owed(i))
        <3>1. CASE i \in changed
            BY <1>2, <3>1 DEF Owed
        <3>2. CASE i \notin changed /\ Owed(i)
            <4> DEFINE P == {Poller}
            <4>1. /\ P \in SUBSET Publishers /\ \A q \in Publishers \ P : pub'[q] = pub[q]
                  /\ \A q \in P : pub[q].pc \notin {"snapshot", "publish"} /\ Poller \in P
                BY <1>1, <1>4, PublisherKinds
            <4>2. entry'[i].rev = entry[i].rev
                BY <1>2, <3>2
            <4>3. QED
                BY <1>1, <3>2, <4>1, <4>2, OwedKept
        <3>3. CASE i \notin changed /\ ~Owed(i)
            BY <1>2, <3>3
        <3>4. QED
            BY <3>1, <3>2, <3>3
    <2>2. Registered' = Registered
        BY <1>3 DEF Registered
    <2>3. QED
        BY <1>5, <2>1, <2>2, NothingLostKept DEF IInv, Registered
<1>10. DeletionReachesReplayed'
    BY <1>3, <1>4, <1>5, DeletionKept, PublisherKinds DEF IInv
<1>11. QED
    BY <1>6, <1>7, <1>8, <1>9, <1>10 DEF IInv, Shape

\* A step of the poller that publishes no state: it may go on, note that it has gone on with a
\* sandbox, and count a change of one that is on its list.
LEMMA PollStep ==
    ASSUME IInv, NEW pc \in {"tails", "warn", "snapshot"}, Goto(Poller, pc),
           pub[Poller].pc \in {"tails", "warn"},
           poll' \in [tails : SUBSET Ids, left : SUBSET Ids, cur : Ids \cup {None}],
           poll'.tails \subseteq poll'.left, pc # "tails" => poll'.cur \in Ids,
           \A i \in poll.left : i \in poll'.left \/ (pc = "snapshot" /\ poll'.cur = i),
           entry' \in [Ids -> Entries], \A i \in Ids : entry'[i].in = entry[i].in,
           \A i \in Ids : entry'[i].rev = entry[i].rev \/ i \in poll'.left,
           chan' \in [Streams -> Seq(Events)], \A w \in Streams : Len(chan'[w]) <= WatchBuffer,
           lost' \in SUBSET Streams, UNCHANGED <<subs, stream, seen>>, StreamsKept
    PROVE  IInv'
PROOF
<1>1. /\ pub' \in [Publishers -> PublisherStates] /\ pub'[Poller].pc = pc
      /\ pub'[Poller].snap = pub[Poller].snap /\ \A q \in Publishers \ {Poller} : pub'[q] = pub[q]
    BY GotoEffect, PublisherKinds, Untouched DEF Pcs
<1>2. TypeOK'
    BY <1>1 DEF IInv, Shape, TypeOK, Entries, PublisherStates, Pcs
<1>3. PublisherShape' /\ PollerFinishes' /\ SendersSubscribe'
    BY <1>1, PublisherKinds
    DEF IInv, Shape, PublisherShape, PollerFinishes, SendersSubscribe, Idle
<1>4. OneAfterTheOther'
    BY <1>1, PublisherKinds DEF IInv, Shape, OneAfterTheOther, Idle
<1>5. NothingLost'
    <2>1. ASSUME NEW i \in Ids PROVE Owed(i)' \/ (entry'[i].rev = entry[i].rev /\ ~Owed(i))
        <3>1. CASE i \in poll'.left
            BY <3>1 DEF Owed
        <3>2. CASE i \in poll.left /\ i \notin poll'.left
            BY <1>1, <3>2, PublisherKinds DEF Owed, Subject
        <3>3. CASE i \notin poll.left /\ i \notin poll'.left /\ Owed(i)
            <4> DEFINE P == {Poller}
            <4>1. /\ P \in SUBSET Publishers /\ \A q \in Publishers \ P : pub'[q] = pub[q]
                  /\ \A q \in P : pub[q].pc \notin {"snapshot", "publish"} /\ Poller \in P
                BY <1>1, PublisherKinds
            <4>2. entry'[i].rev = entry[i].rev
                BY <3>3
            <4>3. QED
                BY <3>3, <4>1, <4>2, OwedKept
        <3>4. QED
            BY <3>1, <3>2, <3>3
    <2>2. Registered' = Registered
        BY DEF Registered
    <2>3. QED
        BY <2>1, <2>2, NothingLostKept DEF IInv, Registered
<1>6. DeletionReachesReplayed'
    BY <1>1, DeletionKept, PublisherKinds DEF IInv
<1>7. QED
    BY <1>2, <1>3, <1>4, <1>5, <1>6 DEF IInv, Shape

\* A warning changes an entry that is still to be published.
LEMMA PollTailKeeps == ASSUME IInv, NEW i \in Ids, PollTail(i) PROVE IInv'
PROOF
<1>1. /\ UNCHANGED <<hubVars, clientVars>> /\ pub[Poller].pc = "tails" /\ i \in poll.left
      /\ poll \in [tails : SUBSET Ids, left : SUBSET Ids, cur : Ids \cup {None}]
      /\ poll.tails \subseteq poll.left
    BY DEF PollTail, IInv, Shape, TypeOK, PollerFinishes
<1>2. CASE poll' = [poll EXCEPT !.tails = @ \ {i}] /\ UNCHANGED <<entry, pub>>
    <2>1. Goto(Poller, "tails")
        <3>1. pub[Poller] = [pub[Poller] EXCEPT !.pc = "tails"] /\ pub = [pub EXCEPT ![Poller] = pub[Poller]]
            BY <1>1, Untouched, PublisherKinds DEF PublisherStates
        <3>2. QED
            BY <1>2, <3>1 DEF Goto
    <2>2. QED
        BY <1>1, <1>2, <2>1, Untouched, PollStep
<1>3. CASE /\ Observe(i, TRUE) /\ Goto(Poller, "warn")
           /\ poll' = [poll EXCEPT !.tails = @ \ {i}, !.cur = i]
    <2>1. /\ entry' = [entry EXCEPT ![i] = entry'[i]] /\ entry' \in [Ids -> Entries]
          /\ entry'[i].in = entry[i].in
        <3>1. entry' = [entry EXCEPT ![i].rev = @ + 1, ![i].exited = TRUE]
            BY <1>3 DEF Observe
        <3>2. entry \in [Ids -> Entries]
            BY Untouched
        <3>3. QED
            BY <3>1, <3>2, ChangeEffect
    <2>2. \A j \in Ids \ {i} : entry'[j] = entry[j]
        BY <2>1, Untouched
    <2>3. QED
        BY <1>1, <1>3, <2>1, <2>2, Untouched, PollStep
<1>4. QED
    BY <1>2, <1>3 DEF PollTail

\* The warning itself is a platform event.
LEMMA PollWarnKeeps == ASSUME IInv, PollWarn PROVE IInv'
PROOF
<1>1. /\ UNCHANGED <<entry, poll, clientVars>> /\ pub[Poller].pc = "warn" /\ Goto(Poller, "tails")
      /\ Publish(PlatformEvent(poll.cur)) /\ poll.cur \in Ids
    BY DEF PollWarn, IInv, Shape, PublisherShape
<1>2. /\ chan' \in [Streams -> Seq(Events)] /\ \A w \in Streams : Len(chan'[w]) <= WatchBuffer
      /\ subs' = subs /\ lost' \in SUBSET Streams /\ StreamsKept
    BY <1>1, PublishEffect, EventTypes DEF IInv, Shape
<1>3. /\ poll \in [tails : SUBSET Ids, left : SUBSET Ids, cur : Ids \cup {None}]
      /\ poll.tails \subseteq poll.left /\ UNCHANGED <<stream, seen>>
    BY <1>1 DEF clientVars, IInv, Shape, TypeOK, PollerFinishes
<1>4. QED
    BY <1>1, <1>2, <1>3, Untouched, PollStep

\* What leaves the list is what the poller takes a snapshot of next.
LEMMA PollPublishKeeps == ASSUME IInv, NEW i \in Ids, PollPublish(i) PROVE IInv'
PROOF
<1>1. /\ UNCHANGED <<entry, hubVars, clientVars>> /\ pub[Poller].pc = "tails" /\ Goto(Poller, "snapshot")
      /\ poll \in [tails : SUBSET Ids, left : SUBSET Ids, cur : Ids \cup {None}] /\ poll.tails = {}
      /\ poll' = [poll EXCEPT !.left = @ \ {i}, !.cur = i]
    BY DEF PollPublish, IInv, Shape, TypeOK
<1>2. QED
    BY <1>1, Untouched, PollStep

-----------------------------------------------------------------------------
(* The streams.                                                              *)

\* What a step of a stream leaves of the publishers.
LEMMA PublishersUntouched ==
    ASSUME Shape, UNCHANGED registryVars
    PROVE  /\ UNCHANGED <<entry, pub, poll>>
           /\ PublisherShape' /\ OneAfterTheOther' /\ PollerFinishes'
           /\ Registered' = Registered /\ \A i \in Ids : SandboxEvent(i)' = SandboxEvent(i)
           /\ \A i \in Ids : Owed(i)' <=> Owed(i)
PROOF
<1>1. UNCHANGED <<entry, pub, poll>>
    BY DEF registryVars
<1>2. PublisherShape' /\ OneAfterTheOther' /\ PollerFinishes'
    BY <1>1 DEF Shape, PublisherShape, OneAfterTheOther, PollerFinishes, Idle
<1>3. Registered' = Registered /\ \A i \in Ids : SandboxEvent(i)' = SandboxEvent(i)
    BY <1>1 DEF Registered, SandboxEvent, Event
<1>4. \A i \in Ids : Owed(i)' <=> Owed(i)
    BY <1>1, <1>3 DEF Owed, Subject
<1>5. QED
    BY <1>1, <1>2, <1>3, <1>4

StreamStates == [pc : {"off", "open", "send", "closed"}, todo : SUBSET Events, base : SUBSET Ids]

\* What a step of a stream has to leave of the types.
LEMMA StreamTypes ==
    ASSUME TypeOK
    PROVE  /\ subs \subseteq Streams /\ lost \subseteq Streams /\ chan \in [Streams -> Seq(Events)]
           /\ \A v \in Streams : Len(chan[v]) <= WatchBuffer
           /\ stream \in [Streams -> StreamStates] /\ seen \in [Streams -> SUBSET Events]
           /\ /\ UNCHANGED registryVars /\ subs' \subseteq Streams /\ lost' \subseteq Streams
              /\ chan' \in [Streams -> Seq(Events)] /\ \A v \in Streams : Len(chan'[v]) <= WatchBuffer
              /\ stream' \in [Streams -> StreamStates] /\ seen' \in [Streams -> SUBSET Events]
              => TypeOK'
PROOF
  BY DEF registryVars, TypeOK, StreamStates

\* While the streams keep what they have, nothing is lost by a step of theirs.
LEMMA StreamStep ==
    ASSUME IInv, UNCHANGED registryVars, TypeOK', SendersSubscribe', StreamsKept
    PROVE  IInv'
PROOF
<1>1. /\ UNCHANGED <<entry, pub, poll>> /\ PublisherShape' /\ OneAfterTheOther' /\ PollerFinishes'
      /\ Registered' = Registered /\ \A i \in Ids : Owed(i)' <=> Owed(i)
    BY PublishersUntouched DEF IInv
<1>2. NothingLost'
    BY <1>1, NothingLostKept DEF IInv, Registered
<1>3. DeletionReachesReplayed'
    BY <1>1, DeletionKept DEF IInv
<1>4. QED
    BY <1>1, <1>2, <1>3 DEF IInv, Shape

\* A handler subscribes before it looks at the registry.
LEMMA SubscribeKeeps == ASSUME IInv, NEW w \in Streams, Subscribe(w) PROVE IInv'
PROOF
<1>1. /\ UNCHANGED <<registryVars, chan, seen, lost>> /\ subs' = subs \cup {w}
      /\ stream' = [stream EXCEPT ![w].pc = "open"] /\ stream[w].pc = "off"
    BY DEF Subscribe
<1>2. TypeOK'
    <2>1. stream' \in [Streams -> StreamStates]
        BY <1>1, StreamTypes DEF IInv, Shape, StreamStates
    <2>2. QED
        BY <1>1, <2>1, StreamTypes DEF IInv, Shape
<1>3. SendersSubscribe' /\ StreamsKept
    BY <1>1 DEF IInv, Shape, TypeOK, SendersSubscribe, StreamsKept, Served, Reaches
<1>4. QED
    BY <1>1, <1>2, <1>3, StreamStep

\* The replay has every sandbox of the registry as it is, and none that is removed.
LEMMA ReplayKeeps == ASSUME IInv, NEW w \in Streams, Replay(w) PROVE IInv'
PROOF
<1> DEFINE todo == {SandboxEvent(i) : i \in Registered}
<1>1. /\ UNCHANGED <<registryVars, subs, chan, seen, lost>> /\ stream[w].pc = "open"
      /\ stream' = [stream EXCEPT ![w] = [pc |-> "send", base |-> Registered, todo |-> todo]]
    BY DEF Replay, hubVars
<1>2. Registered \subseteq Ids /\ todo \subseteq Events
    BY EventTypes DEF Registered, IInv, Shape
<1>3. TypeOK'
    BY <1>1, <1>2 DEF registryVars, IInv, Shape, TypeOK
<1>4. /\ stream'[w] = [pc |-> "send", base |-> Registered, todo |-> todo]
      /\ \A v \in Streams \ {w} : stream'[v] = stream[v]
    BY <1>1 DEF IInv, Shape, TypeOK
<1>5. SendersSubscribe'
    BY <1>1, <1>4 DEF IInv, Shape, SendersSubscribe
<1>6. /\ UNCHANGED <<entry, pub, poll>> /\ PublisherShape' /\ OneAfterTheOther' /\ PollerFinishes'
      /\ Registered' = Registered /\ \A i \in Ids : SandboxEvent(i)' = SandboxEvent(i)
      /\ \A i \in Ids : Owed(i)' <=> Owed(i)
    BY <1>1, PublishersUntouched DEF IInv
<1>7. \A v \in Streams \ {w} : Served(v)' = Served(v) /\ Reaches(v)' = Reaches(v)
    BY <1>1, <1>4 DEF Served, Reaches
<1>8. NothingLost'
    <2> SUFFICES ASSUME NEW v \in Streams, NEW i \in Registered, Served(v)', ~Owed(i)'
                 PROVE  SandboxEvent(i) \in Reaches(v)'
        BY <1>2, <1>6 DEF NothingLost
    <2>1. CASE v = w
        BY <1>4, <2>1 DEF Reaches
    <2>2. CASE v # w
        BY <1>2, <1>6, <1>7, <2>2 DEF IInv, NothingLost
    <2>3. QED
        BY <2>1, <2>2
<1>9. DeletionReachesReplayed'
    <2> SUFFICES ASSUME NEW v \in Streams, NEW i \in Ids, Served(v)', i \in stream'[v].base,
                        entry[i].in = "removed", pub[<<"delete", i>>].pc # "farewell"
                 PROVE  DeletedEvent(i) \in Reaches(v)'
        BY <1>6 DEF DeletionReachesReplayed, DeletedEvent, Event
    <2>1. CASE v = w
        BY <1>4, <2>1 DEF Registered
    <2>2. CASE v # w
        BY <1>4, <1>7, <2>2 DEF IInv, DeletionReachesReplayed
    <2>3. QED
        BY <2>1, <2>2
<1>10. QED
    BY <1>3, <1>5, <1>6, <1>8, <1>9 DEF IInv, Shape

\* What is sent of the replay has been seen.
LEMMA SendReplayKeeps == ASSUME IInv, NEW w \in Streams, SendReplay(w) PROVE IInv'
PROOF
<1>1. PICK ev \in stream[w].todo :
          /\ stream' = [stream EXCEPT ![w].todo = @ \ {ev}]
          /\ seen' = [seen EXCEPT ![w] = @ \cup {ev}]
    BY DEF SendReplay
<1>2. UNCHANGED registryVars /\ UNCHANGED <<subs, chan, lost>>
    BY DEF SendReplay, hubVars
<1>3. stream[w].todo \subseteq Events
    BY DEF IInv, Shape, TypeOK
<1>4. TypeOK'
    <2>1. stream' \in [Streams -> StreamStates] /\ seen' \in [Streams -> SUBSET Events]
        BY <1>1, <1>3, StreamTypes DEF IInv, Shape, StreamStates
    <2>2. QED
        BY <1>2, <2>1, StreamTypes DEF IInv, Shape
<1>5. SendersSubscribe' /\ StreamsKept
    BY <1>1, <1>2 DEF IInv, Shape, TypeOK, SendersSubscribe, StreamsKept, Served, Reaches
<1>6. QED
    BY <1>2, <1>4, <1>5, StreamStep

\* What is taken from the channel has been seen, unless it is a platform event.
LEMMA ReceiveKeeps == ASSUME IInv, NEW w \in Streams, Receive(w) PROVE IInv'
PROOF
<1>1. /\ chan[w] # <<>> /\ chan' = [chan EXCEPT ![w] = Tail(@)]
      /\ seen' = [seen EXCEPT ![w] = IF Head(chan[w]).kind = "platform" THEN @
                                     ELSE @ \cup {Head(chan[w])}]
      /\ UNCHANGED registryVars /\ UNCHANGED <<subs, lost, stream>>
    BY DEF Receive
<1>2. /\ chan[w] \in Seq(Events) /\ Len(chan[w]) \in Nat /\ Len(chan[w]) <= WatchBuffer
      /\ WatchBuffer \in Nat /\ chan \in [Streams -> Seq(Events)] /\ seen \in [Streams -> SUBSET Events]
    BY WatchBufferAssumption DEF IInv, Shape, TypeOK
<1>3. /\ Head(chan[w]) \in Events /\ Tail(chan[w]) \in Seq(Events) /\ Len(Tail(chan[w])) = Len(chan[w]) - 1
      /\ Head(chan[w]) = chan[w][1]
      /\ \A n \in DOMAIN chan[w] \ {1} : n - 1 \in DOMAIN Tail(chan[w]) /\ Tail(chan[w])[n - 1] = chan[w][n]
    BY <1>1, <1>2
<1>4. TypeOK'
    <2>1. chan' \in [Streams -> Seq(Events)] /\ \A v \in Streams : Len(chan'[v]) <= WatchBuffer
        BY <1>1, <1>2, <1>3 DEF IInv, Shape, TypeOK
    <2>2. seen' \in [Streams -> SUBSET Events]
        BY <1>1, <1>2, <1>3
    <2>3. QED
        BY <1>1, <2>1, <2>2 DEF registryVars, IInv, Shape, TypeOK
<1>5. SendersSubscribe'
    BY <1>1 DEF IInv, Shape, SendersSubscribe
<1>6. StreamsKept
    <2> SUFFICES ASSUME NEW v \in Streams, NEW ev \in Reaches(v), ev.kind # "platform"
                 PROVE  ev \in Reaches(v)'
        BY <1>1 DEF StreamsKept, Served
    <2>1. CASE v # w
        BY <1>1, <2>1 DEF Reaches
    <2>2. CASE v = w /\ ev \in seen[w] \cup stream[w].todo
        BY <1>1, <1>2, <2>2 DEF Reaches
    <2>3. ASSUME v = w, NEW n \in DOMAIN chan[w], ev = chan[w][n] PROVE ev \in Reaches(v)'
        <3>1. CASE n = 1
            BY <1>1, <1>2, <1>3, <2>3, <3>1 DEF Reaches
        <3>2. CASE n # 1
            <4>1. chan'[w] = Tail(chan[w])
                BY <1>1, <1>2
            <4>2. n - 1 \in DOMAIN chan'[w] /\ chan'[w][n - 1] = ev
                BY <1>3, <2>3, <3>2, <4>1
            <4>3. QED
                BY <2>3, <4>2 DEF Reaches
        <3>3. QED
            BY <3>1, <3>2
    <2>4. QED
        BY <2>1, <2>2, <2>3 DEF Reaches
<1>7. QED
    BY <1>1, <1>4, <1>5, <1>6, StreamStep

\* A stream that ends is served no longer.
LEMMA UnsubscribeKeeps == ASSUME IInv, NEW w \in Streams, Unsubscribe(w) PROVE IInv'
PROOF
<1>1. /\ UNCHANGED registryVars /\ subs' = subs \ {w} /\ chan' = [chan EXCEPT ![w] = <<>>]
      /\ stream' = [stream EXCEPT ![w] = [NoStream EXCEPT !.pc = "closed"]]
      /\ seen' = [seen EXCEPT ![w] = {}] /\ lost' = lost \ {w}
    BY DEF Unsubscribe
<1>2. [NoStream EXCEPT !.pc = "closed"] = [pc |-> "closed", todo |-> {}, base |-> {}]
    BY DEF NoStream
<1>3. TypeOK'
    <2>1. stream' \in [Streams -> StreamStates] /\ seen' \in [Streams -> SUBSET Events]
        BY <1>1, <1>2, StreamTypes DEF IInv, Shape, StreamStates
    <2>2. chan' \in [Streams -> Seq(Events)] /\ \A v \in Streams : Len(chan'[v]) <= WatchBuffer
        BY <1>1, StreamTypes, WatchBufferAssumption DEF IInv, Shape
    <2>3. QED
        BY <1>1, <2>1, <2>2, StreamTypes DEF IInv, Shape
<1>4. /\ stream'[w].pc = "closed"
      /\ \A v \in Streams \ {w} : stream'[v] = stream[v] /\ chan'[v] = chan[v] /\ seen'[v] = seen[v]
    BY <1>1, <1>2 DEF IInv, Shape, TypeOK
<1>5. SendersSubscribe' /\ StreamsKept
    BY <1>1, <1>4 DEF IInv, Shape, SendersSubscribe, StreamsKept, Served, Reaches
<1>6. QED
    BY <1>1, <1>3, <1>5, StreamStep

-----------------------------------------------------------------------------
(* The theorems.                                                             *)

\* No stream is served at first.
LEMMA InitInv == Init => IInv
PROOF
<1> SUFFICES ASSUME Init PROVE IInv
    OBVIOUS
<1>1. entry \in [Ids -> Entries]
    <2>1. NoEntry \in Entries /\ Adopted \subseteq Entries
        <3>1. NoEntry \in Entries
            BY DEF NoEntry, Entries
        <3>2. ASSUME NEW x \in BOOLEAN
              PROVE  [NoEntry EXCEPT !.in = "registry", !.exited = x] \in Entries
            <4>1. [NoEntry EXCEPT !.in = "registry"] \in Entries
                BY DEF NoEntry, Entries
            <4>2. [NoEntry EXCEPT !.in = "registry", !.exited = x]
                  = [[NoEntry EXCEPT !.in = "registry"] EXCEPT !.exited = x]
                OBVIOUS
            <4>3. ASSUME NEW e \in Entries PROVE [e EXCEPT !.exited = x] \in Entries
                BY DEF Entries
            <4>4. QED
                BY <4>1, <4>2, <4>3
        <3>3. QED
            BY <3>1, <3>2 DEF Adopted
    <2>2. QED
        BY <2>1 DEF Init
<1>2. TypeOK
    BY <1>1, WatchBufferAssumption
    DEF Init, TypeOK, Entries, NoPublisher, NoPoll, NoStream
<1>3. PublisherShape /\ OneAfterTheOther /\ PollerFinishes /\ SendersSubscribe
    BY PublisherKinds
    DEF Init, PublisherShape, OneAfterTheOther, PollerFinishes, SendersSubscribe, NoPublisher,
        NoPoll, NoStream, Idle
<1>4. NothingLost /\ DeletionReachesReplayed
    BY DEF Init, NothingLost, DeletionReachesReplayed, Served, NoStream
<1>5. QED
    BY <1>2, <1>3, <1>4 DEF IInv, Shape

\* Every step keeps the invariant.
LEMMA Inductive == IInv /\ [Next]_vars => IInv'
PROOF
<1> SUFFICES ASSUME IInv, [Next]_vars PROVE IInv'
    OBVIOUS
<1>1. ASSUME NEW p \in Publishers, Publication(p) PROVE IInv'
    BY <1>1, TakeSnapshotKeeps, PublishSandboxKeeps, PublishOutcomeKeeps DEF Publication
<1>2. ASSUME NEW i \in Ids, Sandbox(i) PROVE IInv'
    <2>1. CASE Create(i) \/ ProvisionPull(i) \/ ProvisionEnd(i)
        BY <2>1, CreateKeeps, ProvisionPullKeeps, ProvisionEndKeeps
    <2>2. CASE BeginOperate(i) \/ OperateEnd(i)
        BY <2>2, BeginOperateKeeps, OperateEndKeeps
    <2>3. CASE BeginDelete(i) \/ DeleteTeardown(i) \/ DeleteFarewell(i)
        BY <2>3, BeginDeleteKeeps, DeleteTeardownKeeps, DeleteFarewellKeeps
    <2>4. CASE PollTail(i) \/ PollPublish(i)
        BY <2>4, PollTailKeeps, PollPublishKeeps
    <2>5. QED
        BY <1>2, <2>1, <2>2, <2>3, <2>4 DEF Sandbox
<1>3. CASE PollApply \/ PollWarn
    BY <1>3, PollApplyKeeps, PollWarnKeeps
<1>4. ASSUME NEW w \in Streams, Subscribe(w) \/ Replay(w) \/ Serve(w) \/ Unsubscribe(w) PROVE IInv'
    BY <1>4, SubscribeKeeps, ReplayKeeps, SendReplayKeeps, ReceiveKeeps, UnsubscribeKeeps DEF Serve
<1>5. CASE UNCHANGED vars
    <2>1. UNCHANGED registryVars /\ UNCHANGED <<subs, chan, stream, seen, lost>>
        BY <1>5 DEF vars, registryVars
    <2>2. TypeOK' /\ SendersSubscribe'
        BY <2>1 DEF registryVars, IInv, Shape, TypeOK, SendersSubscribe
    <2>3. StreamsKept
        BY <2>1, StreamsUntouched DEF hubVars, clientVars
    <2>4. QED
        BY <2>1, <2>2, <2>3, StreamStep
<1>6. QED
    BY <1>1, <1>2, <1>3, <1>4, <1>5 DEF Next

\* The inductive invariant holds in every reachable state.
THEOREM Invariant == Spec => []IInv
PROOF
  BY InitInv, Inductive, PTL DEF Spec

\* The variables keep their types; no channel holds more than its buffer.
THEOREM TypeCorrect == Spec => []TypeOK
PROOF
<1>1. IInv => TypeOK
    BY DEF IInv, Shape
<1>2. QED
    BY <1>1, Invariant, PTL

\* Between the replay of WatchSandboxes and what publishSandbox hands to the hub, no stream
\* misses what has become of a sandbox, however many publish, unless its buffer was full.
THEOREM NothingLostCorrect == Spec => []NothingLost
PROOF
<1>1. IInv => NothingLost
    BY DEF IInv
<1>2. QED
    BY <1>1, Invariant, PTL

\* Every stream that was shown a sandbox is told by publishDeleted of its removal, or will be.
THEOREM DeletionCorrect == Spec => []DeletionReachesReplayed
PROOF
<1>1. IInv => DeletionReachesReplayed
    BY DEF IInv
<1>2. QED
    BY <1>1, Invariant, PTL

-----------------------------------------------------------------------------
(* The contract of the streams.                                              *)

Kinds == {"create", "provision", "operate", "delete"}

\* A subscriber's handler is at work; none has anything to replay before it has looked.
SubscribersSend ==
    /\ \A w \in subs : stream[w].pc \in {"open", "send"}
    /\ \A w \in Streams : stream[w].pc # "send" => stream[w].todo = {}

\* Whoever is at work on a sandbox works on one that was created; a delete is done with it when
\* it has removed it.
WorkIsOnEntries ==
    /\ \A k \in Kinds, i \in Ids : pub[<<k, i>>].pc # "idle" => entry[i].in # "never"
    /\ \A i \in Ids : pub[<<"delete", i>>].pc \notin {"idle", "farewell"} => entry[i].in = "registry"
    /\ \A i \in Ids : pub[<<"delete", i>>].pc = "farewell" => entry[i].in = "removed"
    /\ \A i \in poll.left : entry[i].in # "never"
    /\ pub[Poller].pc \in {"warn", "snapshot"} => entry[poll.cur].in # "never"

\* A snapshot shows what a sandbox is or was.
SnapshotsWere ==
    \A p \in Publishers : pub[p].pc = "publish" =>
        \E i \in Ids, rev \in Nat : /\ pub[p].snap = Event("sandbox", i, rev)
                                    /\ rev <= entry[i].rev /\ entry[i].in # "never"

Told == SubscribersSend /\ WorkIsOnEntries /\ SnapshotsWere

\* The open streams of the contract are the subscribers.
LEMMA OpenAreSubscribers ==
    ASSUME IInv, SubscribersSend
    PROVE  Contract!Open = subs
PROOF
  BY DEF Contract!Open, PhaseOf, IInv, Shape, TypeOK, SendersSubscribe, SubscribersSend

\* What is published is on its way to each subscriber that it is not dropped for; a platform
\* event is no part of what is promised.
LEMMA HubMaps ==
    ASSUME IInv, SubscribersSend, NEW ev \in Events, Publish(ev), UNCHANGED clientVars
    PROVE  /\ UNCHANGED <<PhaseOf, BaseOf, seen, stream, subs>>
           /\ ev.kind = "platform" => UNCHANGED <<DueOf, lost>>
           /\ ev.kind # "platform" =>
                \E dropped \in SUBSET Contract!Open :
                    /\ DueOf' = [w \in Streams |-> IF w \in Contract!Open \ dropped
                                                   THEN DueOf[w] \cup {ev} ELSE DueOf[w]]
                    /\ lost' = lost \cup dropped
PROOF
<1> DEFINE full == {w \in subs : Len(chan[w]) >= WatchBuffer}
           Held(w) == {chan[w][n] : n \in DOMAIN chan[w]}
<1>1. /\ chan' = [w \in Streams |-> IF w \in subs \ full THEN Append(chan[w], ev) ELSE chan[w]]
      /\ lost' = IF ev.kind = "platform" THEN lost ELSE lost \cup full
      /\ subs' = subs
    BY DEF Publish
<1>2. UNCHANGED <<PhaseOf, BaseOf, seen, stream>>
    BY DEF clientVars, PhaseOf, BaseOf
<1>3. chan \in [Streams -> Seq(Events)] /\ subs \subseteq Streams
    BY DEF IInv, Shape, TypeOK
<1>4. ASSUME NEW w \in Streams
      PROVE  Held(w)' = IF w \in subs \ full THEN Held(w) \cup {ev} ELSE Held(w)
    <2>1. CASE w \in subs \ full
        <3>1. chan'[w] = Append(chan[w], ev) /\ chan[w] \in Seq(Events)
            BY <1>1, <1>3, <2>1
        <3>2. /\ \A n \in 1 .. Len(chan[w]) : Append(chan[w], ev)[n] = chan[w][n]
              /\ Append(chan[w], ev)[Len(chan[w]) + 1] = ev
              /\ DOMAIN chan[w] = 1 .. Len(chan[w]) /\ Len(chan[w]) \in Nat
              /\ DOMAIN Append(chan[w], ev) = 1 .. Len(chan[w]) + 1
            BY <3>1
        <3>3. /\ 1 .. Len(chan[w]) + 1 = (1 .. Len(chan[w])) \cup {Len(chan[w]) + 1}
            BY <3>2
        <3>4. QED
            BY <2>1, <3>1, <3>2, <3>3
    <2>2. CASE w \notin subs \ full
        BY <1>1, <1>3, <2>2
    <2>3. QED
        BY <2>1, <2>2
<1> HIDE DEF full
<1>5. ASSUME NEW w \in Streams
      PROVE  Coming(w)' = IF w \in subs \ full /\ ev.kind # "platform" THEN Coming(w) \cup {ev} ELSE Coming(w)
    <2> HIDE DEF Held
    <2>1. Coming(w) = stream[w].todo \cup {e \in Held(w) : e.kind # "platform"}
        BY DEF Coming, Held
    <2>2. Coming(w)' = stream[w].todo \cup {e \in Held(w)' : e.kind # "platform"}
        BY <1>2 DEF Coming, Held
    <2>3. QED
        BY <1>4, <2>1, <2>2
<1>6. ev.kind = "platform" => UNCHANGED <<DueOf, lost>>
    BY <1>1, <1>5 DEF DueOf
<1>7. ASSUME ev.kind # "platform"
      PROVE  /\ full \in SUBSET Contract!Open /\ lost' = lost \cup full
             /\ DueOf' = [w \in Streams |-> IF w \in Contract!Open \ full
                                            THEN DueOf[w] \cup {ev} ELSE DueOf[w]]
    <2>1. Contract!Open = subs
        BY OpenAreSubscribers
    <2>2. full \in SUBSET subs
        BY DEF full
    <2>3. QED
        BY <1>1, <1>5, <1>7, <2>1, <2>2 DEF DueOf
<1>8. QED
    BY <1>1, <1>2, <1>6, <1>7

\* Where neither the hub nor a client does anything, nothing is on its way that was not before.
LEMMA NoHubMaps ==
    ASSUME UNCHANGED <<hubVars, clientVars>>
    PROVE  UNCHANGED <<PhaseOf, BaseOf, DueOf, seen, lost, stream, subs>>
PROOF
  BY DEF hubVars, clientVars, PhaseOf, BaseOf, DueOf, Coming

\* What is owed after a step of publishers P that leave nothing in hand was owed before.
LEMMA OwedBefore ==
    ASSUME NEW P \in SUBSET Publishers, NEW i \in Ids, Owed(i)', entry'[i].rev = entry[i].rev,
           i \in poll'.left => i \in poll.left,
           Poller \in P \/ poll'.cur = poll.cur,
           \A q \in Publishers \ P : pub'[q] = pub[q],
           \A q \in P : /\ ~(pub'[q].pc = "snapshot" /\ Subject(q)' = i)
                        /\ pub'[q].pc # "publish"
    PROVE  Owed(i)
PROOF
<1>1. CASE i \in poll'.left
    BY <1>1 DEF Owed
<1>2. ASSUME NEW q \in Publishers, pub'[q].pc = "snapshot" /\ Subject(q)' = i
      PROVE  Owed(i)
    <2>1. q \notin P /\ pub'[q] = pub[q]
        BY <1>2
    <2>2. Subject(q) = i
        BY <1>2, <2>1 DEF Subject
    <2>3. QED
        BY <1>2, <2>1, <2>2 DEF Owed
<1>3. ASSUME NEW q \in Publishers, pub'[q].pc = "publish" /\ pub'[q].snap = SandboxEvent(i)'
      PROVE  Owed(i)
    <2>1. q \notin P /\ pub'[q] = pub[q] /\ SandboxEvent(i)' = SandboxEvent(i)
        BY <1>3 DEF SandboxEvent, Event
    <2>2. QED
        BY <1>3, <2>1 DEF Owed
<1>4. QED
    BY <1>1, <1>2, <1>3 DEF Owed

\* A step of one publisher p of a sandbox i, that had nothing in hand, to a point where it may owe
\* a snapshot: what it does to what is owed, and to the farewells.
LEMMA MoveMaps ==
    ASSUME IInv, NEW i \in Ids, NEW k \in Kinds, NEW pc \in Pcs \ {"publish"}, Goto(<<k, i>>, pc),
           pub[<<k, i>>].pc \notin {"snapshot", "publish"}, poll' = poll,
           \A j \in Ids \ {i} : entry'[j] = entry[j],
           pc = "snapshot" \/ entry'[i].rev = entry[i].rev
    PROVE  /\ OwedNow' = IF pc = "snapshot" THEN OwedNow \cup {i} ELSE OwedNow
           /\ Parting' = IF k # "delete" THEN Parting
                         ELSE IF pc = "farewell" THEN Parting \cup {i} ELSE Parting \ {i}
PROOF
<1>1. /\ pub'[<<k, i>>].pc = pc /\ <<k, i>> \in Publishers \ {Poller} /\ pub[<<k, i>>] \in PublisherStates
      /\ \A q \in Publishers \ {<<k, i>>} : pub'[q] = pub[q]
    <2>1. pub \in [Publishers -> PublisherStates] /\ <<k, i>> \in Publishers \ {Poller}
        BY PublisherKinds DEF IInv, Shape, TypeOK, PublisherStates, Pcs, Kinds
    <2>2. QED
        BY <2>1, GotoEffect
<1>2. Subject(<<k, i>>)' = i
    BY <1>1 DEF Subject
<1> DEFINE P == {<<k, i>>}
<1>3. P \in SUBSET Publishers /\ \A q \in Publishers \ P : pub'[q] = pub[q]
    BY <1>1
<1>4. ASSUME NEW j \in Ids, Owed(j), entry'[j].rev = entry[j].rev PROVE Owed(j)'
    <2>1. \A q \in P : pub[q].pc \notin {"snapshot", "publish"}
        OBVIOUS
    <2>2. QED
        BY <1>3, <1>4, <2>1, OwedKept
<1>5. ASSUME NEW j \in Ids, Owed(j)', j # i \/ pc # "snapshot" PROVE Owed(j)
    <2>1. \A q \in P : ~(pub'[q].pc = "snapshot" /\ Subject(q)' = j) /\ pub'[q].pc # "publish"
        BY <1>1, <1>2, <1>5
    <2>2. entry'[j].rev = entry[j].rev
        BY <1>5
    <2>3. QED
        BY <1>3, <1>5, <2>1, <2>2, OwedBefore
<1>6. pc = "snapshot" => Owed(i)'
    BY <1>1, <1>2 DEF Owed
<1>7. OwedNow' = IF pc = "snapshot" THEN OwedNow \cup {i} ELSE OwedNow
    <2>1. CASE pc = "snapshot"
        BY <1>4, <1>5, <1>6, <2>1 DEF OwedNow
    <2>2. CASE pc # "snapshot"
        <3>1. \A j \in Ids : entry'[j].rev = entry[j].rev
            BY <2>2
        <3>2. QED
            BY <1>4, <1>5, <2>2, <3>1 DEF OwedNow
    <2>3. QED
        BY <2>1, <2>2
<1>8. ASSUME NEW j \in Ids
      PROVE  pub'[<<"delete", j>>].pc = IF k = "delete" /\ j = i THEN pc ELSE pub[<<"delete", j>>].pc
    <2>1. CASE k = "delete" /\ j = i
        BY <1>1, <2>1
    <2>2. CASE ~(k = "delete" /\ j = i)
        <3>1. <<"delete", j>> \in Publishers \ {<<k, i>>}
            BY <2>2, PublisherKinds
        <3>2. QED
            BY <1>1, <2>2, <3>1
    <2>3. QED
        BY <2>1, <2>2
<1>9. Parting' = IF k # "delete" THEN Parting
                 ELSE IF pc = "farewell" THEN Parting \cup {i} ELSE Parting \ {i}
    BY <1>8 DEF Parting
<1>10. QED
    BY <1>7, <1>9

\* Such a step keeps to entries, if it goes on only with one.
LEMMA MoveTold ==
    ASSUME IInv, Told, NEW i \in Ids, NEW k \in Kinds, NEW pc \in Pcs \ {"publish"}, Goto(<<k, i>>, pc),
           poll' = poll, UNCHANGED <<subs, stream>>,
           \A j \in Ids \ {i} : entry'[j] = entry[j],
           entry[i].in # "never" => entry[i].rev <= entry'[i].rev,
           entry \in [Ids -> Entries], entry'[i] \in Entries, pc # "idle" => entry'[i].in # "never",
           entry[i].in # "never" => entry'[i].in # "never",
           k = "delete" => \/ pc = "idle"
                           \/ pc = "farewell" /\ entry'[i].in = "removed"
                           \/ pc # "farewell" /\ entry'[i].in = "registry",
           k # "delete" => entry'[i].in = entry[i].in \/ entry[i].in = "never"
    PROVE  Told'
PROOF
<1>1. /\ pub'[<<k, i>>].pc = pc /\ <<k, i>> \in Publishers \ {Poller}
      /\ \A q \in Publishers \ {<<k, i>>} : pub'[q] = pub[q]
    <2>1. pub \in [Publishers -> PublisherStates] /\ <<k, i>> \in Publishers \ {Poller}
        BY PublisherKinds DEF IInv, Shape, TypeOK, PublisherStates, Pcs, Kinds
    <2>2. QED
        BY <2>1, GotoEffect
<1>2. \A j \in Ids : entry[j].in # "never" => entry'[j].in # "never"
    OBVIOUS
<1>3. SubscribersSend'
    BY DEF Told, SubscribersSend
<1>4. SnapshotsWere'
    <2> SUFFICES ASSUME NEW p \in Publishers, pub'[p].pc = "publish"
                 PROVE  \E j \in Ids, rev \in Nat : /\ pub'[p].snap = Event("sandbox", j, rev)
                                                    /\ rev <= entry'[j].rev /\ entry'[j].in # "never"
        BY DEF SnapshotsWere, Event
    <2>1. pub'[p] = pub[p]
        BY <1>1
    <2>2. PICK j \in Ids, rev \in Nat : /\ pub[p].snap = Event("sandbox", j, rev)
                                        /\ rev <= entry[j].rev /\ entry[j].in # "never"
        BY <2>1 DEF Told, SnapshotsWere
    <2>3. rev <= entry'[j].rev
        <3>1. CASE j = i
            BY <2>2, <3>1 DEF Entries
        <3>2. CASE j # i
            BY <2>2, <3>2
        <3>3. QED
            BY <3>1, <3>2
    <2>4. QED
        BY <1>2, <2>1, <2>2, <2>3
<1>5. WorkIsOnEntries'
    <2>1. ASSUME NEW m \in Kinds, NEW j \in Ids, pub'[<<m, j>>].pc # "idle" PROVE entry'[j].in # "never"
        <3>1. CASE <<m, j>> = <<k, i>>
            BY <1>1, <2>1, <3>1
        <3>2. CASE <<m, j>> # <<k, i>>
            <4>1. pub'[<<m, j>>] = pub[<<m, j>>]
                BY <1>1, <3>2, PublisherKinds DEF Kinds
            <4>2. QED
                BY <1>2, <2>1, <4>1 DEF Told, WorkIsOnEntries
        <3>3. QED
            BY <3>1, <3>2
    <2>2. ASSUME NEW j \in Ids
          PROVE  /\ pub'[<<"delete", j>>].pc \notin {"idle", "farewell"} => entry'[j].in = "registry"
                 /\ pub'[<<"delete", j>>].pc = "farewell" => entry'[j].in = "removed"
        <3>1. CASE k = "delete" /\ j = i
            BY <1>1, <3>1
        <3>2. CASE ~(k = "delete" /\ j = i)
            <4>1. pub'[<<"delete", j>>] = pub[<<"delete", j>>]
                BY <1>1, <3>2, PublisherKinds
            <4>2. entry'[j].in = entry[j].in \/ entry[j].in = "never"
                BY <3>2
            <4>3. /\ pub[<<"delete", j>>].pc \notin {"idle", "farewell"} => entry[j].in = "registry"
                  /\ pub[<<"delete", j>>].pc = "farewell" => entry[j].in = "removed"
                BY DEF Told, WorkIsOnEntries
            <4>4. QED
                BY <4>1, <4>2, <4>3
        <3>3. QED
            BY <3>1, <3>2
    <2>3. \A j \in poll'.left : entry'[j].in # "never"
        BY <1>2 DEF Told, WorkIsOnEntries, IInv, Shape, TypeOK
    <2>4. pub'[Poller].pc \in {"warn", "snapshot"} => entry'[poll'.cur].in # "never"
        BY <1>1, <1>2, PublisherKinds DEF Told, WorkIsOnEntries, IInv, Shape, PublisherShape
    <2>5. QED
        BY <2>1, <2>2, <2>3, <2>4 DEF WorkIsOnEntries
<1>6. QED
    BY <1>3, <1>4, <1>5 DEF Told

\* What the contract sees of the variables.
View == <<StateOf, OwedNow, Parting, PhaseOf, BaseOf, DueOf, seen, lost>>

\* A change of some sandboxes, as the contract sees it.
LEMMA StateMaps ==
    ASSUME NEW S \in SUBSET Ids,
           \A j \in Ids : /\ entry'[j].in = entry[j].in
                          /\ entry'[j].rev = IF j \in S THEN entry[j].rev + 1 ELSE entry[j].rev
    PROVE  StateOf' = [j \in Ids |-> IF j \in S THEN [StateOf[j] EXCEPT !.rev = @ + 1] ELSE StateOf[j]]
PROOF
<1>1. StateOf' = [j \in Ids |-> [in |-> entry'[j].in, rev |-> entry'[j].rev]]
    BY DEF StateOf
<1>2. \A j \in Ids : StateOf[j] = [in |-> entry[j].in, rev |-> entry[j].rev]
    BY DEF StateOf
<1>3. ASSUME NEW j \in Ids
      PROVE  [in |-> entry'[j].in, rev |-> entry'[j].rev]
             = IF j \in S THEN [StateOf[j] EXCEPT !.rev = @ + 1] ELSE StateOf[j]
    <2>1. CASE j \in S
        <3>1. ASSUME NEW a, NEW b PROVE [[in |-> a, rev |-> b] EXCEPT !.rev = @ + 1] = [in |-> a, rev |-> b + 1]
            OBVIOUS
        <3>2. StateOf[j] = [in |-> entry[j].in, rev |-> entry[j].rev]
            BY <1>2
        <3>3. [StateOf[j] EXCEPT !.rev = @ + 1] = [in |-> entry[j].in, rev |-> entry[j].rev + 1]
            BY <3>1, <3>2
        <3>4. entry'[j].in = entry[j].in /\ entry'[j].rev = entry[j].rev + 1
            BY <2>1
        <3>5. QED
            BY <2>1, <3>3, <3>4
    <2>2. CASE j \notin S
        BY <1>2, <2>2
    <2>3. QED
        BY <2>1, <2>2
<1>4. QED
    BY <1>1, <1>3

\* Where no sandbox is changed, the contract sees no change.
LEMMA StateKept ==
    ASSUME \A j \in Ids : entry'[j].in = entry[j].in /\ entry'[j].rev = entry[j].rev
    PROVE  StateOf' = StateOf
PROOF
  BY DEF StateOf

\* A change that is owed is the contract's.
LEMMA ChangeIsAllowed ==
    ASSUME IInv, NEW S \in SUBSET Ids, S # {}, \A i \in S : entry[i].in # "never",
           \A j \in Ids : /\ entry'[j].in = entry[j].in
                          /\ entry'[j].rev = IF j \in S THEN entry[j].rev + 1 ELSE entry[j].rev,
           OwedNow' = OwedNow \cup S, Parting' = Parting, UNCHANGED <<hubVars, clientVars>>
    PROVE  Contract!Change(S)
PROOF
<1>1. StateOf' = [j \in Ids |-> IF j \in S THEN [StateOf[j] EXCEPT !.rev = @ + 1] ELSE StateOf[j]]
    BY StateMaps
<1>2. S \subseteq Contract!Known
    BY DEF Contract!Known, StateOf
<1>3. QED
    BY <1>1, <1>2, NoHubMaps DEF Contract!Change, Contract!calls, Contract!events

\* The entries that are new have counted one change, of sandbox i.
Counted(new, i) ==
    \A j \in Ids : /\ new[j].in = entry[j].in /\ new[j] \in Entries
                   /\ new[j].rev = IF j \in {i} THEN entry[j].rev + 1 ELSE entry[j].rev
                   /\ j # i => new[j] = entry[j]

\* A change of an entry is counted once, and only its own.
LEMMA ChangeCounts ==
    ASSUME entry \in [Ids -> Entries], NEW i \in Ids, NEW exited \in BOOLEAN,
           NEW new, new = [entry EXCEPT ![i].rev = @ + 1, ![i].exited = exited]
    PROVE  Counted(new, i)
PROOF
<1>1. new[i].in = entry[i].in /\ new \in [Ids -> Entries]
    BY ChangeEffect
<1>2. \A j \in Ids \ {i} : new[j] = entry[j]
    OBVIOUS
<1>3. new[i].rev = entry[i].rev + 1
    <2>1. new[i] = [[entry[i] EXCEPT !.rev = @ + 1] EXCEPT !.exited = exited]
        OBVIOUS
    <2>2. [entry[i] EXCEPT !.rev = @ + 1] \in Entries /\ [entry[i] EXCEPT !.rev = @ + 1].rev = entry[i].rev + 1
        BY DEF Entries
    <2>3. ASSUME NEW e \in Entries PROVE [e EXCEPT !.exited = exited].rev = e.rev
        BY DEF Entries
    <2>4. QED
        BY <2>1, <2>2, <2>3
<1>4. QED
    BY <1>1, <1>2, <1>3 DEF Counted

\* A publisher that changes the entry of its sandbox is about to publish it.
LEMMA ChangeMaps ==
    ASSUME IInv, Told, NEW i \in Ids, NEW k \in Kinds, Goto(<<k, i>>, "snapshot"),
           pub[<<k, i>>].pc \notin {"snapshot", "publish"}, UNCHANGED <<poll, hubVars, clientVars>>,
           entry[i].in # "never", k = "delete" => entry[i].in = "registry", Counted(entry', i)
    PROVE  Told' /\ Contract!Change({i})
PROOF
<1>1. \A j \in Ids : /\ entry'[j].in = entry[j].in /\ entry'[j] \in Entries
                     /\ entry'[j].rev = IF j \in {i} THEN entry[j].rev + 1 ELSE entry[j].rev
                     /\ j # i => entry'[j] = entry[j]
    BY DEF Counted
<1>2. entry \in [Ids -> Entries] /\ entry[i].rev <= entry'[i].rev
    BY <1>1, Untouched DEF Entries
<1>3. OwedNow' = OwedNow \cup {i} /\ Parting' = Parting
    <2>1. k = "delete" => i \notin Parting
        BY DEF Told, WorkIsOnEntries, Parting
    <2>2. "snapshot" \in Pcs \ {"publish"} /\ \A j \in Ids \ {i} : entry'[j] = entry[j]
        BY <1>1 DEF Pcs
    <2>3. /\ OwedNow' = OwedNow \cup {i}
          /\ Parting' = IF k # "delete" THEN Parting ELSE Parting \ {i}
        BY <2>2, MoveMaps
    <2>4. QED
        BY <2>1, <2>3
<1>4. Told'
    BY <1>1, <1>2, NoHubMaps, MoveTold DEF Pcs
<1>5. Contract!Change({i})
    BY <1>1, <1>3, ChangeIsAllowed
<1>6. QED
    BY <1>4, <1>5

\* A publisher that goes on with an entry as it is, and owes nothing, is not seen.
LEMMA QuietMaps ==
    ASSUME IInv, Told, NEW i \in Ids, NEW k \in Kinds, NEW pc \in {"idle", "work"}, Goto(<<k, i>>, pc),
           pub[<<k, i>>].pc \notin {"snapshot", "publish", "farewell"},
           UNCHANGED <<entry, poll, hubVars, clientVars>>,
           pc = "work" => k # "delete" /\ entry[i].in # "never"
    PROVE  Told' /\ UNCHANGED View
PROOF
<1>1. entry \in [Ids -> Entries] /\ entry[i].rev <= entry[i].rev
    BY Untouched DEF Entries
<1>2. OwedNow' = OwedNow /\ Parting' = Parting
    <2>1. k = "delete" => i \notin Parting
        BY DEF Parting
    <2>2. pc \in Pcs \ {"publish", "snapshot", "farewell"}
        BY DEF Pcs
    <2>3. OwedNow' = OwedNow /\ Parting' = IF k # "delete" THEN Parting ELSE Parting \ {i}
        BY <2>2, MoveMaps
    <2>4. QED
        BY <2>1, <2>3
<1>3. Told'
    BY <1>1, NoHubMaps, MoveTold DEF Pcs
<1>4. StateOf' = StateOf
    BY StateKept
<1>5. QED
    BY <1>2, <1>3, <1>4, NoHubMaps DEF View

-----------------------------------------------------------------------------
(* What the contract sees of each step.                                      *)

Allowed == [Contract!Next]_View

\* A registration is the contract's, and owed.
LEMMA CreateMaps == ASSUME IInv, Told, NEW i \in Ids, Create(i) PROVE Told' /\ Allowed
PROOF
<1>1. /\ entry' = [entry EXCEPT ![i].in = "registry", ![i].rev = 1] /\ entry[i].in = "never"
      /\ Goto(<<"create", i>>, "snapshot") /\ UNCHANGED <<poll, hubVars, clientVars>>
    BY DEF Create
<1>2. /\ entry \in [Ids -> Entries] /\ entry'[i] \in Entries /\ entry'[i].in = "registry" /\ entry'[i].rev = 1
      /\ \A j \in Ids \ {i} : entry'[j] = entry[j]
    BY <1>1, Untouched DEF Entries
<1>3. pub[<<"create", i>>].pc = "idle"
    BY <1>1 DEF IInv, Shape, OneAfterTheOther, Idle
<1>4. OwedNow' = OwedNow \cup {i} /\ Parting' = Parting
    BY <1>1, <1>2, <1>3, MoveMaps DEF Pcs, Kinds
<1>6. Told'
    BY <1>1, <1>2, NoHubMaps, MoveTold DEF Pcs, Kinds
<1>7. Contract!Register(i)
    <2>1. StateOf' = [StateOf EXCEPT ![i] = [in |-> "registry", rev |-> 1]] /\ StateOf[i].in = "never"
        BY <1>1, <1>2 DEF StateOf
    <2>2. QED
        BY <1>1, <1>4, <2>1, NoHubMaps DEF Contract!Register, Contract!calls, Contract!events
<1>8. QED
    BY <1>6, <1>7 DEF Allowed, Contract!Next

\* Snapshots that were taken stay what they are, while others than P take one.
LEMMA SnapshotsKept ==
    ASSUME Told, NEW P \in SUBSET Publishers, \A q \in Publishers \ P : pub'[q] = pub[q],
           \A q \in P : pub'[q].pc = "publish" =>
               \E i \in Ids, rev \in Nat : /\ pub'[q].snap = Event("sandbox", i, rev)
                                           /\ rev <= entry'[i].rev /\ entry'[i].in # "never",
           \A j \in Ids : entry[j].in # "never" =>
               entry'[j].in # "never" /\ \A n \in Nat : n <= entry[j].rev => n <= entry'[j].rev
    PROVE  SnapshotsWere'
PROOF
<1> SUFFICES ASSUME NEW p \in Publishers, pub'[p].pc = "publish"
             PROVE  \E j \in Ids, rev \in Nat : /\ pub'[p].snap = Event("sandbox", j, rev)
                                                /\ rev <= entry'[j].rev /\ entry'[j].in # "never"
    BY DEF SnapshotsWere, Event
<1>1. CASE p \in P
    BY <1>1
<1>2. CASE p \notin P
    <2>1. pub'[p] = pub[p]
        BY <1>2
    <2>2. PICK j \in Ids, rev \in Nat : /\ pub[p].snap = Event("sandbox", j, rev)
                                        /\ rev <= entry[j].rev /\ entry[j].in # "never"
        BY <2>1 DEF Told, SnapshotsWere
    <2>3. QED
        BY <2>1, <2>2
<1>3. QED
    BY <1>1, <1>2

\* Whoever of P goes on goes on with an entry, and a delete that goes on with one in the registry.
LEMMA WorkKept ==
    ASSUME IInv, Told, NEW P \in SUBSET Publishers, \A q \in Publishers \ P : pub'[q] = pub[q],
           \A j \in Ids : entry'[j].in = entry[j].in,
           \A q \in P \ {Poller} : pub'[q].pc # "idle" => entry[q[2]].in # "never",
           \A q \in P : q[1] = "delete" =>
               pub'[q].pc # "farewell" /\ (pub'[q].pc # "idle" => entry[q[2]].in = "registry"),
           poll'.left \in SUBSET Ids, \A j \in poll'.left : entry[j].in # "never",
           pub'[Poller].pc \in {"warn", "snapshot"} => poll'.cur \in Ids /\ entry[poll'.cur].in # "never"
    PROVE  WorkIsOnEntries'
PROOF
<1>1. ASSUME NEW m \in Kinds, NEW j \in Ids
      PROVE  /\ <<m, j>> \in Publishers \ {Poller} /\ <<m, j>>[1] = m /\ <<m, j>>[2] = j
             /\ pub'[<<m, j>>].pc # "idle" => entry'[j].in # "never"
    <2>1. <<m, j>> \in Publishers \ {Poller} /\ <<m, j>>[1] = m /\ <<m, j>>[2] = j
        BY PublisherKinds DEF Kinds
    <2>2. CASE <<m, j>> \in P
        BY <2>1, <2>2
    <2>3. CASE <<m, j>> \notin P
        BY <2>1, <2>3 DEF Told, WorkIsOnEntries
    <2>4. QED
        BY <2>1, <2>2, <2>3
<1>2. ASSUME NEW j \in Ids
      PROVE  /\ pub'[<<"delete", j>>].pc \notin {"idle", "farewell"} => entry'[j].in = "registry"
             /\ pub'[<<"delete", j>>].pc = "farewell" => entry'[j].in = "removed"
    <2>1. <<"delete", j>> \in Publishers /\ <<"delete", j>>[1] = "delete" /\ <<"delete", j>>[2] = j
        BY <1>1 DEF Kinds
    <2>2. CASE <<"delete", j>> \in P
        BY <2>1, <2>2
    <2>3. CASE <<"delete", j>> \notin P
        BY <2>1, <2>3 DEF Told, WorkIsOnEntries
    <2>4. QED
        BY <2>2, <2>3
<1>3. QED
    BY <1>1, <1>2 DEF WorkIsOnEntries

\* A snapshot is of a sandbox as it is, so it owes what was owed.
LEMMA TakeSnapshotMaps == ASSUME IInv, Told, NEW p \in Publishers, TakeSnapshot(p) PROVE Told' /\ Allowed
PROOF
<1>1. UNCHANGED <<entry, poll, hubVars, clientVars>> /\ pub[p].pc = "snapshot"
    BY DEF TakeSnapshot
<1>2. Subject(p) \in Ids /\ entry[Subject(p)].in # "never"
    <2>1. CASE p = Poller
        BY <1>1, <2>1 DEF IInv, Shape, PublisherShape, Subject, Told, WorkIsOnEntries
    <2>2. CASE p # Poller
        <3>1. p[1] \in Kinds /\ p[2] \in Ids /\ p = <<p[1], p[2]>>
            BY <2>2, PublisherKinds DEF Kinds
        <3>2. pub[<<p[1], p[2]>>].pc # "idle"
            BY <1>1, <3>1
        <3>3. entry[p[2]].in # "never"
            BY <3>1, <3>2 DEF Told, WorkIsOnEntries
        <3>4. QED
            BY <2>2, <3>1, <3>3 DEF Subject
    <2>3. QED
        BY <2>1, <2>2
<1>3. /\ pub'[p] = [pc |-> "publish", snap |-> SandboxEvent(Subject(p))]
      /\ \A q \in Publishers \ {p} : pub'[q] = pub[q]
    BY Untouched DEF TakeSnapshot
<1>4. ASSUME NEW j \in Ids PROVE Owed(j)' <=> Owed(j)
    <2>1. SandboxEvent(j)' = SandboxEvent(j) /\ \A q \in Publishers : Subject(q)' = Subject(q)
        BY <1>1 DEF SandboxEvent, Event, Subject
    <2>2. (pub'[p].pc = "publish" /\ pub'[p].snap = SandboxEvent(j)) <=> Subject(p) = j
        BY <1>3, EventKinds
    <2>3. QED
        BY <1>1, <1>3, <2>1, <2>2 DEF Owed
<1>5. OwedNow' = OwedNow
    BY <1>4 DEF OwedNow
<1>6. Parting' = Parting
    BY <1>1, <1>3, PublisherKinds DEF Parting
<1>7. UNCHANGED View
    BY <1>1, <1>5, <1>6, NoHubMaps, StateKept DEF View
<1>8. entry \in [Ids -> Entries] /\ \A j \in Ids : entry[j].rev \in Nat
    BY Untouched DEF Entries
<1>9. SnapshotsWere'
    <2> DEFINE P == {p}
    <2>1. \E i \in Ids, rev \in Nat : /\ pub'[p].snap = Event("sandbox", i, rev)
                                      /\ rev <= entry'[i].rev /\ entry'[i].in # "never"
        BY <1>1, <1>2, <1>3, <1>8 DEF SandboxEvent
    <2>2. P \in SUBSET Publishers /\ \A q \in Publishers \ P : pub'[q] = pub[q]
        BY <1>3
    <2>3. QED
        BY <1>1, <2>1, <2>2, SnapshotsKept
<1>10. WorkIsOnEntries'
    <2> DEFINE P == {p}
    <2>1. P \in SUBSET Publishers /\ \A q \in Publishers \ P : pub'[q] = pub[q]
        BY <1>3
    <2>2. p = Poller \/ (p[1] \in Kinds /\ p[2] \in Ids /\ Subject(p) = p[2] /\ p = <<p[1], p[2]>>)
        BY PublisherKinds DEF Kinds, Subject
    <2>3. p # Poller /\ p[1] = "delete" => entry[p[2]].in = "registry"
        BY <1>1, <2>2 DEF Told, WorkIsOnEntries
    <2>4. Poller[1] = "poll" /\ (p = Poller => pub'[Poller].pc = "publish") /\ (p # Poller => pub'[Poller] = pub[Poller])
        BY <1>3, PublisherKinds
    <2>5. /\ poll.left \in SUBSET Ids /\ \A j \in poll.left : entry[j].in # "never"
          /\ pub[Poller].pc \in {"warn", "snapshot"} => poll.cur \in Ids /\ entry[poll.cur].in # "never"
        BY DEF IInv, Shape, TypeOK, PublisherShape, Told, WorkIsOnEntries
    <2>6. /\ \A q \in P \ {Poller} : pub'[q].pc # "idle" => entry[q[2]].in # "never"
          /\ \A q \in P : q[1] = "delete" =>
               pub'[q].pc # "farewell" /\ (pub'[q].pc # "idle" => entry[q[2]].in = "registry")
        BY <1>2, <1>3, <2>2, <2>3, <2>4
    <2>7. QED
        BY <1>1, <2>1, <2>4, <2>5, <2>6, WorkKept
<1>11. SubscribersSend'
    BY <1>1, NoHubMaps DEF Told, SubscribersSend
<1>12. QED
    BY <1>7, <1>9, <1>10, <1>11 DEF Told, Allowed

\* A sandbox is shown as it is or was; who is shown the newest state may be owed it no longer.
LEMMA PublishSandboxMaps == ASSUME IInv, Told, NEW p \in Publishers, PublishSandbox(p) PROVE Told' /\ Allowed
PROOF
<1> DEFINE ev == pub[p].snap
           next == CASE p[1] = "delete" -> "teardown"
                     [] p = Poller -> IF poll.left = {} THEN "idle" ELSE "tails"
                     [] OTHER -> "event"
<1>1. /\ UNCHANGED <<poll, clientVars>> /\ pub[p].pc = "publish" /\ ev \in Events /\ Publish(ev)
      /\ pub' = [pub EXCEPT ![p] = [pc |-> next, snap |-> NoEvent]]
    BY DEF PublishSandbox, IInv, Shape, PublisherShape
<1>2. PICK i \in Ids, rev \in Nat : /\ ev = Event("sandbox", i, rev)
                                    /\ rev <= entry[i].rev /\ entry[i].in # "never"
    BY <1>1 DEF Told, SnapshotsWere
<1>3. next \in {"teardown", "idle", "tails", "event"} /\ (p = Poller => next \in {"idle", "tails"})
      /\ (p[1] = "delete" => next = "teardown")
    BY PublisherKinds
<1>4. pub'[p].pc = next /\ \A q \in Publishers \ {p} : pub'[q] = pub[q]
    BY <1>1, Untouched
<1> HIDE DEF next
<1>5. \A j \in Ids : entry'[j].in = entry[j].in /\ entry'[j].rev = entry[j].rev /\ entry[j].rev \in Nat
    <2>1. entry \in [Ids -> Entries]
        BY Untouched
    <2>2. CASE p[1] = "delete"
        <3>1. entry' = [entry EXCEPT ![p[2]].canceled = TRUE] /\ p[2] \in Ids
            BY <2>2, PublisherKinds DEF PublishSandbox
        <3>2. QED
            BY <2>1, <3>1 DEF Entries
    <2>3. CASE p[1] # "delete"
        BY <2>1, <2>3 DEF PublishSandbox, Entries
    <2>4. QED
        BY <2>2, <2>3
<1>6. p = Poller \/ (p[1] \in Kinds /\ p[2] \in Ids /\ p = <<p[1], p[2]>>)
    BY PublisherKinds DEF Kinds
<1>7. ASSUME NEW j \in Ids
      PROVE  /\ Owed(j)' => Owed(j)
             /\ Owed(j) => Owed(j)' \/ (j = i /\ rev = entry[i].rev)
    <2>1. ASSUME Owed(j)' PROVE Owed(j)
        <3> DEFINE P == {p}
        <3>1. P \in SUBSET Publishers /\ \A q \in Publishers \ P : pub'[q] = pub[q]
            BY <1>4
        <3>2. \A q \in P : ~(pub'[q].pc = "snapshot" /\ Subject(q)' = j) /\ pub'[q].pc # "publish"
            BY <1>3, <1>4
        <3>3. QED
            BY <1>1, <1>5, <2>1, <3>1, <3>2, OwedBefore
    <2>2. ASSUME Owed(j), ev # SandboxEvent(j) PROVE Owed(j)'
        <3>1. SandboxEvent(j)' = SandboxEvent(j) /\ \A q \in Publishers : Subject(q)' = Subject(q)
            BY <1>1, <1>5 DEF SandboxEvent, Event, Subject
        <3>2. QED
            BY <1>1, <1>4, <2>2, <3>1 DEF Owed
    <2>3. ev = SandboxEvent(j) => j = i /\ rev = entry[i].rev
        BY <1>2 DEF SandboxEvent, Event
    <2>4. QED
        BY <2>1, <2>2, <2>3
<1>8. OwedNow' = OwedNow \/ (rev = entry[i].rev /\ OwedNow' = OwedNow \ {i})
    <2>1. OwedNow' \subseteq OwedNow /\ (rev # entry[i].rev => OwedNow' = OwedNow)
        BY <1>7 DEF OwedNow
    <2>2. OwedNow \ {i} \subseteq OwedNow'
        BY <1>7 DEF OwedNow
    <2>3. QED
        BY <2>1, <2>2
<1>9. Parting' = Parting
    <2>1. ASSUME NEW j \in Ids
          PROVE  pub'[<<"delete", j>>].pc = "farewell" <=> pub[<<"delete", j>>].pc = "farewell"
        <3>1. CASE p = <<"delete", j>>
            BY <1>1, <1>3, <1>4, <3>1
        <3>2. CASE p # <<"delete", j>>
            BY <1>4, <3>2, PublisherKinds
        <3>3. QED
            BY <3>1, <3>2
    <2>2. QED
        BY <2>1 DEF Parting
<1>10. Contract!Show(i)
    <2>1. ev = Contract!Shown(i, rev) /\ ev.kind # "platform"
        BY <1>2 DEF Contract!Shown, Event
    <2>2. SubscribersSend
        BY DEF Told
    <2>3. /\ UNCHANGED <<PhaseOf, BaseOf, seen>>
          /\ \E dropped \in SUBSET Contract!Open :
                /\ DueOf' = [w \in Streams |-> IF w \in Contract!Open \ dropped
                                               THEN DueOf[w] \cup {ev} ELSE DueOf[w]]
                /\ lost' = lost \cup dropped
        BY <1>1, <2>1, <2>2, HubMaps
    <2>4. StateOf' = StateOf
        BY <1>5, StateKept
    <2> HIDE DEF ev
    <2>5. Contract!Publish(Contract!Shown(i, rev))
        BY <2>1, <2>3, <2>4 DEF Contract!Publish, Contract!calls
    <2>6. i \in Contract!Known /\ StateOf[i].rev = entry[i].rev /\ rev \in 0 .. StateOf[i].rev
        BY <1>2, <1>5 DEF Contract!Known, StateOf
    <2>7. QED
        BY <1>8, <1>9, <2>5, <2>6 DEF Contract!Show
<1>11. SnapshotsWere'
    <2> DEFINE P == {p}
    <2>1. P \in SUBSET Publishers /\ (\A q \in Publishers \ P : pub'[q] = pub[q])
          /\ \A q \in P : pub'[q].pc # "publish"
        BY <1>3, <1>4
    <2>2. QED
        BY <1>5, <2>1, SnapshotsKept
<1>12. WorkIsOnEntries'
    <2> DEFINE P == {p}
    <2>1. P \in SUBSET Publishers /\ \A q \in Publishers \ P : pub'[q] = pub[q]
        BY <1>4
    <2>2. p # Poller => entry[p[2]].in # "never" /\ (p[1] = "delete" => entry[p[2]].in = "registry")
        <3>1. ASSUME p # Poller PROVE pub[<<p[1], p[2]>>].pc = "publish" /\ p[1] \in Kinds /\ p[2] \in Ids
            BY <1>1, <1>6, <3>1
        <3>2. QED
            BY <3>1 DEF Told, WorkIsOnEntries
    <2>3. Poller[1] = "poll" /\ pub'[Poller].pc \in {"warn", "snapshot"} => pub[Poller].pc \in {"warn", "snapshot"}
        BY <1>3, <1>4, PublisherKinds
    <2>4. /\ poll.left \in SUBSET Ids /\ \A j \in poll.left : entry[j].in # "never"
          /\ pub[Poller].pc \in {"warn", "snapshot"} => poll.cur \in Ids /\ entry[poll.cur].in # "never"
        BY DEF IInv, Shape, TypeOK, PublisherShape, Told, WorkIsOnEntries
    <2>5. /\ \A q \in P \ {Poller} : pub'[q].pc # "idle" => entry[q[2]].in # "never"
          /\ \A q \in P : q[1] = "delete" =>
               pub'[q].pc # "farewell" /\ (pub'[q].pc # "idle" => entry[q[2]].in = "registry")
        BY <1>3, <1>4, <2>2, PublisherKinds
    <2>6. QED
        BY <1>1, <1>5, <2>1, <2>3, <2>4, <2>5, PublisherKinds, WorkKept
<1>13. SubscribersSend'
    <2>1. UNCHANGED <<subs, stream>>
        BY <1>1 DEF Publish, clientVars
    <2>2. QED
        BY <2>1 DEF Told, SubscribersSend
<1>14. QED
    BY <1>10, <1>11, <1>12, <1>13 DEF Told, Allowed, Contract!Next

\* A platform event is no part of what is promised, and a create owes nothing when it returns.
LEMMA PublishOutcomeMaps == ASSUME IInv, Told, NEW p \in Publishers, PublishOutcome(p) PROVE Told' /\ Allowed
PROOF
<1>1. UNCHANGED <<entry, poll, clientVars>> /\ pub[p].pc = "event" /\ Publish(PlatformEvent(p[2]))
    BY DEF PublishOutcome
<1>2. p \in Publishers \ {Poller} /\ p[1] \in Kinds /\ p[2] \in Ids /\ p = <<p[1], p[2]>>
    BY <1>1, PublisherKinds DEF IInv, Shape, PublisherShape, Kinds
<1> DEFINE P == IF p[1] = "create" THEN {p, <<"provision", p[2]>>} ELSE {p}
<1>3. /\ \A q \in Publishers \ P : pub'[q] = pub[q]
      /\ pub'[p].pc = "idle" /\ \A q \in P : pub'[q].pc \in {"idle", "pull", "work"}
      /\ P \in SUBSET Publishers /\ Poller \notin P
      /\ \A q \in P : q[2] = p[2] /\ (q[1] = "delete" => q = p)
    <2>1. pub \in [Publishers -> PublisherStates]
        BY Untouched
    <2>2. CASE p[1] = "create"
        <3>1. PICK pc \in {"pull", "work"} :
                  pub' = [pub EXCEPT ![p].pc = "idle", ![<<"provision", p[2]>>].pc = pc]
            BY <2>2 DEF PublishOutcome
        <3>2. <<"provision", p[2]>> \in Publishers \ {p, Poller}
            BY <1>2, <2>2, PublisherKinds
        <3>3. QED
            BY <1>2, <2>1, <2>2, <3>1, <3>2 DEF PublisherStates, Pcs
    <2>3. CASE p[1] # "create"
        BY <1>2, <2>1, <2>3, GotoEffect DEF PublishOutcome, Pcs
    <2>4. QED
        BY <2>2, <2>3
<1>4. \A q \in P : pub[q].pc \in {"event", "idle"}
    BY <1>1, <1>2, PublisherKinds DEF IInv, Shape, OneAfterTheOther, Idle
<1> HIDE DEF P
<1>5. OwedNow' = OwedNow
    <2>1. ASSUME NEW j \in Ids, Owed(j) PROVE Owed(j)'
        BY <1>1, <1>3, <1>4, <2>1, OwedKept
    <2>2. ASSUME NEW j \in Ids, Owed(j)' PROVE Owed(j)
        <3>1. \A q \in P : ~(pub'[q].pc = "snapshot" /\ Subject(q)' = j) /\ pub'[q].pc # "publish"
            BY <1>3
        <3>2. QED
            BY <1>1, <1>3, <2>2, <3>1, OwedBefore
    <2>3. QED
        BY <2>1, <2>2 DEF OwedNow
<1>6. Parting' = Parting
    <2>1. ASSUME NEW j \in Ids
          PROVE  pub'[<<"delete", j>>].pc = "farewell" <=> pub[<<"delete", j>>].pc = "farewell"
        <3>1. CASE <<"delete", j>> \in P
            BY <1>3, <1>4, <3>1
        <3>2. CASE <<"delete", j>> \notin P
            BY <1>3, <3>2, PublisherKinds
        <3>3. QED
            BY <3>1, <3>2
    <2>2. QED
        BY <2>1 DEF Parting
<1>7. UNCHANGED View
    <2>1. PlatformEvent(p[2]) \in Events /\ PlatformEvent(p[2]).kind = "platform" /\ SubscribersSend
        BY <1>2, EventTypes, EventKinds DEF IInv, Shape, Told
    <2>2. UNCHANGED <<PhaseOf, BaseOf, seen, DueOf, lost>>
        BY <1>1, <2>1, HubMaps
    <2>3. QED
        BY <1>1, <1>5, <1>6, <2>2, StateKept DEF View
<1>8. SnapshotsWere'
    BY <1>1, <1>3, SnapshotsKept
<1>9. WorkIsOnEntries'
    <2>1. entry[p[2]].in # "never" /\ (p[1] = "delete" => entry[p[2]].in = "registry")
        <3>1. pub[<<p[1], p[2]>>].pc = "event"
            BY <1>1, <1>2
        <3>2. QED
            BY <1>2, <3>1 DEF Told, WorkIsOnEntries
    <2>2. /\ poll.left \in SUBSET Ids /\ \A j \in poll.left : entry[j].in # "never"
          /\ pub[Poller].pc \in {"warn", "snapshot"} => poll.cur \in Ids /\ entry[poll.cur].in # "never"
        BY DEF IInv, Shape, TypeOK, PublisherShape, Told, WorkIsOnEntries
    <2>3. /\ \A q \in P \ {Poller} : pub'[q].pc # "idle" => entry[q[2]].in # "never"
          /\ \A q \in P : q[1] = "delete" =>
               pub'[q].pc # "farewell" /\ (pub'[q].pc # "idle" => entry[q[2]].in = "registry")
          /\ pub'[Poller] = pub[Poller]
        BY <1>3, <2>1, PublisherKinds
    <2>4. QED
        BY <1>1, <1>3, <2>2, <2>3, WorkKept
<1>10. SubscribersSend'
    <2>1. UNCHANGED <<subs, stream>>
        BY <1>1 DEF Publish, clientVars
    <2>2. QED
        BY <2>1 DEF Told, SubscribersSend
<1>11. QED
    BY <1>7, <1>8, <1>9, <1>10 DEF Told, Allowed

\* Pulling and Pulled are no part of what is promised.
LEMMA ProvisionPullMaps == ASSUME IInv, Told, NEW i \in Ids, ProvisionPull(i) PROVE Told' /\ Allowed
PROOF
<1> DEFINE pc == IF pub[<<"provision", i>>].pc = "pull" THEN "pulled" ELSE "work"
<1>1. /\ UNCHANGED <<entry, poll, clientVars>> /\ Publish(PlatformEvent(i))
      /\ Goto(<<"provision", i>>, pc) /\ pub[<<"provision", i>>].pc \in {"pull", "pulled"}
    BY DEF ProvisionPull
<1>2. pc \in Pcs \ {"publish", "snapshot", "idle"} /\ "provision" \in Kinds
    BY DEF Pcs, Kinds
<1> HIDE DEF pc
<1>3. OwedNow' = OwedNow /\ Parting' = Parting
    BY <1>1, <1>2, MoveMaps
<1>4. UNCHANGED <<PhaseOf, BaseOf, seen, DueOf, lost, stream, subs>>
    <2>1. PlatformEvent(i) \in Events /\ PlatformEvent(i).kind = "platform" /\ SubscribersSend
        BY EventTypes, EventKinds DEF IInv, Shape, Told
    <2>2. QED
        BY <1>1, <2>1, HubMaps
<1>5. entry[i].in # "never" /\ entry \in [Ids -> Entries] /\ entry[i].rev <= entry[i].rev
    <2>1. entry[i].in # "never"
        BY <1>1, <1>2 DEF Told, WorkIsOnEntries
    <2>2. QED
        BY <2>1, Untouched DEF Entries
<1>6. Told'
    BY <1>1, <1>2, <1>4, <1>5, MoveTold
<1>7. QED
    BY <1>1, <1>3, <1>4, <1>6, StateKept DEF View, Allowed

\* What is observed of a sandbox is a change of it.
LEMMA ObserveMaps ==
    ASSUME IInv, Told, NEW i \in Ids, NEW k \in {"provision", "operate"}, Observe(i, FALSE),
           Goto(<<k, i>>, "snapshot"), pub[<<k, i>>].pc \in {"pulled", "work"},
           UNCHANGED <<poll, hubVars, clientVars>>
    PROVE  Told' /\ Allowed
PROOF
<1>1. entry' = [entry EXCEPT ![i].rev = @ + 1, ![i].exited = FALSE] /\ entry \in [Ids -> Entries]
    BY Untouched DEF Observe
<1>2. k \in Kinds /\ entry[i].in # "never"
    BY DEF Kinds, Told, WorkIsOnEntries
<1>3. Counted(entry', i)
    BY <1>1, ChangeCounts
<1>4. Told' /\ Contract!Change({i})
    BY <1>2, <1>3, ChangeMaps
<1>5. QED
    BY <1>4 DEF Allowed, Contract!Next

\* What came of a create is a change, unless the create was canceled and failed.
LEMMA ProvisionEndMaps == ASSUME IInv, Told, NEW i \in Ids, ProvisionEnd(i) PROVE Told' /\ Allowed
PROOF
<1>1. /\ UNCHANGED <<poll, hubVars, clientVars>> /\ pub[<<"provision", i>>].pc \in {"pulled", "work"}
      /\ \/ Observe(i, FALSE) /\ Goto(<<"provision", i>>, "snapshot")
         \/ Goto(<<"provision", i>>, "idle") /\ UNCHANGED entry
    BY DEF ProvisionEnd
<1>2. CASE Observe(i, FALSE) /\ Goto(<<"provision", i>>, "snapshot")
    BY <1>1, <1>2, ObserveMaps
<1>3. CASE Goto(<<"provision", i>>, "idle") /\ UNCHANGED entry
    BY <1>1, <1>3, QuietMaps DEF Kinds, Allowed
<1>4. QED
    BY <1>1, <1>2, <1>3

\* A stop or start begins unseen.
LEMMA BeginOperateMaps == ASSUME IInv, Told, NEW i \in Ids, BeginOperate(i) PROVE Told' /\ Allowed
PROOF
<1>1. /\ UNCHANGED <<entry, poll, hubVars, clientVars>> /\ pub[<<"operate", i>>].pc = "idle"
      /\ Goto(<<"operate", i>>, "work") /\ entry[i].in = "registry"
    BY DEF BeginOperate, Pollable, Idle, Registered
<1>2. QED
    BY <1>1, QuietMaps DEF Kinds, Allowed

\* What came of a stop or start is a change, unless it failed.
LEMMA OperateEndMaps == ASSUME IInv, Told, NEW i \in Ids, OperateEnd(i) PROVE Told' /\ Allowed
PROOF
<1>1. /\ UNCHANGED <<poll, hubVars, clientVars>> /\ pub[<<"operate", i>>].pc = "work"
      /\ \/ Observe(i, FALSE) /\ Goto(<<"operate", i>>, "snapshot")
         \/ Goto(<<"operate", i>>, "idle") /\ UNCHANGED entry
    BY DEF OperateEnd
<1>2. CASE Observe(i, FALSE) /\ Goto(<<"operate", i>>, "snapshot")
    BY <1>1, <1>2, ObserveMaps
<1>3. CASE Goto(<<"operate", i>>, "idle") /\ UNCHANGED entry
    BY <1>1, <1>3, QuietMaps DEF Kinds, Allowed
<1>4. QED
    BY <1>1, <1>2, <1>3

\* The Deleting condition is a change.
LEMMA BeginDeleteMaps == ASSUME IInv, Told, NEW i \in Ids, BeginDelete(i) PROVE Told' /\ Allowed
PROOF
<1>1. /\ UNCHANGED <<poll, hubVars, clientVars>> /\ pub[<<"delete", i>>].pc = "idle"
      /\ entry[i].in = "registry" /\ Goto(<<"delete", i>>, "snapshot")
      /\ entry' = [entry EXCEPT ![i].rev = @ + 1, ![i].exited = FALSE, ![i].deleting = TRUE]
      /\ entry \in [Ids -> Entries]
    BY Untouched DEF BeginDelete, Idle, Registered
<1> DEFINE e == [entry EXCEPT ![i].rev = @ + 1, ![i].exited = FALSE]
<1>2. Counted(e, i)
    BY <1>1, ChangeCounts
<1>3. entry' = [e EXCEPT ![i].deleting = TRUE] /\ DOMAIN e = Ids
    BY <1>1
<1> HIDE DEF e
<1>4. ASSUME NEW j \in Ids
      PROVE  /\ entry'[j].in = e[j].in /\ entry'[j] \in Entries /\ entry'[j].rev = e[j].rev
             /\ j # i => entry'[j] = e[j]
    <2>1. entry'[j] = IF j = i THEN [e[j] EXCEPT !.deleting = TRUE] ELSE e[j]
        BY <1>3
    <2>2. ASSUME NEW x \in Entries
          PROVE  /\ [x EXCEPT !.deleting = TRUE] \in Entries
                 /\ [x EXCEPT !.deleting = TRUE].in = x.in /\ [x EXCEPT !.deleting = TRUE].rev = x.rev
        BY DEF Entries
    <2>3. e[j] \in Entries
        BY <1>2 DEF Counted
    <2>4. QED
        BY <2>1, <2>2, <2>3
<1>5. Told' /\ Contract!Change({i})
    <2>1. Counted(entry', i)
        BY <1>2, <1>4 DEF Counted
    <2>2. QED
        BY <1>1, <2>1, ChangeMaps DEF Kinds
<1>6. QED
    BY <1>5 DEF Allowed, Contract!Next

\* A removal is still to be told; a teardown that failed leaves everything as it was.
LEMMA DeleteTeardownMaps == ASSUME IInv, Told, NEW i \in Ids, DeleteTeardown(i) PROVE Told' /\ Allowed
PROOF
<1>1. /\ UNCHANGED <<poll, hubVars, clientVars>> /\ pub[<<"delete", i>>].pc = "teardown"
      /\ \/ Goto(<<"delete", i>>, "idle") /\ UNCHANGED entry
         \/ Goto(<<"delete", i>>, "farewell") /\ entry' = [entry EXCEPT ![i].in = "removed"]
    BY DEF DeleteTeardown
<1>2. CASE Goto(<<"delete", i>>, "idle") /\ UNCHANGED entry
    BY <1>1, <1>2, QuietMaps DEF Kinds, Allowed
<1>3. CASE Goto(<<"delete", i>>, "farewell") /\ entry' = [entry EXCEPT ![i].in = "removed"]
    <2>1. /\ entry \in [Ids -> Entries] /\ entry'[i] \in Entries /\ entry'[i].in = "removed"
          /\ entry'[i].rev = entry[i].rev /\ entry[i].rev <= entry'[i].rev
          /\ \A j \in Ids \ {i} : entry'[j] = entry[j]
        BY <1>3, Untouched DEF Entries
    <2>2. entry[i].in = "registry"
        BY <1>1 DEF Told, WorkIsOnEntries
    <2>3. OwedNow' = OwedNow /\ Parting' = Parting \cup {i}
        BY <1>1, <1>3, <2>1, MoveMaps DEF Pcs, Kinds
    <2>4. Told'
        BY <1>1, <1>3, <2>1, NoHubMaps, MoveTold DEF Pcs, Kinds
    <2>5. StateOf' = [StateOf EXCEPT ![i].in = "removed"] /\ StateOf[i].in = "registry"
        <3>1. StateOf[i] = [in |-> "registry", rev |-> entry[i].rev]
            BY <2>2 DEF StateOf
        <3>2. [StateOf[i] EXCEPT !.in = "removed"] = [in |-> "removed", rev |-> entry[i].rev]
            BY <3>1
        <3>3. StateOf' = [j \in Ids |-> IF j = i THEN [in |-> "removed", rev |-> entry[i].rev] ELSE StateOf[j]]
            BY <2>1 DEF StateOf
        <3>4. StateOf = [j \in Ids |-> StateOf[j]]
            BY DEF StateOf
        <3>5. QED
            BY <3>1, <3>2, <3>3, <3>4
    <2>6. Contract!Remove(i)
        BY <1>1, <2>3, <2>5, NoHubMaps DEF Contract!Remove, Contract!calls, Contract!events
    <2>7. QED
        BY <2>4, <2>6 DEF Allowed, Contract!Next
<1>4. QED
    BY <1>1, <1>2, <1>3

\* The removal is told.
LEMMA DeleteFarewellMaps == ASSUME IInv, Told, NEW i \in Ids, DeleteFarewell(i) PROVE Told' /\ Allowed
PROOF
<1>1. /\ UNCHANGED <<entry, poll, clientVars>> /\ Publish(DeletedEvent(i))
      /\ Goto(<<"delete", i>>, "idle") /\ pub[<<"delete", i>>].pc = "farewell"
    BY DEF DeleteFarewell
<1>2. OwedNow' = OwedNow /\ Parting' = Parting \ {i} /\ i \in Parting
    <2>1. i \in Parting
        BY <1>1 DEF Parting
    <2>2. QED
        BY <1>1, <2>1, MoveMaps DEF Pcs, Kinds
<1>3. /\ UNCHANGED <<PhaseOf, BaseOf, seen, stream, subs>>
      /\ \E dropped \in SUBSET Contract!Open :
            /\ DueOf' = [w \in Streams |-> IF w \in Contract!Open \ dropped
                                           THEN DueOf[w] \cup {DeletedEvent(i)} ELSE DueOf[w]]
            /\ lost' = lost \cup dropped
    <2>1. DeletedEvent(i) \in Events /\ DeletedEvent(i).kind # "platform" /\ SubscribersSend
        BY EventTypes, EventKinds DEF IInv, Shape, Told
    <2>2. QED
        BY <1>1, <2>1, HubMaps
<1>4. Contract!TellRemoval(i)
    <2>1. DeletedEvent(i) = Contract!Gone(i)
        BY DEF DeletedEvent, Event, Contract!Gone
    <2>2. StateOf' = StateOf
        BY <1>1, StateKept
    <2>3. Contract!Publish(Contract!Gone(i))
        BY <1>3, <2>1, <2>2 DEF Contract!Publish, Contract!calls
    <2>4. QED
        BY <1>2, <2>3 DEF Contract!TellRemoval
<1>5. Told'
    <2>1. entry \in [Ids -> Entries] /\ entry[i].rev <= entry[i].rev /\ entry[i].in = "removed"
        BY <1>1, Untouched DEF Entries, Told, WorkIsOnEntries
    <2>2. QED
        BY <1>1, <1>3, <2>1, MoveTold DEF Pcs, Kinds
<1>6. QED
    BY <1>4, <1>5 DEF Allowed, Contract!Next

\* A step of the poller that has nothing in hand: it owes what it owed, and what it has changed.
LEMMA PollMaps ==
    ASSUME IInv, NEW pc \in {"tails", "warn", "snapshot"}, Goto(Poller, pc),
           pub[Poller].pc \in {"idle", "tails", "warn"},
           NEW S \in SUBSET Ids, \A i \in Ids \ S : entry'[i].rev = entry[i].rev,
           S \subseteq poll'.left, poll'.left \subseteq poll.left \cup S,
           \A i \in poll.left : i \in poll'.left \/ (pc = "snapshot" /\ poll'.cur = i),
           pc = "snapshot" => poll'.cur \in poll.left
    PROVE  OwedNow' = OwedNow \cup S /\ Parting' = Parting
PROOF
<1>1. pub'[Poller].pc = pc /\ \A q \in Publishers \ {Poller} : pub'[q] = pub[q]
    BY GotoEffect, PublisherKinds, Untouched DEF Pcs
<1> DEFINE P == {Poller}
<1>2. /\ P \in SUBSET Publishers /\ (\A q \in Publishers \ P : pub'[q] = pub[q]) /\ Poller \in P
      /\ \A q \in P : pub[q].pc \notin {"snapshot", "publish"}
    BY <1>1, PublisherKinds
<1>3. ASSUME NEW i \in Ids, Owed(i) PROVE Owed(i)'
    <2>1. CASE i \in poll'.left
        BY <2>1 DEF Owed
    <2>2. CASE pc = "snapshot" /\ poll'.cur = i
        BY <1>1, <2>2, PublisherKinds DEF Owed, Subject
    <2>3. CASE i \notin poll'.left /\ ~(pc = "snapshot" /\ poll'.cur = i)
        <3>1. i \notin poll.left /\ entry'[i].rev = entry[i].rev
            BY <2>3
        <3>2. QED
            BY <1>2, <1>3, <3>1, OwedKept
    <2>4. QED
        BY <2>1, <2>2, <2>3
<1>4. \A i \in S : Owed(i)'
    BY DEF Owed
<1>5. ASSUME NEW i \in Ids, Owed(i)', i \notin S PROVE Owed(i)
    <2>1. CASE i \in poll.left
        BY <2>1 DEF Owed
    <2>2. CASE i \notin poll.left
        <3>1. \A q \in P : ~(pub'[q].pc = "snapshot" /\ Subject(q)' = i) /\ pub'[q].pc # "publish"
            BY <1>1, <2>2 DEF Subject
        <3>2. entry'[i].rev = entry[i].rev /\ i \notin poll'.left
            BY <1>5, <2>2
        <3>3. QED
            BY <1>2, <1>5, <3>1, <3>2, OwedBefore
    <2>3. QED
        BY <2>1, <2>2
<1>6. OwedNow' = OwedNow \cup S
    BY <1>3, <1>4, <1>5 DEF OwedNow
<1>7. Parting' = Parting
    BY <1>1, PublisherKinds DEF Parting
<1>8. QED
    BY <1>6, <1>7

\* Such a step keeps to entries that are known.
LEMMA PollTold ==
    ASSUME IInv, Told, NEW pc \in {"tails", "warn", "snapshot"}, Goto(Poller, pc),
           UNCHANGED <<subs, stream>>,
           \A j \in Ids : /\ entry'[j].in = entry[j].in
                          /\ entry'[j].rev = entry[j].rev \/ entry'[j].rev = entry[j].rev + 1,
           poll'.left \in SUBSET Ids, \A j \in poll'.left : entry[j].in # "never",
           pc # "tails" => poll'.cur \in Ids /\ entry[poll'.cur].in # "never"
    PROVE  Told'
PROOF
<1>1. pub'[Poller].pc = pc /\ \A q \in Publishers \ {Poller} : pub'[q] = pub[q]
    BY GotoEffect, PublisherKinds, Untouched DEF Pcs
<1> DEFINE P == {Poller}
<1>2. /\ P \in SUBSET Publishers /\ (\A q \in Publishers \ P : pub'[q] = pub[q])
      /\ \A q \in P : pub'[q].pc # "publish" /\ q[1] # "delete"
    BY <1>1, PublisherKinds
<1>3. SnapshotsWere'
    <2>1. \A j \in Ids : entry[j].rev \in Nat
        BY Untouched DEF Entries
    <2>2. ASSUME NEW j \in Ids, NEW n \in Nat, n <= entry[j].rev PROVE n <= entry'[j].rev
        <3>1. entry[j].rev \in Nat /\ (entry'[j].rev = entry[j].rev \/ entry'[j].rev = entry[j].rev + 1)
            BY <2>1
        <3>2. QED
            BY <2>2, <3>1
    <2>3. QED
        BY <1>2, <2>2, SnapshotsKept
<1>4. WorkIsOnEntries'
    BY <1>1, <1>2, WorkKept
<1>5. QED
    BY <1>3, <1>4 DEF Told, SubscribersSend

\* A poll changes some sandboxes, and lists them.
LEMMA PollApplyMaps == ASSUME IInv, Told, PollApply PROVE Told' /\ Allowed
PROOF
<1>1. /\ UNCHANGED <<hubVars, clientVars>> /\ Goto(Poller, "tails") /\ pub[Poller].pc = "idle"
      /\ poll.left = {} /\ entry \in [Ids -> Entries]
    BY Untouched DEF PollApply, Idle, IInv, Shape, PollerFinishes
<1>2. PICK changed \in (SUBSET {i \in Ids : Pollable(i)}) \ {{}}, exited \in SUBSET Ids :
          /\ poll' = [tails |-> exited, left |-> changed, cur |-> None]
          /\ entry' = [i \in Ids |-> IF i \in changed
                                     THEN [entry[i] EXCEPT !.rev = @ + 1, !.exited = i \in exited]
                                     ELSE entry[i]]
    BY DEF PollApply
<1>3. changed \in SUBSET Ids /\ changed # {} /\ \A i \in changed : entry[i].in # "never"
    BY DEF Pollable, Registered
<1>4. ASSUME NEW i \in Ids
      PROVE  /\ entry'[i].in = entry[i].in
             /\ entry'[i].rev = IF i \in changed THEN entry[i].rev + 1 ELSE entry[i].rev
    <2>1. CASE i \in changed
        <3> DEFINE e == [entry EXCEPT ![i].rev = @ + 1, ![i].exited = i \in exited]
        <3>1. (i \in exited) \in BOOLEAN
            OBVIOUS
        <3>2. e[i].in = entry[i].in /\ e[i].rev = entry[i].rev + 1
            <4>1. Counted(e, i)
                BY <1>1, <3>1, ChangeCounts
            <4>2. QED
                BY <4>1 DEF Counted
        <3>3. entry'[i] = e[i]
            BY <1>1, <1>2, <2>1
        <3> HIDE DEF e
        <3>4. QED
            BY <2>1, <3>2, <3>3
    <2>2. CASE i \notin changed
        BY <1>2, <2>2
    <2>3. QED
        BY <2>1, <2>2
<1>5. poll'.left = changed
    BY <1>2
<1>6. OwedNow' = OwedNow \cup changed /\ Parting' = Parting
    BY <1>1, <1>3, <1>4, <1>5, PollMaps
<1>7. Contract!Change(changed)
    BY <1>1, <1>3, <1>4, <1>6, ChangeIsAllowed
<1>8. Told'
    BY <1>1, <1>3, <1>4, <1>5, NoHubMaps, PollTold
<1>9. QED
    BY <1>3, <1>7, <1>8 DEF Allowed, Contract!Next

\* A warning changes a sandbox that is still to be published.
LEMMA PollTailMaps == ASSUME IInv, Told, NEW i \in Ids, PollTail(i) PROVE Told' /\ Allowed
PROOF
<1>1. /\ UNCHANGED <<hubVars, clientVars>> /\ pub[Poller].pc = "tails" /\ i \in poll.left
      /\ poll \in [tails : SUBSET Ids, left : SUBSET Ids, cur : Ids \cup {None}]
      /\ entry \in [Ids -> Entries] /\ \A j \in poll.left : entry[j].in # "never"
    BY Untouched DEF PollTail, IInv, Shape, TypeOK, PollerFinishes, Told, WorkIsOnEntries
<1>2. CASE poll' = [poll EXCEPT !.tails = @ \ {i}] /\ UNCHANGED <<entry, pub>>
    <2>1. Goto(Poller, "tails")
        <3>1. pub[Poller] = [pub[Poller] EXCEPT !.pc = "tails"] /\ pub = [pub EXCEPT ![Poller] = pub[Poller]]
            BY <1>1, Untouched, PublisherKinds DEF PublisherStates
        <3>2. QED
            BY <1>2, <3>1 DEF Goto
    <2>2. poll'.left = poll.left
        BY <1>1, <1>2
    <2>3. OwedNow' = OwedNow /\ Parting' = Parting
        <3>1. OwedNow' = OwedNow \cup {} /\ Parting' = Parting
            BY <1>1, <1>2, <2>1, <2>2, PollMaps
        <3>2. QED
            BY <3>1
    <2>4. Told'
        BY <1>1, <1>2, <2>1, <2>2, NoHubMaps, PollTold
    <2>5. QED
        BY <1>1, <1>2, <2>3, <2>4, NoHubMaps, StateKept DEF View, Allowed
<1>3. CASE /\ Observe(i, TRUE) /\ Goto(Poller, "warn")
           /\ poll' = [poll EXCEPT !.tails = @ \ {i}, !.cur = i]
    <2>1. entry' = [entry EXCEPT ![i].rev = @ + 1, ![i].exited = TRUE]
        BY <1>3 DEF Observe
    <2>2. \A j \in Ids : /\ entry'[j].in = entry[j].in
                         /\ entry'[j].rev = IF j \in {i} THEN entry[j].rev + 1 ELSE entry[j].rev
        <3>1. Counted(entry', i)
            BY <1>1, <2>1, ChangeCounts
        <3>2. QED
            BY <3>1 DEF Counted
    <2>3. poll'.left = poll.left /\ poll'.cur = i
        BY <1>1, <1>3
    <2>4. OwedNow' = OwedNow \cup {i} /\ Parting' = Parting
        <3> DEFINE S == {i}
        <3>1. /\ S \in SUBSET Ids /\ S \subseteq poll'.left /\ poll'.left \subseteq poll.left \cup S
              /\ \A j \in Ids \ S : entry'[j].rev = entry[j].rev
            BY <1>1, <2>2, <2>3
        <3> HIDE DEF S
        <3>2. OwedNow' = OwedNow \cup S /\ Parting' = Parting
            BY <1>1, <1>3, <2>3, <3>1, PollMaps
        <3>3. QED
            BY <3>2 DEF S
    <2>5. Contract!Change({i})
        BY <1>1, <2>2, <2>4, ChangeIsAllowed
    <2>6. Told'
        BY <1>1, <1>3, <2>2, <2>3, NoHubMaps, PollTold
    <2>7. QED
        BY <2>5, <2>6 DEF Allowed, Contract!Next
<1>4. QED
    BY <1>2, <1>3 DEF PollTail

\* A warning is no part of what is promised.
LEMMA PollWarnMaps == ASSUME IInv, Told, PollWarn PROVE Told' /\ Allowed
PROOF
<1>1. /\ UNCHANGED <<entry, poll, clientVars>> /\ pub[Poller].pc = "warn" /\ Goto(Poller, "tails")
      /\ Publish(PlatformEvent(poll.cur)) /\ poll.cur \in Ids
      /\ poll.left \in SUBSET Ids /\ \A j \in poll.left : entry[j].in # "never"
    BY DEF PollWarn, IInv, Shape, TypeOK, PublisherShape, Told, WorkIsOnEntries
<1>2. UNCHANGED <<PhaseOf, BaseOf, seen, DueOf, lost, stream, subs>>
    <2>1. /\ PlatformEvent(poll.cur) \in Events /\ PlatformEvent(poll.cur).kind = "platform"
          /\ SubscribersSend
        BY <1>1, EventTypes, EventKinds DEF IInv, Shape, Told
    <2>2. QED
        BY <1>1, <2>1, HubMaps
<1>3. OwedNow' = OwedNow /\ Parting' = Parting
    <2>1. OwedNow' = OwedNow \cup {} /\ Parting' = Parting
        BY <1>1, PollMaps
    <2>2. QED
        BY <2>1
<1>4. Told'
    BY <1>1, <1>2, PollTold
<1>5. QED
    BY <1>1, <1>2, <1>3, <1>4, StateKept DEF View, Allowed

\* What leaves the list is still owed.
LEMMA PollPublishMaps == ASSUME IInv, Told, NEW i \in Ids, PollPublish(i) PROVE Told' /\ Allowed
PROOF
<1>1. /\ UNCHANGED <<entry, hubVars, clientVars>> /\ pub[Poller].pc = "tails" /\ Goto(Poller, "snapshot")
      /\ i \in poll.left /\ poll'.left = poll.left \ {i} /\ poll'.cur = i
      /\ poll.left \in SUBSET Ids /\ \A j \in poll.left : entry[j].in # "never"
    BY DEF PollPublish, IInv, Shape, TypeOK, Told, WorkIsOnEntries
<1>2. OwedNow' = OwedNow /\ Parting' = Parting
    <2>1. OwedNow' = OwedNow \cup {} /\ Parting' = Parting
        BY <1>1, PollMaps
    <2>2. QED
        BY <2>1
<1>3. Told'
    BY <1>1, NoHubMaps, PollTold
<1>4. QED
    BY <1>1, <1>2, <1>3, NoHubMaps, StateKept DEF View, Allowed

\* What a step of a stream leaves of the sandboxes, and of what is known of their publishers.
LEMMA StreamMaps ==
    ASSUME IInv, Told, UNCHANGED registryVars
    PROVE  /\ UNCHANGED <<entry, pub, poll, StateOf, OwedNow, Parting>>
           /\ WorkIsOnEntries' /\ SnapshotsWere'
PROOF
<1>1. UNCHANGED <<entry, pub, poll>>
    BY DEF registryVars
<1>2. UNCHANGED <<StateOf, OwedNow, Parting>>
    BY <1>1, PublishersUntouched DEF IInv, StateOf, OwedNow, Parting
<1>3. WorkIsOnEntries' /\ SnapshotsWere'
    BY <1>1 DEF Told, WorkIsOnEntries, SnapshotsWere, Event
<1>4. QED
    BY <1>1, <1>2, <1>3

\* A handler subscribes with nothing to send.
LEMMA SubscribeMaps == ASSUME IInv, Told, NEW w \in Streams, Subscribe(w) PROVE Told' /\ Allowed
PROOF
<1>1. /\ UNCHANGED registryVars /\ UNCHANGED <<chan, seen, lost>> /\ subs' = subs \cup {w}
      /\ stream' = [stream EXCEPT ![w].pc = "open"] /\ stream[w].pc = "off"
      /\ stream \in [Streams -> StreamStates]
    BY StreamTypes DEF Subscribe, IInv, Shape
<1>2. \A v \in Streams : /\ stream'[v].pc = IF v = w THEN "open" ELSE stream[v].pc
                         /\ stream'[v].todo = stream[v].todo /\ stream'[v].base = stream[v].base
    BY <1>1 DEF StreamStates
<1>3. PhaseOf' = [PhaseOf EXCEPT ![w] = "open"] /\ PhaseOf[w] = "off" /\ BaseOf' = BaseOf
    BY <1>1, <1>2 DEF PhaseOf, BaseOf
<1>4. DueOf' = DueOf
    BY <1>1, <1>2 DEF DueOf, Coming
<1>5. Contract!Subscribe(w)
    BY <1>1, <1>3, <1>4, StreamMaps DEF Contract!Subscribe, Contract!sandboxes, Contract!events
<1>6. SubscribersSend'
    BY <1>1, <1>2, StreamTypes DEF Told, SubscribersSend, IInv, Shape
<1>7. QED
    BY <1>1, <1>5, <1>6, StreamMaps DEF Told, Allowed, Contract!Next

\* The replay is of every sandbox of the registry, as it is.
LEMMA ReplayMaps == ASSUME IInv, Told, NEW w \in Streams, Replay(w) PROVE Told' /\ Allowed
PROOF
<1> DEFINE todo == {SandboxEvent(i) : i \in Registered}
<1>1. /\ UNCHANGED registryVars /\ UNCHANGED <<subs, chan, lost, seen>> /\ stream[w].pc = "open"
      /\ stream' = [stream EXCEPT ![w] = [pc |-> "send", base |-> Registered, todo |-> todo]]
      /\ stream \in [Streams -> StreamStates]
    BY StreamTypes DEF Replay, hubVars, IInv, Shape
<1>2. /\ stream'[w] = [pc |-> "send", base |-> Registered, todo |-> todo]
      /\ \A v \in Streams \ {w} : stream'[v] = stream[v]
    BY <1>1
<1>3. /\ Contract!Registered = Registered
      /\ todo = {Contract!Shown(i, StateOf[i].rev) : i \in Registered}
    BY DEF Contract!Registered, Registered, StateOf, Contract!Shown, SandboxEvent, Event
<1> HIDE DEF todo
<1>4. PhaseOf' = [PhaseOf EXCEPT ![w] = "send"] /\ PhaseOf[w] = "open"
    BY <1>1, <1>2 DEF PhaseOf
<1>5. BaseOf' = [BaseOf EXCEPT ![w] = Registered]
    BY <1>1, <1>2 DEF BaseOf
<1>6. DueOf' = [DueOf EXCEPT ![w] = @ \cup todo]
    <2>1. stream[w].todo = {}
        BY <1>1 DEF Told, SubscribersSend
    <2>2. \A v \in Streams : Coming(v)' = IF v = w THEN Coming(v) \cup todo ELSE Coming(v)
        BY <1>1, <1>2, <2>1 DEF Coming
    <2>3. QED
        BY <2>2 DEF DueOf
<1>7. Contract!Replay(w)
    BY <1>1, <1>3, <1>4, <1>5, <1>6, StreamMaps DEF Contract!Replay, Contract!sandboxes
<1>8. SubscribersSend'
    BY <1>1, <1>2, StreamTypes DEF Told, SubscribersSend, IInv, Shape
<1>9. QED
    BY <1>1, <1>7, <1>8, StreamMaps DEF Told, Allowed, Contract!Next

\* What the client is sent was due to it, and may be due once more.
LEMMA DeliverMaps ==
    ASSUME IInv, Told, NEW w \in Streams, stream[w].pc = "send", UNCHANGED registryVars,
           UNCHANGED <<subs, lost>>, NEW ev \in Coming(w), seen' = [seen EXCEPT ![w] = @ \cup {ev}],
           Coming(w)' = Coming(w) \/ Coming(w)' = Coming(w) \ {ev},
           \A v \in Streams \ {w} : Coming(v)' = Coming(v),
           \A v \in Streams : stream'[v].pc = stream[v].pc /\ stream'[v].base = stream[v].base,
           \A v \in Streams : stream[v].todo = {} => stream'[v].todo = {}
    PROVE  Told' /\ Allowed
PROOF
<1>1. UNCHANGED <<PhaseOf, BaseOf>> /\ PhaseOf[w] = "send"
    BY DEF PhaseOf, BaseOf
<1>2. DueOf' = DueOf \/ DueOf' = [DueOf EXCEPT ![w] = @ \ {ev}]
    BY DEF DueOf
<1>3. ev \in DueOf[w]
    BY DEF DueOf
<1>4. Contract!Deliver(w)
    BY <1>1, <1>2, <1>3, StreamMaps DEF Contract!Deliver, Contract!sandboxes, Contract!calls
<1>5. SubscribersSend'
    BY StreamTypes DEF Told, SubscribersSend, IInv, Shape
<1>6. QED
    BY <1>4, <1>5, StreamMaps DEF Told, Allowed, Contract!Next

\* An event of the replay is due.
LEMMA SendReplayMaps == ASSUME IInv, Told, NEW w \in Streams, SendReplay(w) PROVE Told' /\ Allowed
PROOF
<1>1. PICK ev \in stream[w].todo :
          /\ stream' = [stream EXCEPT ![w].todo = @ \ {ev}]
          /\ seen' = [seen EXCEPT ![w] = @ \cup {ev}]
    BY DEF SendReplay
<1>2. /\ UNCHANGED registryVars /\ UNCHANGED <<subs, chan, lost>> /\ stream[w].pc = "send"
      /\ stream \in [Streams -> StreamStates]
    BY StreamTypes DEF SendReplay, hubVars, IInv, Shape
<1>3. \A v \in Streams : /\ stream'[v].pc = stream[v].pc /\ stream'[v].base = stream[v].base
                         /\ stream'[v].todo = IF v = w THEN stream[v].todo \ {ev} ELSE stream[v].todo
    BY <1>1, <1>2 DEF StreamStates
<1>4. ev \in Coming(w) /\ (Coming(w)' = Coming(w) \/ Coming(w)' = Coming(w) \ {ev})
    BY <1>1, <1>2, <1>3 DEF Coming
<1>5. ASSUME NEW v \in Streams \ {w} PROVE Coming(v)' = Coming(v)
    <2>1. stream'[v].todo = stream[v].todo /\ chan' = chan
        BY <1>2, <1>3
    <2>2. QED
        BY <2>1 DEF Coming
<1>6. QED
    BY <1>1, <1>2, <1>3, <1>4, <1>5, DeliverMaps

\* A sequence holds its head, and what its tail holds.
LEMMA TailHolds ==
    ASSUME NEW s \in Seq(Events), s # <<>>
    PROVE  {s[n] : n \in DOMAIN s} = {Head(s)} \cup {Tail(s)[n] : n \in DOMAIN Tail(s)}
PROOF
<1>1. /\ Len(s) \in Nat \ {0} /\ DOMAIN s = 1 .. Len(s) /\ Head(s) = s[1]
      /\ DOMAIN Tail(s) = 1 .. Len(s) - 1
      /\ \A n \in 1 .. Len(s) - 1 : Tail(s)[n] = s[n + 1]
    OBVIOUS
<1>2. ASSUME NEW n \in DOMAIN s, n # 1 PROVE n - 1 \in DOMAIN Tail(s) /\ Tail(s)[n - 1] = s[n]
    BY <1>1, <1>2
<1>3. ASSUME NEW n \in DOMAIN Tail(s) PROVE n + 1 \in DOMAIN s /\ Tail(s)[n] = s[n + 1]
    BY <1>1
<1>4. 1 \in DOMAIN s
    BY <1>1
<1>5. QED
    BY <1>1, <1>2, <1>3, <1>4

\* An event of the channel is due, unless it is a platform event.
LEMMA ReceiveMaps == ASSUME IInv, Told, NEW w \in Streams, Receive(w) PROVE Told' /\ Allowed
PROOF
<1> DEFINE Held(v) == {chan[v][n] : n \in DOMAIN chan[v]}
           ev == Head(chan[w])
<1>1. /\ chan[w] # <<>> /\ chan' = [chan EXCEPT ![w] = Tail(@)] /\ stream[w].pc = "send"
      /\ seen' = [seen EXCEPT ![w] = IF ev.kind = "platform" THEN @ ELSE @ \cup {ev}]
      /\ UNCHANGED registryVars /\ UNCHANGED <<subs, lost, stream>>
    BY DEF Receive
<1>2. chan \in [Streams -> Seq(Events)] /\ seen \in [Streams -> SUBSET Events]
    BY StreamTypes DEF IInv, Shape
<1>3. Held(w) = {ev} \cup Held(w)' /\ \A v \in Streams \ {w} : Held(v)' = Held(v)
    <2>1. Held(w)' = {Tail(chan[w])[n] : n \in DOMAIN Tail(chan[w])}
        BY <1>1, <1>2
    <2>2. chan[w] \in Seq(Events)
        BY <1>2
    <2>3. Held(w) = {ev} \cup Held(w)'
        BY <1>1, <2>1, <2>2, TailHolds
    <2>4. QED
        BY <1>1, <2>3
<1>4. ASSUME NEW v \in Streams
      PROVE  /\ Coming(v) = stream[v].todo \cup {e \in Held(v) : e.kind # "platform"}
             /\ Coming(v)' = stream[v].todo \cup {e \in Held(v)' : e.kind # "platform"}
    BY <1>1 DEF Coming
<1> HIDE DEF Held, ev
<1>5. \A v \in Streams \ {w} : Coming(v)' = Coming(v)
    BY <1>3, <1>4
<1>6. CASE ev.kind = "platform"
    <2>1. Coming(w)' = Coming(w)
        BY <1>3, <1>4, <1>6
    <2>2. UNCHANGED <<PhaseOf, BaseOf, DueOf, seen, lost>>
        BY <1>1, <1>2, <1>5, <1>6, <2>1 DEF PhaseOf, BaseOf, DueOf
    <2>3. SubscribersSend'
        BY <1>1 DEF Told, SubscribersSend
    <2>4. QED
        BY <1>1, <2>2, <2>3, StreamMaps DEF Told, View, Allowed
<1>7. CASE ev.kind # "platform"
    <2>1. ev \in Coming(w) /\ (Coming(w)' = Coming(w) \/ Coming(w)' = Coming(w) \ {ev})
        <3>1. Coming(w) = Coming(w)' \cup {ev}
            BY <1>3, <1>4, <1>7
        <3>2. CASE ev \in Coming(w)'
            BY <3>1, <3>2
        <3>3. CASE ev \notin Coming(w)'
            BY <3>1, <3>3
        <3>4. QED
            BY <3>1, <3>2, <3>3
    <2>2. QED
        BY <1>1, <1>5, <1>7, <2>1, DeliverMaps
<1>8. QED
    BY <1>6, <1>7

\* Nothing is promised to a stream that has ended.
LEMMA UnsubscribeMaps == ASSUME IInv, Told, NEW w \in Streams, Unsubscribe(w) PROVE Told' /\ Allowed
PROOF
<1>1. /\ UNCHANGED registryVars /\ subs' = subs \ {w} /\ chan' = [chan EXCEPT ![w] = <<>>]
      /\ stream' = [stream EXCEPT ![w] = [NoStream EXCEPT !.pc = "closed"]]
      /\ seen' = [seen EXCEPT ![w] = {}] /\ lost' = lost \ {w} /\ stream[w].pc \in {"open", "send"}
      /\ chan \in [Streams -> Seq(Events)] /\ stream \in [Streams -> StreamStates]
    BY StreamTypes DEF Unsubscribe, IInv, Shape
<1>2. [NoStream EXCEPT !.pc = "closed"] = [pc |-> "closed", todo |-> {}, base |-> {}]
    BY DEF NoStream
<1>3. /\ stream'[w] = [pc |-> "closed", todo |-> {}, base |-> {}] /\ chan'[w] = <<>>
      /\ \A v \in Streams \ {w} : stream'[v] = stream[v] /\ chan'[v] = chan[v]
    BY <1>1, <1>2
<1>4. PhaseOf' = [PhaseOf EXCEPT ![w] = "closed"] /\ PhaseOf[w] \in {"open", "send"}
    BY <1>1, <1>3 DEF PhaseOf
<1>5. BaseOf' = [BaseOf EXCEPT ![w] = {}]
    BY <1>1, <1>3 DEF BaseOf
<1>6. DueOf' = [DueOf EXCEPT ![w] = {}]
    <2>1. \A v \in Streams \ {w} : Coming(v)' = Coming(v)
        BY <1>3 DEF Coming
    <2>2. Coming(w)' = {}
        BY <1>3 DEF Coming
    <2>3. QED
        BY <2>1, <2>2 DEF DueOf
<1>7. Contract!End(w)
    BY <1>1, <1>4, <1>5, <1>6, StreamMaps DEF Contract!End, Contract!sandboxes
<1>8. SubscribersSend'
    BY <1>1, <1>3, StreamTypes DEF Told, SubscribersSend, IInv, Shape
<1>9. QED
    BY <1>1, <1>7, <1>8, StreamMaps DEF Told, Allowed, Contract!Next

-----------------------------------------------------------------------------
\* At first nobody is at work, and no stream is promised anything.
LEMMA InitTold == Init => Told /\ Contract!Init
PROOF
<1> SUFFICES ASSUME Init PROVE Told /\ Contract!Init
    OBVIOUS
<1>1. \A p \in Publishers : pub[p].pc = "idle"
    BY DEF Init, NoPublisher
<1>2. \A w \in Streams : stream[w] = [pc |-> "off", todo |-> {}, base |-> {}]
    BY DEF Init, NoStream
<1>3. Told
    <2>1. SubscribersSend
        BY <1>2 DEF Init, SubscribersSend
    <2>2. WorkIsOnEntries
        BY <1>1, PublisherKinds DEF Init, WorkIsOnEntries, Kinds, NoPoll
    <2>3. SnapshotsWere
        BY <1>1 DEF SnapshotsWere
    <2>4. QED
        BY <2>1, <2>2, <2>3 DEF Told
<1>4. StateOf \in [Ids -> [in : {"never", "registry"}, rev : {0}]]
    <2>1. \A i \in Ids : entry[i] \in {NoEntry} \cup Adopted
        BY DEF Init
    <2>2. NoEntry.in = "never" /\ NoEntry.rev = 0
        BY DEF NoEntry
    <2>3. \A e \in Adopted : e.in = "registry" /\ e.rev = 0
        BY DEF Adopted, NoEntry
    <2>4. QED
        BY <2>1, <2>2, <2>3 DEF StateOf
<1>5. OwedNow = {} /\ Parting = {}
    BY <1>1, PublisherKinds DEF Init, NoPoll, OwedNow, Owed, Parting
<1>6. /\ PhaseOf = [w \in Streams |-> "off"] /\ BaseOf = [w \in Streams |-> {}]
      /\ DueOf = [w \in Streams |-> {}]
    BY <1>2 DEF Init, PhaseOf, BaseOf, DueOf, Coming
<1>7. seen = [w \in Streams |-> {}] /\ lost = {}
    BY DEF Init
<1>8. QED
    BY <1>3, <1>4, <1>5, <1>6, <1>7 DEF Contract!Init

\* Every step of the publishers and the hub is one the contract allows, or none that it sees.
LEMMA StepMaps == IInv /\ Told /\ [Next]_vars => Told' /\ [Contract!Next]_(Contract!vars)
PROOF
<1> SUFFICES ASSUME IInv, Told, [Next]_vars PROVE Told' /\ Allowed
    BY DEF Allowed, View, Contract!vars
<1>1. ASSUME NEW p \in Publishers, Publication(p) PROVE Told' /\ Allowed
    BY <1>1, TakeSnapshotMaps, PublishSandboxMaps, PublishOutcomeMaps DEF Publication
<1>2. ASSUME NEW i \in Ids, Sandbox(i) PROVE Told' /\ Allowed
    <2>1. CASE Create(i) \/ ProvisionPull(i) \/ ProvisionEnd(i)
        BY <2>1, CreateMaps, ProvisionPullMaps, ProvisionEndMaps
    <2>2. CASE BeginOperate(i) \/ OperateEnd(i)
        BY <2>2, BeginOperateMaps, OperateEndMaps
    <2>3. CASE BeginDelete(i) \/ DeleteTeardown(i) \/ DeleteFarewell(i)
        BY <2>3, BeginDeleteMaps, DeleteTeardownMaps, DeleteFarewellMaps
    <2>4. CASE PollTail(i) \/ PollPublish(i)
        BY <2>4, PollTailMaps, PollPublishMaps
    <2>5. QED
        BY <1>2, <2>1, <2>2, <2>3, <2>4 DEF Sandbox
<1>3. CASE PollApply \/ PollWarn
    BY <1>3, PollApplyMaps, PollWarnMaps
<1>4. ASSUME NEW w \in Streams, Subscribe(w) \/ Replay(w) \/ Serve(w) \/ Unsubscribe(w)
      PROVE  Told' /\ Allowed
    BY <1>4, SubscribeMaps, ReplayMaps, SendReplayMaps, ReceiveMaps, UnsubscribeMaps DEF Serve
<1>5. CASE UNCHANGED vars
    <2>1. UNCHANGED registryVars /\ UNCHANGED <<hubVars, clientVars>>
        BY <1>5 DEF vars, registryVars, hubVars, clientVars
    <2>2. UNCHANGED View /\ UNCHANGED <<subs, stream>>
        BY <2>1, StreamMaps, NoHubMaps DEF View
    <2>3. QED
        BY <2>1, <2>2, StreamMaps DEF Told, SubscribersSend, Allowed
<1>6. QED
    BY <1>1, <1>2, <1>3, <1>4, <1>5 DEF Next

\* However the steps of pollOnce, publishSandbox, publishDeleted and the hub interleave with
\* WatchSandboxes, Watch does what StreamContract allows.
THEOREM Refinement == Spec => ImplementsStreamContract
PROOF
<1>1. Init => IInv /\ Told /\ Contract!Init
    BY InitInv, InitTold
<1>2. IInv /\ Told /\ [Next]_vars => (IInv /\ Told)' /\ [Contract!Next]_(Contract!vars)
    BY Inductive, StepMaps
<1>3. QED
    BY <1>1, <1>2, PTL DEF Spec, ImplementsStreamContract, Contract!Spec

(* What the contract comes to.  Nothing below looks into what stands for its *)
(* variables.                                                                *)

ContractStates == [in : {"never", "registry", "removed"}, rev : Nat]

\* What has happened in the contract.
Happened(ev) ==
    \E i \in Contract!Known : \/ \E rev \in 0 .. StateOf[i].rev : ev = Contract!Shown(i, rev)
                              \/ (ev = Contract!Gone(i) /\ StateOf[i].in = "removed")

\* What has happened has happened after any step.
LEMMA HappenedStays ==
    ASSUME Contract!TypeOK, NEW ev, Happened(ev),
           \A i \in Contract!Known : /\ StateOf'[i].in # "never" /\ StateOf'[i].rev \in Nat
                                     /\ StateOf[i].rev <= StateOf'[i].rev
                                     /\ StateOf[i].in = "removed" => StateOf'[i].in = "removed"
    PROVE  Happened(ev)'
PROOF
<1>1. PICK i \in Contract!Known : \/ \E rev \in 0 .. StateOf[i].rev : ev = Contract!Shown(i, rev)
                                  \/ (ev = Contract!Gone(i) /\ StateOf[i].in = "removed")
    BY DEF Happened
<1>2. i \in Ids /\ i \in Contract!Known' /\ StateOf[i].rev \in Nat
    BY <1>1 DEF Contract!Known, Contract!TypeOK
<1>3. CASE ev = Contract!Gone(i) /\ StateOf[i].in = "removed"
    BY <1>2, <1>3 DEF Happened, Contract!Gone
<1>4. ASSUME NEW rev \in 0 .. StateOf[i].rev, ev = Contract!Shown(i, rev) PROVE Happened(ev)'
    <2>1. rev \in 0 .. StateOf'[i].rev
        BY <1>1, <1>2
    <2>2. ev = [kind |-> "sandbox", id |-> i, rev |-> rev]
        BY <1>4 DEF Contract!Shown
    <2>3. QED
        BY <1>2, <2>1, <2>2 DEF Happened, Contract!Shown
<1>5. QED
    BY <1>1, <1>3, <1>4

\* The sandboxes go on: what has happened stays, and what has not is not told.
LEMMA GenuineKept ==
    ASSUME Contract!Promise,
           \A i \in Contract!Known : /\ StateOf'[i].in # "never" /\ StateOf'[i].rev \in Nat
                                     /\ StateOf[i].rev <= StateOf'[i].rev
                                     /\ StateOf[i].in = "removed" => StateOf'[i].in = "removed",
           \A w \in Streams : \A ev \in seen'[w] \cup DueOf'[w] :
               ev \in seen[w] \cup DueOf[w] \/ Happened(ev)'
    PROVE  Contract!Genuine'
PROOF
<1>1. ASSUME NEW w \in Streams, NEW ev \in seen'[w] \cup DueOf'[w] PROVE Happened(ev)'
    <2>1. CASE ev \in seen[w] \cup DueOf[w]
        <3>1. Happened(ev)
            BY <2>1 DEF Contract!Promise, Contract!Genuine, Happened
        <3>2. QED
            BY <3>1, HappenedStays DEF Contract!Promise
    <2>2. CASE Happened(ev)'
        BY <2>2
    <2>3. QED
        BY <2>1, <2>2
<1>2. QED
    BY <1>1 DEF Contract!Genuine, Happened

\* What is known of the types, and what is left of them by a step that leaves streams or sandboxes.
LEMMA ContractTypes ==
    ASSUME Contract!TypeOK
    PROVE  /\ StateOf \in [Ids -> ContractStates] /\ OwedNow \subseteq Ids /\ Parting \subseteq Ids
           /\ PhaseOf \in [Streams -> {"off", "open", "send", "closed"}] /\ BaseOf \in [Streams -> SUBSET Ids]
           /\ DueOf \in [Streams -> SUBSET Contract!Events] /\ seen \in [Streams -> SUBSET Contract!Events]
           /\ lost \subseteq Streams
           /\ Contract!Open \subseteq Streams /\ Contract!Known \subseteq Ids
           /\ /\ StateOf' \in [Ids -> ContractStates] /\ OwedNow' \subseteq Ids /\ Parting' \subseteq Ids
              /\ PhaseOf' \in [Streams -> {"off", "open", "send", "closed"}]
              /\ BaseOf' \in [Streams -> SUBSET Ids] /\ DueOf' \in [Streams -> SUBSET Contract!Events]
              /\ seen' \in [Streams -> SUBSET Contract!Events] /\ lost' \subseteq Streams
              => Contract!TypeOK'
PROOF
  BY DEF Contract!TypeOK, Contract!Events, Contract!Open, Contract!Known, ContractStates

\* A step of the sandboxes of which no stream is told yet: what is new is owed.
LEMMA UntoldKeeps ==
    ASSUME Contract!Promise, UNCHANGED <<PhaseOf, BaseOf, DueOf, seen, lost>>,
           StateOf' \in [Ids -> ContractStates], OwedNow' \subseteq Ids, Parting' \subseteq Ids,
           OwedNow \subseteq OwedNow', Parting \subseteq Parting',
           \A i \in Ids : /\ StateOf'[i].in = "registry" =>
                                (StateOf[i].in = "registry" /\ StateOf'[i].rev = StateOf[i].rev) \/ i \in OwedNow'
                          /\ StateOf'[i].in = "removed" => StateOf[i].in = "removed" \/ i \in Parting',
           \A i \in Contract!Known : /\ StateOf'[i].in # "never"
                                     /\ StateOf[i].rev <= StateOf'[i].rev
                                     /\ StateOf[i].in = "removed" => StateOf'[i].in = "removed"
    PROVE  Contract!Promise'
PROOF
<1>1. Contract!TypeOK'
    BY ContractTypes DEF Contract!Promise
<1>2. Contract!Complete'
    <2> SUFFICES ASSUME NEW w \in Streams, NEW i \in Ids, PhaseOf[w] = "send", w \notin lost
                 PROVE  /\ StateOf'[i].in = "registry" =>
                             Contract!Shown(i, StateOf'[i].rev) \in seen[w] \cup DueOf[w] \/ i \in OwedNow'
                        /\ i \in BaseOf[w] /\ StateOf'[i].in = "removed" =>
                             Contract!Gone(i) \in seen[w] \cup DueOf[w] \/ i \in Parting'
        BY DEF Contract!Complete, Contract!Shown, Contract!Gone
    <2>1. /\ StateOf[i].in = "registry" =>
                Contract!Shown(i, StateOf[i].rev) \in seen[w] \cup DueOf[w] \/ i \in OwedNow
          /\ i \in BaseOf[w] /\ StateOf[i].in = "removed" =>
                Contract!Gone(i) \in seen[w] \cup DueOf[w] \/ i \in Parting
        BY DEF Contract!Promise, Contract!Complete
    <2>2. QED
        BY <2>1
<1>3. Contract!Genuine'
    <2>1. \A i \in Contract!Known : StateOf'[i].rev \in Nat
        BY ContractTypes DEF Contract!Promise, ContractStates
    <2>2. QED
        BY <2>1, GenuineKept
<1>4. QED
    BY <1>1, <1>2, <1>3 DEF Contract!Promise

\* Nobody has been shown what is registered, so it is owed.
LEMMA RegisterPromise == ASSUME Contract!Promise, NEW i \in Ids, Contract!Register(i) PROVE Contract!Promise'
PROOF
<1>1. /\ StateOf[i].in = "never" /\ StateOf' = [StateOf EXCEPT ![i] = [in |-> "registry", rev |-> 1]]
      /\ OwedNow' = OwedNow \cup {i} /\ UNCHANGED <<Parting, PhaseOf, BaseOf, DueOf, seen, lost>>
    BY DEF Contract!Register, Contract!calls, Contract!events
<1>2. /\ StateOf \in [Ids -> ContractStates] /\ OwedNow \subseteq Ids /\ Parting \subseteq Ids
    BY ContractTypes DEF Contract!Promise
<1>3. /\ StateOf' \in [Ids -> ContractStates] /\ StateOf'[i].in = "registry"
      /\ \A j \in Ids \ {i} : StateOf'[j] = StateOf[j]
    BY <1>1, <1>2 DEF ContractStates
<1>4. \A j \in Contract!Known : j \in Ids \ {i} /\ StateOf[j].rev <= StateOf[j].rev
    BY <1>1, <1>2 DEF Contract!Known, ContractStates
<1>5. \A j \in Contract!Known : StateOf[j].in # "never"
    BY DEF Contract!Known
<1>6. QED
    BY <1>1, <1>2, <1>3, <1>4, <1>5, UntoldKeeps

\* What changes is owed.
LEMMA ChangePromise == ASSUME Contract!Promise, NEW S \in SUBSET Ids, Contract!Change(S) PROVE Contract!Promise'
PROOF
<1>1. /\ S \subseteq Contract!Known
      /\ StateOf' = [j \in Ids |-> IF j \in S THEN [StateOf[j] EXCEPT !.rev = @ + 1] ELSE StateOf[j]]
      /\ OwedNow' = OwedNow \cup S /\ UNCHANGED <<Parting, PhaseOf, BaseOf, DueOf, seen, lost>>
    BY DEF Contract!Change, Contract!calls, Contract!events
<1>2. /\ StateOf \in [Ids -> ContractStates] /\ OwedNow \subseteq Ids /\ Parting \subseteq Ids
    BY ContractTypes DEF Contract!Promise
<1>3. ASSUME NEW j \in Ids
      PROVE  /\ StateOf'[j] \in ContractStates /\ StateOf'[j].in = StateOf[j].in
             /\ StateOf[j].rev <= StateOf'[j].rev /\ (j \notin S => StateOf'[j].rev = StateOf[j].rev)
    <2>1. ASSUME NEW s \in ContractStates
          PROVE  /\ [s EXCEPT !.rev = @ + 1] \in ContractStates /\ [s EXCEPT !.rev = @ + 1].in = s.in
                 /\ s.rev <= [s EXCEPT !.rev = @ + 1].rev /\ s.rev <= s.rev
        BY DEF ContractStates
    <2>2. StateOf[j] \in ContractStates
        BY <1>2
    <2>3. StateOf'[j] = IF j \in S THEN [StateOf[j] EXCEPT !.rev = @ + 1] ELSE StateOf[j]
        BY <1>1
    <2>4. QED
        BY <2>1, <2>2, <2>3
<1>4. StateOf' \in [Ids -> ContractStates]
    <2>1. StateOf' = [j \in Ids |-> StateOf'[j]]
        BY <1>1
    <2>2. QED
        BY <1>3, <2>1
<1>5. \A j \in Contract!Known : j \in Ids /\ StateOf[j].in # "never"
    BY DEF Contract!Known
<1>6. \A j \in Ids : StateOf'[j].in = "registry" =>
            (StateOf[j].in = "registry" /\ StateOf'[j].rev = StateOf[j].rev) \/ j \in OwedNow'
    BY <1>1, <1>3
<1>7. QED
    BY <1>1, <1>2, <1>3, <1>4, <1>5, <1>6, UntoldKeeps

\* What is removed is to be told.
LEMMA RemovePromise == ASSUME Contract!Promise, NEW i \in Ids, Contract!Remove(i) PROVE Contract!Promise'
PROOF
<1>1. /\ StateOf[i].in = "registry" /\ StateOf' = [StateOf EXCEPT ![i].in = "removed"]
      /\ Parting' = Parting \cup {i} /\ UNCHANGED <<OwedNow, PhaseOf, BaseOf, DueOf, seen, lost>>
    BY DEF Contract!Remove, Contract!calls, Contract!events
<1>2. /\ StateOf \in [Ids -> ContractStates] /\ OwedNow \subseteq Ids /\ Parting \subseteq Ids
    BY ContractTypes DEF Contract!Promise
<1>3. /\ StateOf' \in [Ids -> ContractStates] /\ StateOf'[i].in = "removed" /\ StateOf'[i].rev = StateOf[i].rev
      /\ \A j \in Ids \ {i} : StateOf'[j] = StateOf[j]
    BY <1>1, <1>2 DEF ContractStates
<1>4. \A j \in Contract!Known : j \in Ids /\ StateOf[j].in # "never" /\ StateOf[j].rev <= StateOf[j].rev
    BY <1>2 DEF Contract!Known, ContractStates
<1>5. QED
    BY <1>1, <1>2, <1>3, <1>4, UntoldKeeps

\* A sandbox that does not change: what has happened, has.
LEMMA SandboxesStay ==
    ASSUME Contract!TypeOK, StateOf' = StateOf
    PROVE  \A i \in Contract!Known : /\ StateOf'[i].in # "never" /\ StateOf'[i].rev \in Nat
                                     /\ StateOf[i].rev <= StateOf'[i].rev
                                     /\ StateOf[i].in = "removed" => StateOf'[i].in = "removed"
PROOF
  BY ContractTypes DEF Contract!Known, ContractStates

\* What is told of has happened, and is owed no longer only to those who are told.
LEMMA TellingKeeps ==
    ASSUME Contract!Promise, NEW ev \in Contract!Events, Happened(ev), Contract!Publish(ev),
           OwedNow' \subseteq Ids, Parting' \subseteq Ids,
           \A i \in OwedNow \ OwedNow' : ev = Contract!Shown(i, StateOf[i].rev),
           \A i \in Parting \ Parting' : ev = Contract!Gone(i)
    PROVE  Contract!Promise'
PROOF
<1>1. PICK dropped \in SUBSET Contract!Open :
          /\ DueOf' = [w \in Streams |-> IF w \in Contract!Open \ dropped THEN DueOf[w] \cup {ev} ELSE DueOf[w]]
          /\ lost' = lost \cup dropped /\ UNCHANGED <<StateOf, PhaseOf, BaseOf, seen>>
    BY DEF Contract!Publish, Contract!calls
<1>2. Contract!TypeOK'
    <2>1. DueOf \in [Streams -> SUBSET Contract!Events] /\ lost \subseteq Streams /\ Contract!Open \subseteq Streams
        BY ContractTypes DEF Contract!Promise
    <2>2. DueOf' \in [Streams -> SUBSET Contract!Events] /\ lost' \subseteq Streams
        BY <1>1, <2>1
    <2>3. QED
        BY <1>1, <2>2, ContractTypes DEF Contract!Promise
<1>3. Contract!Complete'
    <2> SUFFICES ASSUME NEW w \in Streams, NEW i \in Ids, PhaseOf[w] = "send", w \notin lost'
                 PROVE  /\ StateOf[i].in = "registry" =>
                             Contract!Shown(i, StateOf[i].rev) \in seen[w] \cup DueOf'[w] \/ i \in OwedNow'
                        /\ i \in BaseOf[w] /\ StateOf[i].in = "removed" =>
                             Contract!Gone(i) \in seen[w] \cup DueOf'[w] \/ i \in Parting'
        BY <1>1 DEF Contract!Complete, Contract!Shown, Contract!Gone
    <2>1. /\ StateOf[i].in = "registry" =>
                Contract!Shown(i, StateOf[i].rev) \in seen[w] \cup DueOf[w] \/ i \in OwedNow
          /\ i \in BaseOf[w] /\ StateOf[i].in = "removed" =>
                Contract!Gone(i) \in seen[w] \cup DueOf[w] \/ i \in Parting
        BY <1>1 DEF Contract!Promise, Contract!Complete
    <2>2. DueOf'[w] = DueOf[w] \cup {ev}
        <3>1. w \in Contract!Open \ dropped
            BY <1>1 DEF Contract!Open
        <3>2. QED
            BY <1>1, <3>1
    <2>3. QED
        BY <2>1, <2>2
<1>4. Contract!Genuine'
    <2>1. Happened(ev)'
        BY SandboxesStay, HappenedStays, <1>1 DEF Contract!Promise
    <2>2. \A w \in Streams : \A e \in seen'[w] \cup DueOf'[w] : e \in seen[w] \cup DueOf[w] \/ Happened(e)'
        BY <1>1, <2>1
    <2>3. StateOf' = StateOf
        BY <1>1
    <2>4. QED
        BY <2>2, <2>3, SandboxesStay, GenuineKept DEF Contract!Promise
<1>5. QED
    BY <1>2, <1>3, <1>4 DEF Contract!Promise

\* Whoever is shown the newest state is owed it no longer.
LEMMA ShowPromise == ASSUME Contract!Promise, NEW i \in Ids, Contract!Show(i) PROVE Contract!Promise'
PROOF
<1>1. PICK rev \in 0 .. StateOf[i].rev :
          /\ i \in Contract!Known /\ Contract!Publish(Contract!Shown(i, rev)) /\ Parting' = Parting
          /\ OwedNow' = OwedNow \/ (rev = StateOf[i].rev /\ OwedNow' = OwedNow \ {i})
    BY DEF Contract!Show
<1>2. StateOf[i].rev \in Nat /\ OwedNow \subseteq Ids /\ Parting \subseteq Ids
    BY ContractTypes DEF Contract!Promise, ContractStates
<1>3. Contract!Shown(i, rev) \in Contract!Events /\ Happened(Contract!Shown(i, rev))
    BY <1>1, <1>2 DEF Contract!Shown, Contract!Events, Happened
<1>4. \A j \in OwedNow \ OwedNow' : j = i /\ rev = StateOf[i].rev
    BY <1>1
<1>5. QED
    BY <1>1, <1>2, <1>3, <1>4, TellingKeeps

\* Whoever is told of a removal is owed it no longer.
LEMMA TellRemovalPromise ==
    ASSUME Contract!Promise, NEW i \in Ids, StateOf[i].in = "removed", Contract!TellRemoval(i)
    PROVE  Contract!Promise'
PROOF
<1>1. i \in Parting /\ Contract!Publish(Contract!Gone(i)) /\ Parting' = Parting \ {i} /\ OwedNow' = OwedNow
    BY DEF Contract!TellRemoval
<1>2. OwedNow \subseteq Ids /\ Parting \subseteq Ids
    BY ContractTypes DEF Contract!Promise
<1>3. Contract!Gone(i) \in Contract!Events /\ Happened(Contract!Gone(i))
    BY DEF Contract!Gone, Contract!Events, Happened, Contract!Known
<1>4. QED
    BY <1>1, <1>2, <1>3, TellingKeeps

\* A step of stream w: the others keep what they have, and what it has has happened.
LEMMA StreamPromise ==
    ASSUME Contract!Promise, NEW w \in Streams, UNCHANGED <<StateOf, OwedNow, Parting>>,
           PhaseOf' \in [Streams -> {"off", "open", "send", "closed"}], BaseOf' \in [Streams -> SUBSET Ids],
           DueOf' \in [Streams -> SUBSET Contract!Events], seen' \in [Streams -> SUBSET Contract!Events],
           lost' \in SUBSET Streams,
           \A v \in Streams \ {w} :
               /\ PhaseOf'[v] = PhaseOf[v] /\ BaseOf'[v] = BaseOf[v] /\ DueOf'[v] = DueOf[v]
               /\ seen'[v] = seen[v] /\ (v \in lost' <=> v \in lost),
           \A ev \in seen'[w] \cup DueOf'[w] : ev \in seen[w] \cup DueOf[w] \/ Happened(ev),
           PhaseOf'[w] = "send" /\ w \notin lost' => \A i \in Ids :
               /\ StateOf[i].in = "registry" =>
                    Contract!Shown(i, StateOf[i].rev) \in seen'[w] \cup DueOf'[w] \/ i \in OwedNow
               /\ i \in BaseOf'[w] /\ StateOf[i].in = "removed" =>
                    Contract!Gone(i) \in seen'[w] \cup DueOf'[w] \/ i \in Parting
    PROVE  Contract!Promise'
PROOF
<1>1. Contract!TypeOK'
    BY ContractTypes DEF Contract!Promise
<1>2. Contract!Complete'
    <2> SUFFICES ASSUME NEW v \in Streams, NEW i \in Ids, PhaseOf'[v] = "send", v \notin lost'
                 PROVE  /\ StateOf[i].in = "registry" =>
                             Contract!Shown(i, StateOf[i].rev) \in seen'[v] \cup DueOf'[v] \/ i \in OwedNow
                        /\ i \in BaseOf'[v] /\ StateOf[i].in = "removed" =>
                             Contract!Gone(i) \in seen'[v] \cup DueOf'[v] \/ i \in Parting
        BY DEF Contract!Complete, Contract!Shown, Contract!Gone
    <2>1. CASE v = w
        BY <2>1
    <2>2. CASE v # w
        <3>1. /\ StateOf[i].in = "registry" =>
                    Contract!Shown(i, StateOf[i].rev) \in seen[v] \cup DueOf[v] \/ i \in OwedNow
              /\ i \in BaseOf[v] /\ StateOf[i].in = "removed" =>
                    Contract!Gone(i) \in seen[v] \cup DueOf[v] \/ i \in Parting
            BY <2>2 DEF Contract!Promise, Contract!Complete
        <3>2. QED
            BY <2>2, <3>1
    <2>3. QED
        BY <2>1, <2>2
<1>3. Contract!Genuine'
    <2>1. \A v \in Streams : \A ev \in seen'[v] \cup DueOf'[v] : ev \in seen[v] \cup DueOf[v] \/ Happened(ev)'
        <3>1. ASSUME NEW ev, Happened(ev) PROVE Happened(ev)'
            BY <3>1, SandboxesStay, HappenedStays DEF Contract!Promise
        <3>2. QED
            BY <3>1
    <2>2. QED
        BY <2>1, SandboxesStay, GenuineKept DEF Contract!Promise
<1>4. QED
    BY <1>1, <1>2, <1>3 DEF Contract!Promise

\* A stream that has not looked at the registry is promised nothing yet.
LEMMA SubscribePromise ==
    ASSUME Contract!Promise, NEW w \in Streams, Contract!Subscribe(w) PROVE Contract!Promise'
PROOF
<1>1. /\ PhaseOf' = [PhaseOf EXCEPT ![w] = "open"]
      /\ UNCHANGED <<StateOf, OwedNow, Parting, BaseOf, DueOf, seen, lost>>
    BY DEF Contract!Subscribe, Contract!sandboxes, Contract!events
<1>2. /\ PhaseOf \in [Streams -> {"off", "open", "send", "closed"}] /\ BaseOf \in [Streams -> SUBSET Ids]
      /\ DueOf \in [Streams -> SUBSET Contract!Events] /\ seen \in [Streams -> SUBSET Contract!Events]
      /\ lost \subseteq Streams
    BY ContractTypes DEF Contract!Promise
<1>3. PhaseOf'[w] = "open" /\ \A v \in Streams \ {w} : PhaseOf'[v] = PhaseOf[v]
    BY <1>1, <1>2
<1>4. PhaseOf' \in [Streams -> {"off", "open", "send", "closed"}]
    BY <1>1, <1>2
<1>5. QED
    BY <1>1, <1>2, <1>3, <1>4, StreamPromise

\* Whatever is registered is on its way after the replay.
LEMMA ReplayPromise ==
    ASSUME Contract!Promise, NEW w \in Streams, Contract!Replay(w) PROVE Contract!Promise'
PROOF
<1> DEFINE replay == {Contract!Shown(i, StateOf[i].rev) : i \in Contract!Registered}
<1>1. /\ PhaseOf' = [PhaseOf EXCEPT ![w] = "send"] /\ BaseOf' = [BaseOf EXCEPT ![w] = Contract!Registered]
      /\ DueOf' = [DueOf EXCEPT ![w] = @ \cup replay]
      /\ UNCHANGED <<StateOf, OwedNow, Parting, seen, lost>>
    BY DEF Contract!Replay, Contract!sandboxes
<1>2. /\ PhaseOf \in [Streams -> {"off", "open", "send", "closed"}] /\ BaseOf \in [Streams -> SUBSET Ids]
      /\ DueOf \in [Streams -> SUBSET Contract!Events] /\ seen \in [Streams -> SUBSET Contract!Events]
      /\ lost \subseteq Streams /\ StateOf \in [Ids -> ContractStates]
    BY ContractTypes DEF Contract!Promise
<1>3. ASSUME NEW i \in Contract!Registered
      PROVE  /\ i \in Ids /\ Contract!Shown(i, StateOf[i].rev) \in Contract!Events
             /\ Happened(Contract!Shown(i, StateOf[i].rev))
    <2>1. i \in Ids /\ StateOf[i].rev \in Nat /\ i \in Contract!Known /\ StateOf[i].rev \in 0 .. StateOf[i].rev
        BY <1>2 DEF Contract!Registered, Contract!Known, ContractStates
    <2>2. QED
        BY <2>1 DEF Contract!Shown, Contract!Events, Happened
<1>4. replay \subseteq Contract!Events /\ \A ev \in replay : Happened(ev)
    BY <1>3
<1>5. \A i \in Ids : /\ StateOf[i].in = "registry" => Contract!Shown(i, StateOf[i].rev) \in replay
                     /\ i \in Contract!Registered => StateOf[i].in # "removed"
    BY DEF Contract!Registered
<1> HIDE DEF replay
<1>6. /\ BaseOf'[w] = Contract!Registered /\ DueOf'[w] = DueOf[w] \cup replay
      /\ \A v \in Streams \ {w} : PhaseOf'[v] = PhaseOf[v] /\ BaseOf'[v] = BaseOf[v] /\ DueOf'[v] = DueOf[v]
    BY <1>1, <1>2
<1>7. /\ PhaseOf' \in [Streams -> {"off", "open", "send", "closed"}] /\ BaseOf' \in [Streams -> SUBSET Ids]
      /\ DueOf' \in [Streams -> SUBSET Contract!Events]
    <2>1. Contract!Registered \subseteq Ids
        BY DEF Contract!Registered
    <2>2. QED
        BY <1>1, <1>2, <1>4, <2>1
<1>8. QED
    BY <1>1, <1>2, <1>4, <1>5, <1>6, <1>7, StreamPromise

\* What is delivered was on its way.
LEMMA DeliverPromise ==
    ASSUME Contract!Promise, NEW w \in Streams, Contract!Deliver(w) PROVE Contract!Promise'
PROOF
<1>1. PICK ev \in DueOf[w] : /\ seen' = [seen EXCEPT ![w] = @ \cup {ev}]
                             /\ DueOf' = DueOf \/ DueOf' = [DueOf EXCEPT ![w] = @ \ {ev}]
    BY DEF Contract!Deliver
<1>2. /\ PhaseOf \in [Streams -> {"off", "open", "send", "closed"}] /\ BaseOf \in [Streams -> SUBSET Ids]
      /\ DueOf \in [Streams -> SUBSET Contract!Events] /\ seen \in [Streams -> SUBSET Contract!Events]
      /\ lost \subseteq Streams
    BY ContractTypes DEF Contract!Promise
<1>3. UNCHANGED <<StateOf, OwedNow, Parting, PhaseOf, BaseOf, lost>>
    BY DEF Contract!Deliver, Contract!sandboxes, Contract!calls
<1>4. /\ seen'[w] \cup DueOf'[w] = seen[w] \cup DueOf[w]
      /\ \A v \in Streams \ {w} : seen'[v] = seen[v] /\ DueOf'[v] = DueOf[v]
    BY <1>1, <1>2
<1>5. DueOf' \in [Streams -> SUBSET Contract!Events] /\ seen' \in [Streams -> SUBSET Contract!Events]
    BY <1>1, <1>2
<1>6. PhaseOf[w] = "send" /\ w \notin lost => \A i \in Ids :
          /\ StateOf[i].in = "registry" =>
               Contract!Shown(i, StateOf[i].rev) \in seen[w] \cup DueOf[w] \/ i \in OwedNow
          /\ i \in BaseOf[w] /\ StateOf[i].in = "removed" =>
               Contract!Gone(i) \in seen[w] \cup DueOf[w] \/ i \in Parting
    BY DEF Contract!Promise, Contract!Complete
<1>7. QED
    BY <1>2, <1>3, <1>4, <1>5, <1>6, StreamPromise

\* A stream that has ended is promised nothing.
LEMMA EndPromise ==
    ASSUME Contract!Promise, NEW w \in Streams, Contract!End(w) PROVE Contract!Promise'
PROOF
<1>1. /\ PhaseOf' = [PhaseOf EXCEPT ![w] = "closed"] /\ BaseOf' = [BaseOf EXCEPT ![w] = {}]
      /\ DueOf' = [DueOf EXCEPT ![w] = {}] /\ seen' = [seen EXCEPT ![w] = {}] /\ lost' = lost \ {w}
      /\ UNCHANGED <<StateOf, OwedNow, Parting>>
    BY DEF Contract!End, Contract!sandboxes
<1>2. /\ PhaseOf \in [Streams -> {"off", "open", "send", "closed"}] /\ BaseOf \in [Streams -> SUBSET Ids]
      /\ DueOf \in [Streams -> SUBSET Contract!Events] /\ seen \in [Streams -> SUBSET Contract!Events]
      /\ lost \subseteq Streams
    BY ContractTypes DEF Contract!Promise
<1>3. /\ PhaseOf'[w] = "closed" /\ seen'[w] \cup DueOf'[w] = {}
      /\ \A v \in Streams \ {w} :
            /\ PhaseOf'[v] = PhaseOf[v] /\ BaseOf'[v] = BaseOf[v] /\ DueOf'[v] = DueOf[v]
            /\ seen'[v] = seen[v] /\ (v \in lost' <=> v \in lost)
    BY <1>1, <1>2
<1>4. /\ PhaseOf' \in [Streams -> {"off", "open", "send", "closed"}] /\ BaseOf' \in [Streams -> SUBSET Ids]
      /\ DueOf' \in [Streams -> SUBSET Contract!Events] /\ seen' \in [Streams -> SUBSET Contract!Events]
      /\ lost' \in SUBSET Streams
    BY <1>1, <1>2
<1>5. QED
    BY <1>1, <1>3, <1>4, StreamPromise

-----------------------------------------------------------------------------
\* Only what is removed has its removal to be told.
Leaving == \A i \in Parting : StateOf[i].in = "removed"

\* Every step of the contract keeps it so.
LEMMA LeavingKept == ASSUME Contract!TypeOK, Leaving, Contract!Next PROVE Leaving'
PROOF
<1>1. StateOf \in [Ids -> ContractStates] /\ Parting \subseteq Ids
    BY ContractTypes
<1>2. ASSUME NEW i \in Ids, Contract!Register(i) PROVE Leaving'
    BY <1>1, <1>2 DEF Contract!Register, Leaving
<1>3. ASSUME NEW i \in Ids, Contract!Remove(i) PROVE Leaving'
    BY <1>1, <1>3 DEF Contract!Remove, Leaving, ContractStates
<1>4. ASSUME NEW i \in Ids, Contract!Show(i) \/ Contract!TellRemoval(i) PROVE Leaving'
    BY <1>4 DEF Contract!Show, Contract!TellRemoval, Contract!Publish, Leaving
<1>5. ASSUME NEW S \in SUBSET Ids, Contract!Change(S) PROVE Leaving'
    <2>1. \A s \in ContractStates : [s EXCEPT !.rev = @ + 1].in = s.in
        BY DEF ContractStates
    <2>2. \A j \in Ids : StateOf'[j] = IF j \in S THEN [StateOf[j] EXCEPT !.rev = @ + 1] ELSE StateOf[j]
        BY <1>5 DEF Contract!Change
    <2>3. \A j \in Ids : StateOf'[j].in = StateOf[j].in
        BY <1>1, <2>1, <2>2
    <2>4. Parting' = Parting
        BY <1>5 DEF Contract!Change
    <2>5. QED
        BY <1>1, <2>3, <2>4 DEF Leaving
<1>6. ASSUME NEW w \in Streams,
             Contract!Subscribe(w) \/ Contract!Replay(w) \/ Contract!Deliver(w) \/ Contract!End(w)
      PROVE  Leaving'
    BY <1>6 DEF Contract!Subscribe, Contract!Replay, Contract!Deliver, Contract!End, Contract!sandboxes, Leaving
<1>7. QED
    BY <1>2, <1>3, <1>4, <1>5, <1>6 DEF Contract!Next

\* No step of the contract breaks its promise.
LEMMA ContractKeeps ==
    Contract!Promise /\ Leaving /\ [Contract!Next]_(Contract!vars) => (Contract!Promise /\ Leaving)'
PROOF
<1> SUFFICES ASSUME Contract!Promise, Leaving, [Contract!Next]_(Contract!vars)
             PROVE  Contract!Promise' /\ Leaving'
    OBVIOUS
<1>1. ASSUME Contract!Next PROVE Contract!Promise'
    <2>1. ASSUME NEW i \in Ids,
                 Contract!Register(i) \/ Contract!Remove(i) \/ Contract!Show(i) \/ Contract!TellRemoval(i)
          PROVE  Contract!Promise'
        <3>1. Contract!TellRemoval(i) => StateOf[i].in = "removed"
            BY DEF Contract!TellRemoval, Leaving
        <3>2. QED
            BY <2>1, <3>1, RegisterPromise, RemovePromise, ShowPromise, TellRemovalPromise
    <2>2. ASSUME NEW S \in SUBSET Ids, Contract!Change(S) PROVE Contract!Promise'
        BY <2>2, ChangePromise
    <2>3. ASSUME NEW w \in Streams,
                 Contract!Subscribe(w) \/ Contract!Replay(w) \/ Contract!Deliver(w) \/ Contract!End(w)
          PROVE  Contract!Promise'
        BY <2>3, SubscribePromise, ReplayPromise, DeliverPromise, EndPromise
    <2>4. QED
        BY <1>1, <2>1, <2>2, <2>3 DEF Contract!Next
<1>2. ASSUME Contract!Next PROVE Leaving'
    BY <1>2, LeavingKept DEF Contract!Promise
<1>3. CASE UNCHANGED (Contract!vars)
    <2>1. UNCHANGED View
        BY <1>3 DEF Contract!vars, View
    <2>2. Contract!Promise' /\ Leaving'
        BY <2>1, UntoldKeeps, SandboxesStay, ContractTypes DEF View, Leaving, Contract!Promise
    <2>3. QED
        BY <2>2
<1>4. QED
    BY <1>1, <1>2, <1>3

\* At first nothing is promised to anyone.
LEMMA ContractStarts == Contract!Init => Contract!Promise /\ Leaving
PROOF
<1> SUFFICES ASSUME Contract!Init PROVE Contract!Promise /\ Leaving
    OBVIOUS
<1>1. Contract!TypeOK
    BY DEF Contract!Init, Contract!TypeOK
<1>2. Contract!Complete /\ Contract!Genuine /\ Leaving
    BY DEF Contract!Init, Contract!Complete, Contract!Genuine, Leaving
<1>3. QED
    BY <1>1, <1>2 DEF Contract!Promise

\* The contract is worth having: a stream that keeps to it gets the newest state of every sandbox
\* and the removal of those it was shown, or missed an event, and is never told of what has not
\* happened.
THEOREM ContractSound == Contract!Spec => []Contract!Promise
PROOF
  BY ContractStarts, ContractKeeps, PTL DEF Contract!Spec

\* So do the streams of WatchSandboxes.
THEOREM PromiseCorrect == Spec => []Contract!Promise
PROOF
  BY Refinement, ContractSound, PTL DEF ImplementsStreamContract

====
