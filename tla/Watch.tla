------------------------------- MODULE Watch -------------------------------
(***************************************************************************)
(* How the conditions of the registry reach the watch streams: hub.go, and *)
(* publishSandbox, publishDeleted, publishPlatformEvent and WatchSandboxes *)
(* of internal/grpcsvc, with everyone who publishes.  What is observed of  *)
(* a sandbox is reduced to a revision, which counts its changes.           *)
(*                                                                         *)
(* Every publisher changes an entry under s.mu, takes its snapshot under   *)
(* s.mu again, and hands it to the hub under hub.mu: three steps.          *)
(***************************************************************************)
EXTENDS Naturals, Sequences

CONSTANTS
  Ids,          \* sandbox ids
  Streams,      \* calls of WatchSandboxes, each by its subscriber number
  WatchBuffer,  \* watchBuffer, 128 in the code
  MaxRev,       \* no stop, start, delete or poll begins to change an entry
                \* that has changed so often: bounds the model
  None          \* no sandbox

ASSUME WatchBufferAssumption == WatchBuffer \in Nat \ {0}
ASSUME MaxRevAssumption == MaxRev \in Nat
ASSUME NoIdAssumption == None \notin Ids

VARIABLES
  entry,   \* what publishers know of each sandbox, also after its removal
  pub,     \* the goroutines that publish
  poll,    \* the lists pollOnce works through
  subs,    \* keys of hub.subs
  chan,    \* the subscribers' channels
  stream,  \* the WatchSandboxes handlers
  seen,    \* the sandbox and deleted events each client has received
  lost     \* streams for which such an event was dropped

registryVars == <<entry, pub, poll>>
hubVars == <<subs, chan, lost>>
clientVars == <<stream, seen>>
vars == <<entry, pub, poll, subs, chan, stream, seen, lost>>

-----------------------------------------------------------------------------
(* The goroutines: for each sandbox its create handler, its provisioning   *)
(* task, the one stop or start that busy admits, and a delete; the poller. *)

Poller == <<"poll", None>>
Publishers == ({"create", "provision", "operate", "delete"} \X Ids) \cup {Poller}

Event(kind, i, rev) == [kind |-> kind, id |-> i, rev |-> rev]
Events == [kind : {"sandbox", "deleted", "platform"}, id : Ids, rev : Nat]

SandboxEvent(i) == Event("sandbox", i, entry[i].rev)
DeletedEvent(i) == Event("deleted", i, 0)
PlatformEvent(i) == Event("platform", i, 0)

NoEvent == Event("none", None, 0)
NoPublisher == [pc |-> "idle", snap |-> NoEvent]
NoPoll == [tails |-> {}, left |-> {}, cur |-> None]
NoStream == [pc |-> "off", todo |-> {}, base |-> {}]

NoEntry == [in |-> "never", rev |-> 0, exited |-> FALSE, deleting |-> FALSE,
            canceled |-> FALSE]

\* A sandbox Bootstrap has adopted, with either kind of condition.
Adopted == {[NoEntry EXCEPT !.in = "registry", !.exited = x] : x \in BOOLEAN}

TypeOK ==
  /\ entry \in [Ids -> [in : {"never", "registry", "removed"}, rev : Nat,
                        exited : BOOLEAN, deleting : BOOLEAN, canceled : BOOLEAN]]
  /\ pub \in [Publishers -> [pc : {"idle", "pull", "pulled", "work", "snapshot",
                                   "publish", "event", "teardown", "farewell",
                                   "tails", "warn"},
                             snap : Events \cup {NoEvent}]]
  /\ poll \in [tails : SUBSET Ids, left : SUBSET Ids, cur : Ids \cup {None}]
  /\ subs \in SUBSET Streams
  /\ chan \in [Streams -> Seq(Events)]
  /\ \A w \in Streams : Len(chan[w]) <= WatchBuffer
  /\ stream \in [Streams -> [pc : {"off", "open", "send", "closed"},
                             todo : SUBSET Events, base : SUBSET Ids]]
  /\ seen \in [Streams -> SUBSET Events]
  /\ lost \in SUBSET Streams

Init ==
  /\ entry \in [Ids -> {NoEntry} \cup Adopted]
  /\ pub = [p \in Publishers |-> NoPublisher]
  /\ poll = NoPoll
  /\ subs = {}
  /\ chan = [w \in Streams |-> <<>>]
  /\ stream = [w \in Streams |-> NoStream]
  /\ seen = [w \in Streams |-> {}]
  /\ lost = {}

Registered == {i \in Ids : entry[i].in = "registry"}

Idle(p) == pub[p].pc = "idle"

ProvisionDone(i) == Idle(<<"create", i>>) /\ Idle(<<"provision", i>>)

\* pollable, and what beginLifecycle asks for
Pollable(i) ==
  /\ i \in Registered
  /\ ~entry[i].deleting
  /\ Idle(<<"operate", i>>)
  /\ ProvisionDone(i)

Goto(p, pc) == pub' = [pub EXCEPT ![p].pc = pc]

\* setCondition, or its like under a lock that is already held.
Observe(i, exited) ==
  entry' = [entry EXCEPT ![i].rev = @ + 1, ![i].exited = exited]

-----------------------------------------------------------------------------
(* The hub.                                                                *)

\* Defect: a subscriber that lags is waited for.
PublishBlocking(ev) ==
  /\ \A w \in subs : Len(chan[w]) < WatchBuffer
  /\ chan' = [w \in Streams |-> IF w \in subs THEN Append(chan[w], ev) ELSE chan[w]]
  /\ UNCHANGED <<subs, lost>>

\* A subscriber whose channel is full misses the event.  No platform event is
\* missed by anyone who wants to know a sandbox's state.
Publish(ev) ==
  LET full == {w \in subs : Len(chan[w]) >= WatchBuffer} IN
  /\ chan' = [w \in Streams |-> IF w \in subs \ full THEN Append(chan[w], ev)
                                ELSE chan[w]]
  /\ lost' = IF ev.kind = "platform" THEN lost ELSE lost \cup full
  /\ UNCHANGED subs

-----------------------------------------------------------------------------
(* publishSandbox, and the platform event that follows it.                 *)

Subject(p) == IF p = Poller THEN poll.cur ELSE p[2]

TakeSnapshot(p) ==
  /\ pub[p].pc = "snapshot"
  /\ pub' = [pub EXCEPT ![p] = [pc |-> "publish", snap |-> SandboxEvent(Subject(p))]]
  /\ UNCHANGED <<entry, poll, hubVars, clientVars>>

\* A delete goes on to cancel provisioning.
PublishSandbox(p) ==
  /\ pub[p].pc = "publish"
  /\ Publish(pub[p].snap)
  /\ pub' = [pub EXCEPT ![p] =
       [pc |-> CASE p[1] = "delete" -> "teardown"
                 [] p = Poller -> IF poll.left = {} THEN "idle" ELSE "tails"
                 [] OTHER -> "event",
        snap |-> NoEvent]]
  /\ entry' = IF p[1] = "delete" THEN [entry EXCEPT ![p[2]].canceled = TRUE] ELSE entry
  /\ UNCHANGED <<poll, clientVars>>

\* Scheduled, Started, Stopped, ProvisioningFailed.  The create handler then
\* starts the task and returns; a stop or start releases the entry.
PublishOutcome(p) ==
  /\ pub[p].pc = "event"
  /\ Publish(PlatformEvent(p[2]))
  /\ \/ p[1] # "create" /\ Goto(p, "idle")
     \/ /\ p[1] = "create"
        /\ \E pc \in {"pull", "work"} :
             pub' = [pub EXCEPT ![p].pc = "idle", ![<<"provision", p[2]>>].pc = pc]
  /\ UNCHANGED <<entry, poll, clientVars>>

Publication(p) == TakeSnapshot(p) \/ PublishSandbox(p) \/ PublishOutcome(p)

-----------------------------------------------------------------------------
(* Who publishes.                                                          *)

Create(i) ==
  /\ entry[i].in = "never"
  /\ entry' = [entry EXCEPT ![i].in = "registry", ![i].rev = 1]
  /\ Goto(<<"create", i>>, "snapshot")
  /\ UNCHANGED <<poll, hubVars, clientVars>>

\* Pulling and Pulled
ProvisionPull(i) ==
  LET p == <<"provision", i>> IN
  /\ pub[p].pc \in {"pull", "pulled"}
  /\ Publish(PlatformEvent(i))
  /\ Goto(p, IF pub[p].pc = "pull" THEN "pulled" ELSE "work")
  /\ UNCHANGED <<entry, poll, clientVars>>

\* The task reports what came of it, unless it failed after being canceled.
ProvisionEnd(i) ==
  LET p == <<"provision", i>> IN
  /\ pub[p].pc \in {"pulled", "work"}
  /\ \/ Observe(i, FALSE) /\ Goto(p, "snapshot")
     \/ entry[i].canceled /\ Goto(p, "idle") /\ UNCHANGED entry
  /\ UNCHANGED <<poll, hubVars, clientVars>>

\* What beginLifecycle asks of the condition's reason is left out: the model
\* admits more stops and starts than the code.
BeginOperate(i) ==
  /\ Pollable(i)
  /\ entry[i].rev < MaxRev
  /\ Goto(<<"operate", i>>, "work")
  /\ UNCHANGED <<entry, poll, hubVars, clientVars>>

\* A stop or start that fails publishes nothing.
OperateEnd(i) ==
  LET p == <<"operate", i>> IN
  /\ pub[p].pc = "work"
  /\ \/ Observe(i, FALSE) /\ Goto(p, "snapshot")
     \/ Goto(p, "idle") /\ UNCHANGED entry
  /\ UNCHANGED <<poll, hubVars, clientVars>>

BeginDelete(i) ==
  /\ i \in Registered
  /\ Idle(<<"delete", i>>)
  /\ entry[i].rev < MaxRev
  /\ entry' = [entry EXCEPT ![i].rev = @ + 1, ![i].exited = FALSE, ![i].deleting = TRUE]
  /\ Goto(<<"delete", i>>, "snapshot")
  /\ UNCHANGED <<poll, hubVars, clientVars>>

\* Defect: a sandbox whose VM was gone already is removed without an event.
DeleteTeardownSilent(i) ==
  LET p == <<"delete", i>> IN
  /\ pub[p].pc = "teardown"
  /\ \/ Goto(p, "idle") /\ UNCHANGED entry
     \/ /\ ProvisionDone(i)
        /\ entry' = [entry EXCEPT ![i].in = "removed"]
        /\ \E pc \in {"farewell", "idle"} : Goto(p, pc)
  /\ UNCHANGED <<poll, hubVars, clientVars>>

\* Defect: a delete whose teardown failed tells of the removal all the same.
DeleteTeardownEager(i) ==
  LET p == <<"delete", i>> IN
  /\ pub[p].pc = "teardown"
  /\ \/ Goto(p, "farewell") /\ UNCHANGED entry
     \/ /\ ProvisionDone(i)
        /\ entry' = [entry EXCEPT ![i].in = "removed"]
        /\ Goto(p, "farewell")
  /\ UNCHANGED <<poll, hubVars, clientVars>>

\* The wait for provisioning may expire and the teardown may fail; the entry
\* is removed, still without a word to the streams, when neither happens.
DeleteTeardown(i) ==
  LET p == <<"delete", i>> IN
  /\ pub[p].pc = "teardown"
  /\ \/ Goto(p, "idle") /\ UNCHANGED entry
     \/ /\ ProvisionDone(i)
        /\ entry' = [entry EXCEPT ![i].in = "removed"]
        /\ Goto(p, "farewell")
  /\ UNCHANGED <<poll, hubVars, clientVars>>

\* publishDeleted
DeleteFarewell(i) ==
  /\ pub[<<"delete", i>>].pc = "farewell"
  /\ Publish(DeletedEvent(i))
  /\ Goto(<<"delete", i>>, "idle")
  /\ UNCHANGED <<entry, poll, clientVars>>

(* pollOnce, from the point where it applies its listing.                  *)

\* Defect: an exit is announced by its warning only.
PollApplyQuiet ==
  /\ Idle(Poller)
  /\ \E changed \in (SUBSET {i \in Ids : Pollable(i) /\ entry[i].rev < MaxRev}) \ {{}} :
     \E exited \in SUBSET {i \in changed : ~entry[i].exited} :
       /\ entry' = [i \in Ids |-> IF i \in changed
                                  THEN [entry[i] EXCEPT !.rev = @ + 1, !.exited = i \in exited]
                                  ELSE entry[i]]
       /\ poll' = [tails |-> exited, left |-> changed \ exited, cur |-> None]
  /\ Goto(Poller, "tails")
  /\ UNCHANGED <<hubVars, clientVars>>

PollApply ==
  /\ Idle(Poller)
  /\ \E changed \in (SUBSET {i \in Ids : Pollable(i) /\ entry[i].rev < MaxRev}) \ {{}} :
     \E exited \in SUBSET {i \in changed : ~entry[i].exited} :
       /\ entry' = [i \in Ids |-> IF i \in changed
                                  THEN [entry[i] EXCEPT !.rev = @ + 1, !.exited = i \in exited]
                                  ELSE entry[i]]
       /\ poll' = [tails |-> exited, left |-> changed, cur |-> None]
  /\ Goto(Poller, "tails")
  /\ UNCHANGED <<hubVars, clientVars>>

\* Without a console tail there is no warning.  With one, the entry is looked
\* at again, and the warning published after the lock is released.
PollTail(i) ==
  /\ pub[Poller].pc = "tails"
  /\ i \in poll.tails
  /\ \/ /\ poll' = [poll EXCEPT !.tails = @ \ {i}]
        /\ UNCHANGED <<entry, pub>>
     \/ /\ entry[i].exited /\ ~entry[i].deleting
        /\ Observe(i, TRUE)
        /\ poll' = [poll EXCEPT !.tails = @ \ {i}, !.cur = i]
        /\ Goto(Poller, "warn")
  /\ UNCHANGED <<hubVars, clientVars>>

PollWarn ==
  /\ pub[Poller].pc = "warn"
  /\ Publish(PlatformEvent(poll.cur))
  /\ Goto(Poller, "tails")
  /\ UNCHANGED <<entry, poll, clientVars>>

PollPublish(i) ==
  /\ pub[Poller].pc = "tails"
  /\ poll.tails = {}
  /\ i \in poll.left
  /\ poll' = [poll EXCEPT !.left = @ \ {i}, !.cur = i]
  /\ Goto(Poller, "snapshot")
  /\ UNCHANGED <<entry, hubVars, clientVars>>

-----------------------------------------------------------------------------
(* WatchSandboxes.                                                         *)

Subscribe(w) ==
  /\ stream[w].pc = "off"
  /\ subs' = subs \cup {w}
  /\ stream' = [stream EXCEPT ![w].pc = "open"]
  /\ UNCHANGED <<registryVars, chan, seen, lost>>

Replay(w) ==
  /\ stream[w].pc = "open"
  /\ stream' = [stream EXCEPT ![w] = [pc |-> "send", base |-> Registered,
                                      todo |-> {SandboxEvent(i) : i \in Registered}]]
  /\ UNCHANGED <<registryVars, hubVars, seen>>

SendReplay(w) ==
  /\ stream[w].pc = "send"
  /\ \E ev \in stream[w].todo :
       /\ stream' = [stream EXCEPT ![w].todo = @ \ {ev}]
       /\ seen' = [seen EXCEPT ![w] = @ \cup {ev}]
  /\ UNCHANGED <<registryVars, hubVars>>

Receive(w) ==
  /\ stream[w].pc = "send"
  /\ stream[w].todo = {}
  /\ chan[w] # <<>>
  /\ chan' = [chan EXCEPT ![w] = Tail(@)]
  /\ seen' = [seen EXCEPT ![w] = IF Head(chan[w]).kind = "platform" THEN @
                                 ELSE @ \cup {Head(chan[w])}]
  /\ UNCHANGED <<registryVars, subs, lost, stream>>

\* The client goes, or a send fails; what was in the channel is gone.
Unsubscribe(w) ==
  /\ stream[w].pc \in {"open", "send"}
  /\ subs' = subs \ {w}
  /\ chan' = [chan EXCEPT ![w] = <<>>]
  /\ stream' = [stream EXCEPT ![w] = [NoStream EXCEPT !.pc = "closed"]]
  /\ seen' = [seen EXCEPT ![w] = {}]
  /\ lost' = lost \ {w}
  /\ UNCHANGED registryVars

-----------------------------------------------------------------------------

Serve(w) == SendReplay(w) \/ Receive(w)

Sandbox(i) ==
  \/ Create(i) \/ ProvisionPull(i) \/ ProvisionEnd(i)
  \/ BeginOperate(i) \/ OperateEnd(i)
  \/ BeginDelete(i) \/ DeleteTeardown(i) \/ DeleteFarewell(i)
  \/ PollTail(i) \/ PollPublish(i)

Next ==
  \/ \E p \in Publishers : Publication(p)
  \/ \E i \in Ids : Sandbox(i)
  \/ PollApply \/ PollWarn
  \/ \E w \in Streams : Subscribe(w) \/ Replay(w) \/ Serve(w) \/ Unsubscribe(w)

Spec == Init /\ [][Next]_vars

(***************************************************************************)
(* Fairness.  What a publisher does between two looks at a sandbox takes a *)
(* mutex for a moment and waits for nobody, but for the console tails the  *)
(* poller fetches before it publishes: `container logs` has no timeout.    *)
(* That it answers, and that clients read, which makes their handlers go   *)
(* on, are premises where a property needs them.                           *)
(***************************************************************************)

Fairness ==
  /\ \A p \in Publishers : WF_vars(Publication(p))
  /\ \A i \in Ids : WF_vars(PollPublish(i)) /\ WF_vars(DeleteFarewell(i))
  /\ WF_vars(PollWarn)

LogsAnswer == \A i \in Ids : WF_vars(PollTail(i))

ClientsRead == \A w \in Streams : WF_vars(Replay(w)) /\ WF_vars(Serve(w))

FairSpec == Spec /\ Fairness

-----------------------------------------------------------------------------
(* Safety.                                                                 *)

\* What client w has, is being sent, or has in its channel.
Reaches(w) == seen[w] \cup stream[w].todo \cup {chan[w][n] : n \in DOMAIN chan[w]}

\* Somebody has sandbox i to publish as it is now.
Owed(i) ==
  \/ i \in poll.left
  \/ \E p \in Publishers :
       \/ pub[p].pc = "snapshot" /\ Subject(p) = i
       \/ pub[p].pc = "publish" /\ pub[p].snap = SandboxEvent(i)

Served(w) == stream[w].pc = "send" /\ w \notin lost

\* No transition is lost between the replay and the stream: whatever the
\* registry holds is in the replay, on its way, or owed by a publisher at work.
NothingLost ==
  \A w \in Streams, i \in Registered :
    Served(w) => SandboxEvent(i) \in Reaches(w) \/ Owed(i)

\* A client that was shown a sandbox at the start is told of its removal.
DeletionReachesReplayed ==
  \A w \in Streams, i \in Ids :
    Served(w) /\ i \in stream[w].base /\ entry[i].in = "removed" =>
      DeletedEvent(i) \in Reaches(w) \/ pub[<<"delete", i>>].pc = "farewell"

-----------------------------------------------------------------------------
(* What a client is promised.                                              *)

\* Platform events are no part of it.
Coming(w) == stream[w].todo \cup {ev \in {chan[w][n] : n \in DOMAIN chan[w]} : ev.kind # "platform"}

StateOf == [i \in Ids |-> [in |-> entry[i].in, rev |-> entry[i].rev]]
OwedNow == {i \in Ids : Owed(i)}
Parting == {i \in Ids : pub[<<"delete", i>>].pc = "farewell"}
PhaseOf == [w \in Streams |-> stream[w].pc]
BaseOf == [w \in Streams |-> stream[w].base]
DueOf == [w \in Streams |-> Coming(w)]

Contract == INSTANCE StreamContract WITH
  state <- StateOf, owed <- OwedNow, parting <- Parting,
  phase <- PhaseOf, base <- BaseOf, due <- DueOf

\* However the steps of the publishers and the hub interleave, every stream gets what
\* StreamContract promises, and is never told of what has not happened.
ImplementsStreamContract == Contract!Spec

-----------------------------------------------------------------------------
(* Liveness.                                                               *)

Publishing(p) == pub[p].pc \in {"snapshot", "publish", "event", "tails", "warn", "farewell"}

\* "Slow subscribers drop events rather than block lifecycle work": whoever
\* publishes is done with it some time, though no client ever reads.  The poller
\* waits for console tails before it publishes what it has found, and for nothing
\* else; nobody waits for the poller.
PublishersNeverWait ==
  /\ \A p \in Publishers \ {Poller} : Publishing(p) ~> ~Publishing(p)
  /\ LogsAnswer => (Publishing(Poller) ~> ~Publishing(Poller))

Behind(w, i) == Served(w) /\ i \in Registered /\ SandboxEvent(i) \notin seen[w]

\* A client that reads, and for which nothing is dropped, gets to see every
\* sandbox as it is, some time after its last change; where the poller has found
\* the change together with an exit, when `container logs` has answered.
StreamsCatchUp ==
  ClientsRead /\ LogsAnswer => \A w \in Streams, i \in Ids : Behind(w, i) ~> ~Behind(w, i)
=============================================================================
