--------------------------- MODULE StreamContract ---------------------------
(***************************************************************************)
(* What WatchSandboxes promises its client, however many publish, and      *)
(* however slowly the client reads.  What has become of a sandbox reaches  *)
(* the client, is on its way, or is still to be published; so is the       *)
(* removal of a sandbox that the client was shown at the start.  A stream  *)
(* whose buffer was full is promised nothing of the kind.  No stream, not  *)
(* that one either, is ever told of what has not happened.                 *)
(*                                                                         *)
(* Nothing is promised about the order: what a sandbox was may be shown    *)
(* after what it has become, and even after its removal.                   *)
(***************************************************************************)
EXTENDS Naturals

CONSTANTS
  Ids,     \* the sandboxes
  Streams  \* the calls of WatchSandboxes

VARIABLES
  state,    \* state[i]: whether sandbox i is in the registry, and its revision
  owed,     \* the sandboxes whose revision is still to be published
  parting,  \* those whose removal is
  phase,    \* phase[w]: "off", "open", "send" or "closed"
  base,     \* base[w]: the sandboxes stream w was shown at the start
  due,      \* due[w]: the events on their way to the client
  seen,     \* seen[w]: those it has
  lost      \* the streams that have missed an event

sandboxes == <<state, owed, parting>>
calls == <<phase, base>>
events == <<due, seen, lost>>
vars == <<state, owed, parting, phase, base, due, seen, lost>>

Shown(i, rev) == [kind |-> "sandbox", id |-> i, rev |-> rev]
Gone(i) == [kind |-> "deleted", id |-> i, rev |-> 0]

Events == [kind : {"sandbox", "deleted"}, id : Ids, rev : Nat]

TypeOK ==
  /\ state \in [Ids -> [in : {"never", "registry", "removed"}, rev : Nat]]
  /\ owed \subseteq Ids /\ parting \subseteq Ids
  /\ phase \in [Streams -> {"off", "open", "send", "closed"}]
  /\ base \in [Streams -> SUBSET Ids]
  /\ due \in [Streams -> SUBSET Events]
  /\ seen \in [Streams -> SUBSET Events]
  /\ lost \subseteq Streams

Init ==
  /\ state \in [Ids -> [in : {"never", "registry"}, rev : {0}]]
  /\ owed = {} /\ parting = {}
  /\ phase = [w \in Streams |-> "off"]
  /\ base = [w \in Streams |-> {}]
  /\ due = [w \in Streams |-> {}]
  /\ seen = [w \in Streams |-> {}]
  /\ lost = {}

Known == {i \in Ids : state[i].in # "never"}
Registered == {i \in Ids : state[i].in = "registry"}
Open == {w \in Streams : phase[w] \in {"open", "send"}}

-----------------------------------------------------------------------------
(* The sandboxes.                                                          *)

Register(i) ==
  /\ state[i].in = "never"
  /\ state' = [state EXCEPT ![i] = [in |-> "registry", rev |-> 1]]
  /\ owed' = owed \cup {i}
  /\ UNCHANGED <<parting, calls, events>>

\* A poll may change several at once, a call that was under way a removed one.
Change(S) ==
  /\ S # {} /\ S \subseteq Known
  /\ state' = [i \in Ids |-> IF i \in S THEN [state[i] EXCEPT !.rev = @ + 1] ELSE state[i]]
  /\ owed' = owed \cup S
  /\ UNCHANGED <<parting, calls, events>>

Remove(i) ==
  /\ state[i].in = "registry"
  /\ state' = [state EXCEPT ![i].in = "removed"]
  /\ parting' = parting \cup {i}
  /\ UNCHANGED <<owed, calls, events>>

\* Each open stream is sent the event or misses it.
Publish(ev) ==
  \E dropped \in SUBSET Open :
    /\ due' = [w \in Streams |-> IF w \in Open \ dropped THEN due[w] \cup {ev} ELSE due[w]]
    /\ lost' = lost \cup dropped
    /\ UNCHANGED <<state, calls, seen>>

\* What is published may be overtaken already; if it is not, others may owe it too.
Show(i) ==
  \E rev \in 0 .. state[i].rev :
    /\ i \in Known
    /\ Publish(Shown(i, rev))
    /\ owed' = owed \/ (rev = state[i].rev /\ owed' = owed \ {i})
    /\ UNCHANGED parting

TellRemoval(i) ==
  /\ i \in parting
  /\ Publish(Gone(i))
  /\ parting' = parting \ {i}
  /\ UNCHANGED owed

-----------------------------------------------------------------------------
(* The streams.                                                            *)

Subscribe(w) ==
  /\ phase[w] = "off"
  /\ phase' = [phase EXCEPT ![w] = "open"]
  /\ UNCHANGED <<sandboxes, base, events>>

Replay(w) ==
  /\ phase[w] = "open"
  /\ phase' = [phase EXCEPT ![w] = "send"]
  /\ base' = [base EXCEPT ![w] = Registered]
  /\ due' = [due EXCEPT ![w] = @ \cup {Shown(i, state[i].rev) : i \in Registered}]
  /\ UNCHANGED <<sandboxes, seen, lost>>

\* What has been sent may be on its way once more.
Deliver(w) ==
  /\ phase[w] = "send"
  /\ \E ev \in due[w] :
       /\ seen' = [seen EXCEPT ![w] = @ \cup {ev}]
       /\ due' = due \/ due' = [due EXCEPT ![w] = @ \ {ev}]
  /\ UNCHANGED <<sandboxes, calls, lost>>

End(w) ==
  /\ phase[w] \in {"open", "send"}
  /\ phase' = [phase EXCEPT ![w] = "closed"]
  /\ base' = [base EXCEPT ![w] = {}]
  /\ due' = [due EXCEPT ![w] = {}]
  /\ seen' = [seen EXCEPT ![w] = {}]
  /\ lost' = lost \ {w}
  /\ UNCHANGED sandboxes

Next ==
  \/ \E i \in Ids : Register(i) \/ Remove(i) \/ Show(i) \/ TellRemoval(i)
  \/ \E S \in SUBSET Ids : Change(S)
  \/ \E w \in Streams : Subscribe(w) \/ Replay(w) \/ Deliver(w) \/ End(w)

Spec == Init /\ [][Next]_vars

-----------------------------------------------------------------------------
(* What the contract comes to.                                             *)

\* The newest state of every sandbox, and the removal of those shown at the start, reach a
\* stream that nothing was dropped for.
Complete ==
  \A w \in Streams, i \in Ids :
    phase[w] = "send" /\ w \notin lost =>
      /\ state[i].in = "registry" => Shown(i, state[i].rev) \in seen[w] \cup due[w] \/ i \in owed
      /\ i \in base[w] /\ state[i].in = "removed" => Gone(i) \in seen[w] \cup due[w] \/ i \in parting

\* No event tells of a sandbox that was never created, of a revision it has not had, or of a
\* removal that has not happened.
Genuine ==
  \A w \in Streams : \A ev \in seen[w] \cup due[w] :
    \E i \in Known : \/ \E rev \in 0 .. state[i].rev : ev = Shown(i, rev)
                     \/ ev = Gone(i) /\ state[i].in = "removed"

Promise == TypeOK /\ Complete /\ Genuine
=============================================================================
