----------------------------- MODULE DoorEvents -----------------------------
(***************************************************************************)
(* League events of one door: sessions queue them (door/api.go,            *)
(* bbs/doorhost.go, store/doorevents.go), the federation loop batches them *)
(* into records (cli/mesh_serve.go, doorevent/doorevent.go,                *)
(* bbs/doorevents.go), and a door reads the league back by cursor.         *)
(*                                                                         *)
(* Every database call is a step of its own.  Events carry their age       *)
(* instead of a time stamp, so that behaviours may be infinite.  The door  *)
(* API's hourly rate limit only makes Emit rarer and is left out.          *)
(***************************************************************************)
EXTENDS Integers, FiniteSets, Sequences

CONSTANTS Session,     \* sessions playing the door
          Group,       \* (area, game) pairs
          MaxQueued,   \* MaxQueuedDoorEvents
          BatchMax,    \* MaxDoorEventsPerRecord
          Window,      \* how long a partial batch waits
          MaxAge,      \* how long an event waits before it is dropped
          PageLimit,   \* records one poll returns
          MaxEvents,   \* bound: events accepted
          MaxPeer,     \* bound: records that arrive from peers
          MaxFaults    \* bound: failed calls and restarts

ASSUME DoorEventsAssumption ==
    /\ Group # {} /\ Session # {} /\ IsFiniteSet(Session)
    /\ {MaxQueued, BatchMax, Window, MaxAge, PageLimit} \subseteq Nat \ {0}
    /\ {MaxEvents, MaxPeer, MaxFaults} \subseteq Nat

VARIABLES
    queue,       \* the table's rows: [id, group, age]
    nextId,      \* AUTOINCREMENT
    counted,     \* counted[s]: what session s counted before it inserts
    federated,   \* federated[g]: the area is still a federated league
    step,        \* where the loop is
    groupsLeft,  \* groups the loop still has to look at
    decision,    \* what it decided for the current group
    log,         \* the league's records in arrival order
    polled,      \* what the door remembers of its last poll
    seen,        \* positions of the log the door was given
    aged,        \* ids dropped for their age (history)
    faults       \* failed calls and restarts so far

queueVars == <<queue, nextId, counted, federated, step, groupsLeft, decision, log,
               polled, seen, aged, faults>>

loop == <<step, groupsLeft, decision>>
reader == <<polled, seen>>

Idle == [group |-> "none", expire |-> {}, flush |-> <<>>]
NotCounted == [group |-> "none", count |-> 0]

Ids(rows) == {q.id : q \in rows}
Carried(events) == {events[k].id : k \in DOMAIN events}

QueueInit ==
    /\ queue = {} /\ nextId = 1
    /\ counted = [s \in Session |-> NotCounted]
    /\ federated = [g \in Group |-> TRUE]
    /\ step = "wait" /\ groupsLeft = {} /\ decision = Idle
    /\ log = <<>>
    /\ polled = 0 /\ seen = {}
    /\ aged = {} /\ faults = 0

Fault == faults < MaxFaults /\ faults' = faults + 1

----------------------------------------------------------------------------
(* Sessions. *)

\* event.emit: the league is looked up, then the door's rows are counted.
Emit(s, g) ==
    /\ counted[s] = NotCounted
    /\ federated[g]
    /\ nextId =< MaxEvents
    /\ counted' = [counted EXCEPT ![s] = [group |-> g, count |-> Cardinality(queue)]]
    /\ UNCHANGED <<queue, nextId, federated, loop, log, reader, aged, faults>>

Full(count) == count >= MaxQueued

\* The row is inserted, or the door is told the queue is full.
Insert(s) ==
    /\ counted[s] # NotCounted
    /\ counted' = [counted EXCEPT ![s] = NotCounted]
    /\ \/ /\ ~Full(counted[s].count) /\ nextId =< MaxEvents
          /\ queue' = queue \cup {[id |-> nextId, group |-> counted[s].group, age |-> 0]}
          /\ nextId' = nextId + 1
       \/ Full(counted[s].count) /\ UNCHANGED <<queue, nextId>>
    /\ UNCHANGED <<federated, loop, log, reader, aged, faults>>

\* A sysop takes a league off the mesh, or puts it back.
SetFederated(g) ==
    /\ federated' = [federated EXCEPT ![g] = ~@]
    /\ UNCHANGED <<queue, nextId, counted, loop, log, reader, aged, faults>>

----------------------------------------------------------------------------
(* Policy.Consider: expiry first, then a full batch, then the window. *)

GroupRows(g) == {q \in queue : q.group = g}

Older(rows, q) == {r \in rows : r.id < q.id}

\* The rows in the order they were queued in.
OldestFirst(rows) ==
    [k \in 1 .. Cardinality(rows) |-> CHOOSE q \in rows : Cardinality(Older(rows, q)) = k - 1]

\* What is not too old to send.
Fresh(rows) == OldestFirst({q \in rows : q.age < MaxAge})

\* The batch that goes now, from the oldest event on.
Flush(fresh) ==
    IF Len(fresh) >= BatchMax THEN SubSeq(fresh, 1, BatchMax)
    ELSE IF fresh # <<>> /\ Head(fresh).age >= Window THEN fresh
    ELSE <<>>

\* Mutant: a group with nothing fresh is left alone.
ConsiderFreshOnly(g) ==
    [group |-> g, flush |-> Flush(Fresh(GroupRows(g))),
     expire |-> IF Fresh(GroupRows(g)) = <<>> THEN {} ELSE {q \in GroupRows(g) : q.age >= MaxAge}]

Consider(g) ==
    [group |-> g, flush |-> Flush(Fresh(GroupRows(g))),
     expire |-> {q \in GroupRows(g) : q.age >= MaxAge}]

----------------------------------------------------------------------------
(* flushDoorEvents. *)

\* DoorEventGroups.
ListGroups ==
    /\ step = "wait" /\ queue # {}
    /\ step' = "next"
    /\ groupsLeft' = {q.group : q \in queue}
    /\ UNCHANGED <<queue, nextId, counted, federated, decision, log, reader, aged, faults>>

\* The next group's rows are read and the policy asked.
Decide ==
    /\ step = "next"
    /\ \/ /\ groupsLeft = {}
          /\ step' = "wait" /\ decision' = Idle
          /\ UNCHANGED groupsLeft
       \/ \E g \in groupsLeft :
             /\ groupsLeft' = groupsLeft \ {g}
             /\ decision' = Consider(g)
             /\ step' = IF Consider(g).expire # {} THEN "expire"
                        ELSE IF Consider(g).flush # <<>> THEN "publish"
                        ELSE "next"
    /\ UNCHANGED <<queue, nextId, counted, federated, log, reader, aged, faults>>

\* Expired rows are deleted; a failure is logged and the batch goes on.
DropExpired ==
    /\ step = "expire"
    /\ step' = IF decision.flush # <<>> THEN "publish" ELSE "next"
    /\ \/ /\ queue' = {q \in queue : q.id \notin Ids(decision.expire)}
          /\ aged' = aged \cup Ids(decision.expire)
          /\ UNCHANGED faults
       \/ Fault /\ UNCHANGED <<queue, aged>>
    /\ UNCHANGED <<nextId, counted, federated, groupsLeft, decision, log, reader>>

\* PublishDoorEvents: one record of exactly these events; an error leaves
\* them in the queue.
Publish ==
    /\ step = "publish"
    /\ \/ /\ federated[decision.group]
          /\ log' = Append(log, [group |-> decision.group, events |-> decision.flush])
          /\ step' = "delete"
          /\ UNCHANGED faults
       \/ /\ \/ ~federated[decision.group] /\ UNCHANGED faults
             \/ Fault
          /\ step' = "next"
          /\ UNCHANGED log
    /\ UNCHANGED <<queue, nextId, counted, federated, groupsLeft, decision, reader, aged>>

\* Mutant: everything of the group that was not there is taken as sent.
UnqueuedGroup(rows, flushed) == {q \in rows : q.group # decision.group}

Unqueued(rows, flushed) == {q \in rows : \A i \in DOMAIN flushed : q.id # flushed[i].id}

\* DeleteQueuedDoorEvents, by id; a failure leaves the published rows.
Dequeue ==
    /\ step = "delete"
    /\ step' = "next"
    /\ \/ queue' = Unqueued(queue, decision.flush) /\ UNCHANGED faults
       \/ Fault /\ UNCHANGED queue
    /\ UNCHANGED <<nextId, counted, federated, groupsLeft, decision, log, reader, aged>>

\* The process restarts: tables stay, sessions and the loop start over.
Restart ==
    /\ Fault
    /\ counted' = [s \in Session |-> NotCounted]
    /\ step' = "wait" /\ groupsLeft' = {} /\ decision' = Idle
    /\ UNCHANGED <<queue, nextId, federated, log, reader, aged>>

----------------------------------------------------------------------------
(* The door reads the league back. *)

\* The last record a poll returned.
CursorAfter(from) == IF from + PageLimit < Len(log) THEN from + PageLimit ELSE Len(log)

\* DoorEventsSince: the records after the cursor, in arrival order, a page of them.
Poll ==
    /\ polled < Len(log)
    /\ seen' = seen \cup {i \in DOMAIN log : i > polled /\ i =< polled + PageLimit}
    /\ polled' = CursorAfter(polled)
    /\ UNCHANGED <<queue, nextId, counted, federated, loop, log, aged, faults>>

\* A peer's record of the league arrives.
PeerRecord(g) ==
    /\ Cardinality({i \in DOMAIN log : log[i].events = <<>>}) < MaxPeer
    /\ log' = Append(log, [group |-> g, events |-> <<>>])
    /\ UNCHANGED <<queue, nextId, counted, federated, loop, reader, aged, faults>>

Advance ==
    /\ \E q \in queue : q.age < MaxAge
    /\ queue' = {[q EXCEPT !.age = IF @ < MaxAge THEN @ + 1 ELSE @] : q \in queue}
    /\ UNCHANGED <<nextId, counted, federated, loop, log, reader, aged, faults>>

FlushStep == ListGroups \/ Decide \/ DropExpired \/ Publish \/ Dequeue

QueueNext ==
    \/ \E s \in Session, g \in Group : Emit(s, g)
    \/ \E s \in Session : Insert(s)
    \/ \E g \in Group : SetFederated(g) \/ PeerRecord(g)
    \/ FlushStep
    \/ Restart
    \/ Poll
    \/ Advance

QueueSpec == QueueInit /\ [][QueueNext]_queueVars

----------------------------------------------------------------------------
(* Properties. *)

Published == UNION {Carried(log[i].events) : i \in DOMAIN log}
Accepted == 1 .. nextId - 1

\* "would eventually delete something that was never sent" is what deleting by
\* id avoids (store/doorevents.go): whatever is queued while a batch is on its
\* way, every accepted event is queued, on the air, or was dropped for its age.
NothingLost == Accepted \subseteq Ids(queue) \cup Published \cup aged

\* Events of a game first reach the wire in the order they happened, whatever
\* failed or repeated in between.
WireOrder ==
    /\ \A i \in DOMAIN log : \A k \in 2 .. Len(log[i].events) :
          log[i].events[k - 1].id < log[i].events[k].id
    /\ \A i, j \in DOMAIN log : i < j /\ log[i].group = log[j].group =>
       \A e \in Carried(log[i].events), f \in Carried(log[j].events) :
          f < e => \E k \in 1 .. i : f \in Carried(log[k].events)

\* A record pays for its signature: it is full, or its oldest event waited out
\* the window, and it carries nothing too old to send.
RecordsPay ==
    \A i \in DOMAIN log : LET es == log[i].events IN
       es # <<>> => /\ Len(es) = BatchMax \/ es[1].age >= Window
                    /\ \A k \in DOMAIN es : es[k].age < MaxAge

\* An event is put on the air again only after a failed call or a restart.
Repeats ==
    {i \in DOMAIN log : \E k \in 1 .. i - 1 :
        Carried(log[i].events) \cap Carried(log[k].events) # {}}
OnlyFaultsRepeat == Cardinality(Repeats) =< faults

\* A door that polls from its cursor was given every record up to it.
NothingSkipped == 1 .. polled \subseteq seen

\* The count that enforces MaxQueuedDoorEvents and the insert it guards are two
\* statements, so sessions that race past it exceed it, but by no more than
\* one row each: the queue stays bounded whatever the loop deletes meanwhile.
QueueIsBounded == Cardinality(queue) =< MaxQueued + Cardinality(Session) - 1

\* Every queued event is eventually sent or dropped for its age, also in a
\* league that was taken off the mesh.
Drains == \A id \in 1 .. MaxEvents : id \in Ids(queue) ~> id \notin Ids(queue)

\* What the queue between a game and the mesh promises, together: nothing that
\* was accepted is lost, reordered, sent too early or repeated without a fault,
\* no reader misses a record, and the queue does not grow without end.
EventsSurvive ==
    /\ NothingLost /\ WireOrder /\ RecordsPay /\ OnlyFaultsRepeat /\ NothingSkipped
    /\ QueueIsBounded

=============================================================================
