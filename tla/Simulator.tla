----------------------------- MODULE Simulator -----------------------------
(***************************************************************************)
(* The simulation harness the sync protocol is tested on: one event queue  *)
(* on a virtual clock, a medium that loses, delays, reorders and           *)
(* duplicates per receiver (sim/network.go), links with a duty cycle       *)
(* (sim/link.go), and the in-memory record log each simulated board keeps, *)
(* with the corruptions that show its checks can fail (gossiptest).        *)
(*                                                                         *)
(* A seed decides every draw; here each draw is a choice.  The counters    *)
(* are left out.  A datagram is one record, and a board applies what its   *)
(* link hands it, as the scenarios do.                                     *)
(***************************************************************************)
EXTENDS Integers, Sequences, FiniteSets

CONSTANTS Station,        \* simulated boards
          Signable,       \* records that can be sent: [origin, seq, body, ok]
          Trusts,         \* [Station -> the origins whose key it was given]
          Latency,        \* delays the medium may draw
          Jitter,         \* what reordering adds to one
          InboxSize, MaxSlot, MaxScheduled, MaxInstant

ASSUME HarnessAssumption ==
    /\ Station \subseteq Nat /\ Latency \subseteq Nat /\ Jitter \subseteq Int
    /\ \A rec \in Signable : rec.origin \in Station /\ rec.seq \in 1..MaxSlot
    /\ MaxSlot \in Nat

VARIABLES
    instant,   \* the virtual clock
    events,    \* the queue: deliveries [at, n, from, to, rec]
    scheduled, \* the number of events ever scheduled
    alive,     \* [Station -> BOOLEAN]
    side,      \* [Station -> partition]
    inboxes,   \* [Station -> Seq of records]
    onAir,     \* [Station -> airtime spent]
    logs,      \* [Station -> [Station -> [1..MaxSlot -> stored record or Vacant]]]
    marks,     \* [Station -> [Station -> the contiguous high-water mark]]
    harm       \* the corruption done, if any, and where

simVars == <<instant, events, scheduled, alive, side, inboxes, onAir, logs, marks, harm>>

Vacant == [body |-> "none"]
Unharmed == [kind |-> "none"]

SimInit ==
    /\ instant = 0 /\ events = {} /\ scheduled = 0 /\ harm = Unharmed
    /\ alive = [s \in Station |-> TRUE] /\ side = [s \in Station |-> 0]
    /\ inboxes = [s \in Station |-> <<>>] /\ onAir = [s \in Station |-> 0]
    /\ logs = [s \in Station |-> [o \in Station |-> [q \in 1..MaxSlot |-> Vacant]]]
    /\ marks = [s \in Station |-> [o \in Station |-> 0]]

----------------------------------------------------------------------------
(* The network. *)

\* A draw of the latency and, now and then, of the reordering.
Delay(l, j) == IF l + j < 0 THEN 0 ELSE l + j

\* At, After: insertion order breaks ties.
Event(from, to, rec, at, n) == [at |-> at, n |-> n, from |-> from, to |-> to, rec |-> rec]

InReach(from, to) == alive[to] /\ side[to] = side[from]

\* A duty cycle: the cost of one datagram is one instant's worth.
Allowance == instant

\* Link.Send and Network.send, to one peer: lost, delivered once, or twice.
SimSend(from, to, rec) ==
    /\ onAir[from] + 1 <= Allowance
    /\ onAir' = [onAir EXCEPT ![from] = @ + 1]
    /\ \/ UNCHANGED <<events, scheduled>>
       \/ /\ alive[from] /\ InReach(from, to) /\ scheduled + 2 <= MaxScheduled
          /\ \E l, d \in Latency, j \in Jitter \cup {0}, twice \in BOOLEAN :
               /\ scheduled' = scheduled + (IF twice THEN 2 ELSE 1)
               /\ events' = events
                    \cup {Event(from, to, rec, instant + Delay(l, j), scheduled + 1)}
                    \cup (IF twice THEN {Event(from, to, rec, instant + Delay(l, j) + d,
                                               scheduled + 2)} ELSE {})
    /\ UNCHANGED <<instant, alive, side, inboxes, logs, marks, harm>>

\* A board says again what it holds, or a forger what it likes.
Sends(from, to) ==
    \E rec \in Signable :
        /\ from # to
        /\ (rec.ok /\ rec.origin # from) =>
             logs[from][rec.origin][rec.seq].body = rec.body
        /\ SimSend(from, to, rec)

Precedes(e, f) == e.at < f.at \/ (e.at = f.at /\ e.n < f.n)

\* deliver, and the link's handler: a full inbox drops.
Received(e) ==
    IF alive[e.to] /\ Len(inboxes[e.to]) < InboxSize
    THEN [inboxes EXCEPT ![e.to] = Append(@, e.rec)] ELSE inboxes

\* step: the next due event, whose time becomes the clock's unless it is past.
StepEvent ==
    \E e \in events :
        /\ \A f \in events \ {e} : Precedes(e, f)
        /\ e.at <= MaxInstant
        /\ events' = events \ {e}
        /\ instant' = IF e.at > instant THEN e.at ELSE instant
        /\ inboxes' = Received(e)
        /\ UNCHANGED <<scheduled, alive, side, onAir, logs, marks, harm>>

\* RunUntil: nothing is due before the deadline, which becomes the time.
RunEnds ==
    /\ instant < MaxInstant /\ \A e \in events : e.at > instant + 1
    /\ instant' = instant + 1
    /\ UNCHANGED <<events, scheduled, alive, side, inboxes, onAir, logs, marks, harm>>

SetUp(s) ==
    /\ alive' = [alive EXCEPT ![s] = ~@]
    /\ UNCHANGED <<instant, events, scheduled, side, inboxes, onAir, logs, marks, harm>>

Partition(s, g) ==
    /\ side' = [side EXCEPT ![s] = g]
    /\ UNCHANGED <<instant, events, scheduled, alive, inboxes, onAir, logs, marks, harm>>

Heal ==
    /\ side' = [s \in Station |-> 0]
    /\ UNCHANGED <<instant, events, scheduled, alive, inboxes, onAir, logs, marks, harm>>

----------------------------------------------------------------------------
(* The log. *)

\* A record is admitted when its origin's key verifies it.  A slot that is taken
\* keeps what it has, whatever comes for it.
Admitted(s, rec) ==
    /\ rec.seq > 0 /\ rec.origin \in Trusts[s] /\ rec.ok
    /\ logs[s][rec.origin][rec.seq] = Vacant

\* The longest run from 1 that is held.
ContiguousHighWater(log) ==
    CHOOSE q \in 0..MaxSlot : /\ \A i \in 1..q : log[i] # Vacant
                              /\ q = MaxSlot \/ log[q + 1] = Vacant

\* Mutant: the mark is the highest slot held.
AdvancedToHighest(mark, log) ==
    CHOOSE q \in 0..MaxSlot : /\ q = 0 \/ log[q] # Vacant
                              /\ \A i \in q + 1..MaxSlot : log[i] = Vacant

\* advance: from the mark on, never back.
Advanced(mark, log) ==
    CHOOSE q \in mark..MaxSlot : /\ \A i \in mark + 1..q : log[i] # Vacant
                                 /\ q = MaxSlot \/ log[q + 1] = Vacant

Applies(s, rec) ==
    IF ~Admitted(s, rec) THEN UNCHANGED <<logs, marks>>
    ELSE /\ logs' = [logs EXCEPT ![s][rec.origin][rec.seq] =
                [body |-> rec.body, origin |-> rec.origin, seq |-> rec.seq, whole |-> TRUE]]
         /\ marks' = [marks EXCEPT ![s] = [o \in Station |-> Advanced(@[o], logs'[s][o])]]

\* Pump: what the link holds goes to the board.
Pump(s) ==
    /\ inboxes[s] # <<>>
    /\ inboxes' = [inboxes EXCEPT ![s] = Tail(@)]
    /\ Applies(s, Head(inboxes[s]))
    /\ UNCHANGED <<instant, events, scheduled, alive, side, onAir, harm>>

\* Insert: a board's own record.
Insert(rec) ==
    /\ rec.ok /\ rec.origin \in Trusts[rec.origin]
    /\ Admitted(rec.origin, rec) /\ Applies(rec.origin, rec)
    /\ UNCHANGED <<instant, events, scheduled, alive, side, inboxes, onAir, harm>>

----------------------------------------------------------------------------
(* Deliberate corruption, once. *)

Slots(s) == {p \in Station \X (1..MaxSlot) : logs[s][p[1]][p[2]] # Vacant}
First(s) == CHOOSE p \in Slots(s) : \A r \in Slots(s) :
                p[1] < r[1] \/ (p[1] = r[1] /\ p[2] <= r[2])

Corrupt(s, kind, stored) ==
    /\ harm = Unharmed /\ Slots(s) # {}
    /\ logs' = [logs EXCEPT ![s][First(s)[1]][First(s)[2]] = stored]
    /\ harm' = [kind |-> kind, at |-> s, slot |-> First(s),
                under |-> First(s)[2] <= marks[s][First(s)[1]]]
    /\ UNCHANGED <<instant, events, scheduled, alive, side, inboxes, onAir, marks>>

CorruptDropOne(s) == Corrupt(s, "drop", Vacant)

\* With the record of another slot; one of the same slot still verifies, and is
\* seen only by comparing Entries with an earlier look.
CorruptReplaceOne(s, rec) ==
    /\ rec.ok /\ Slots(s) # {} /\ <<rec.origin, rec.seq>> # First(s)
    /\ Corrupt(s, "replace", [body |-> rec.body, origin |-> rec.origin,
                              seq |-> rec.seq, whole |-> TRUE])

\* The parsed body changes, the signed bytes do not.
CorruptTamperOne(s) ==
    /\ Slots(s) # {}
    /\ Corrupt(s, "tamper", [logs[s][First(s)[1]][First(s)[2]] EXCEPT !.whole = FALSE])

\* Every record still verifies, says what its signed bytes say, and is in its
\* own slot.
VerifyAll(s) ==
    \A p \in Slots(s) : LET rec == logs[s][p[1]][p[2]]
                        IN  p[1] \in Trusts[s] /\ rec.whole /\ <<rec.origin, rec.seq>> = p

SimNext ==
    \/ \E s, t \in Station : Sends(s, t)
    \/ StepEvent \/ RunEnds \/ Heal
    \/ \E s \in Station : SetUp(s) \/ Partition(s, 1) \/ Pump(s)
                          \/ CorruptDropOne(s) \/ CorruptTamperOne(s)
    \/ \E rec \in Signable : Insert(rec) \/ \E s \in Station : CorruptReplaceOne(s, rec)

----------------------------------------------------------------------------
(* Properties. *)

\* Nothing is due in the past, so the clock never waits for it and a run replays
\* in the order it was scheduled (network.go:314-321).
NothingOverdue == \A e \in events : e.at >= instant

\* A link spends no more than its duty cycle has earned (link.go:33-44).
WithinDuty == \A s \in Station : onAir[s] <= Allowance

\* A log no corruption touched is whole, and its marks are what the
\* records held amount to.
LogsAreHonest ==
    \A s \in Station : harm.kind = "none" \/ harm.at # s =>
        /\ VerifyAll(s)
        /\ \A o \in Station : marks[s][o] = ContiguousHighWater(logs[s][o])

\* A corruption is seen by re-verifying the log or by recomputing its marks,
\* unless what was dropped lay beyond a gap: until the slot is filled again.
CorruptionIsSeen ==
    harm.kind \in {"replace", "tamper"} => ~VerifyAll(harm.at)

DropIsSeen ==
    harm.kind = "drop" /\ harm.under
        /\ logs[harm.at][harm.slot[1]][harm.slot[2]] = Vacant =>
      ContiguousHighWater(logs[harm.at][harm.slot[1]]) < marks[harm.at][harm.slot[1]]

\* The harness: a run is in order and within its duty cycle, honest logs check
\* out and harmed ones do not (gossiptest/store.go:364-378).
HarnessIsHonest ==
    NothingOverdue /\ WithinDuty /\ LogsAreHonest /\ CorruptionIsSeen /\ DropIsSeen
=============================================================================
