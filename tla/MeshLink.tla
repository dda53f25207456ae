------------------------------ MODULE MeshLink ------------------------------
(***************************************************************************)
(* One node's session with its radio (internal/meshlink/link.go): the      *)
(* supervisor that connects, reads and reconnects, a keepalive per         *)
(* connection that watches for a radio gone quiet, and Close; and, at the  *)
(* end, the table of peers the link keeps (peers.go).                      *)
(*                                                                         *)
(* A connection is a number; a number is used again once no goroutine      *)
(* refers to it.  connect is split where other goroutines can come in      *)
(* between: the handshake, the locked install, the flags that follow it.   *)
(***************************************************************************)
EXTENDS Integers, FiniteSets

CONSTANTS Conn,       \* numbers of connections
          Base,       \* ReconnectBackoff
          MaxBackoff, \* MaxReconnectBackoff
          RxTimeout    \* ticks

ASSUME LinkAssumption ==
    /\ Conn \subseteq Nat \ {0}
    /\ Base \in Nat \ {0} /\ MaxBackoff \in Nat /\ MaxBackoff >= Base
    /\ RxTimeout \in Nat \ {0}

None == 0

VARIABLES
    conn,      \* Link.conn
    up,        \* connections that neither end has closed
    deaf,      \* connections on which the radio has stopped talking
    held,      \* the connection connect has opened and not installed
    reading,   \* the connection the read loop is on
    keep,      \* connections with a running keepalive
    pc,        \* where the supervisor, or Start before it, is
    starting,  \* Start has not returned
    connected, sessionRx, delivered,
    quiet,     \* ticks since lastRx, up to one past the timeout
    backoff,
    earned,    \* the wait that the dead sessions in a row have earned (history)
    closed, cancelled,
    closing,   \* the connection Close took
    closer      \* where Close is

flags == <<connected, sessionRx, delivered, quiet>>
closeVars == <<closed, cancelled, closing, closer>>
linkVars == <<conn, up, deaf, held, reading, keep, pc, starting, flags, backoff,
              earned, closeVars>>

Longer(wait) == IF 2 * wait > MaxBackoff THEN MaxBackoff ELSE 2 * wait
Doubled == Longer(backoff)

LinkInit ==
    /\ conn = None /\ up = {} /\ deaf = {} /\ held = None /\ reading = None
    /\ keep = {} /\ pc = "backoff" /\ starting = TRUE
    /\ connected = FALSE /\ sessionRx = FALSE /\ delivered = FALSE /\ quiet = 0
    /\ backoff = Base /\ earned = Base
    /\ closed = FALSE /\ cancelled = FALSE /\ closing = None /\ closer = "open"

----------------------------------------------------------------------------
(* connect. *)

\* What a failed attempt leaves: Start tries again within its window or gives
\* up, the supervisor waits longer.
TriesAgain ==
    /\ backoff' = IF starting THEN backoff ELSE Doubled
    /\ \/ pc' = "backoff" /\ UNCHANGED starting
       \/ starting /\ pc' = "done" /\ starting' = FALSE

ConnectFails ==
    /\ pc = "backoff"
    /\ TriesAgain
    /\ UNCHANGED <<conn, up, deaf, held, reading, keep, flags, earned, closeVars>>

\* The radio takes the connection; it does not under a context that has ended.
Dial(c) ==
    /\ pc = "backoff" /\ ~cancelled
    /\ c \notin up \cup keep
    /\ held' = c
    /\ up' = up \cup {c}
    /\ deaf' = deaf \ {c}
    /\ pc' = "dialled"
    /\ UNCHANGED <<conn, reading, keep, starting, flags, backoff, earned, closeVars>>

\* The radio answers want_config to the end, and has the channel.
Configured ==
    /\ pc = "dialled" /\ held \in up \ deaf
    /\ pc' = "configured"
    /\ UNCHANGED <<conn, up, deaf, held, reading, keep, starting, flags, backoff, earned,
                   closeVars>>

\* The handshake times out, is cut off or is cancelled, the channel or the
\* licence does not suit: what was opened is closed.
HandshakeFails ==
    /\ pc = "dialled"
    /\ up' = up \ {held}
    /\ held' = None
    /\ TriesAgain
    /\ UNCHANGED <<conn, deaf, reading, keep, flags, earned, closeVars>>

\* Mutant: a link closed during the handshake gets the connection all the same.
InstallAlways ==
    /\ pc = "configured"
    /\ conn' = held
    /\ held' = None
    /\ pc' = "attach"
    /\ UNCHANGED <<up, deaf, reading, keep, starting, flags, backoff, earned, closeVars>>

\* Under the lock: a link closed during the handshake drops the connection.
Install ==
    /\ pc = "configured"
    /\ held' = None
    /\ IF closed
       THEN /\ up' = up \ {held}
            /\ backoff' = Doubled
            /\ pc' = "backoff"
            /\ UNCHANGED conn
       ELSE /\ conn' = held
            /\ pc' = "attach"
            /\ UNCHANGED <<up, backoff>>
    /\ UNCHANGED <<deaf, reading, keep, starting, flags, earned, closeVars>>

\* The flags of a new session; then the announcement.
Attach ==
    /\ pc = "attach"
    /\ connected' = TRUE
    /\ sessionRx' = FALSE
    /\ quiet' = 0
    /\ pc' = "attached"
    /\ UNCHANGED <<conn, up, deaf, held, reading, keep, starting, delivered, backoff, earned,
                    closeVars>>

\* Only a session that carried something earns a reset.
BackoffAfter == IF delivered THEN Base ELSE Doubled

\* connect returns after delivering what came with the handshake.
Connected ==
    /\ pc = "attached"
    /\ backoff' = IF starting THEN Base ELSE BackoffAfter
    /\ starting' = FALSE
    /\ pc' = "spawn"
    /\ UNCHANGED <<conn, up, deaf, held, reading, keep, flags, earned, closeVars>>

----------------------------------------------------------------------------
(* supervise and readLoop. *)

SpawnKeepalive ==
    /\ pc = "spawn"
    /\ keep' = keep \cup {conn}
    /\ pc' = "enter"
    /\ UNCHANGED <<conn, up, deaf, held, reading, starting, flags, backoff, earned, 
                   closeVars>>

EnterReadLoop ==
    /\ pc = "enter"
    /\ reading' = conn
    /\ pc' = IF conn = None THEN "lost" ELSE "read"
    /\ UNCHANGED <<conn, up, deaf, held, keep, starting, flags, backoff, earned, closeVars>>

\* Anything from the radio re-arms the watchdog, a packet or not.
Recv ==
    /\ pc = "read" /\ reading \in up \ deaf
    /\ quiet' = 0
    /\ sessionRx' = TRUE
    /\ pc' = IF cancelled THEN "lost" ELSE "read"
    /\ UNCHANGED <<conn, up, deaf, held, reading, keep, starting, connected, delivered,
                   backoff, earned, closeVars>>

RecvFails ==
    /\ pc = "read" /\ reading \notin up
    /\ pc' = "lost"
    /\ UNCHANGED <<conn, up, deaf, held, reading, keep, starting, flags, backoff, earned,
                    closeVars>>

Lost ==
    /\ pc = "lost"
    /\ connected' = FALSE
    /\ reading' = None
    /\ pc' = IF cancelled THEN "done" ELSE "release"
    /\ UNCHANGED <<conn, up, deaf, held, keep, starting, sessionRx, delivered, quiet,
                   backoff, earned, closeVars>>

Release ==
    /\ pc = "release"
    /\ delivered' = sessionRx
    /\ earned' = IF sessionRx THEN Base ELSE Longer(earned)
    /\ up' = up \ {conn}
    /\ conn' = None
    /\ pc' = IF closed THEN "done" ELSE "backoff"
    /\ UNCHANGED <<deaf, held, reading, keep, starting, connected, sessionRx, quiet,
                   backoff, closeVars>>

\* The context ends while the supervisor, or Start, waits to try again.
StopWaiting ==
    /\ pc = "backoff" /\ cancelled
    /\ pc' = "done"
    /\ starting' = FALSE
    /\ UNCHANGED <<conn, up, deaf, held, reading, keep, flags, backoff, earned, closeVars>>

----------------------------------------------------------------------------
(* keepalive. *)

Stalled == quiet > RxTimeout

\* It ends with the context, with its connection, or when a heartbeat fails.
KeepaliveEnds(c) ==
    /\ c \in keep
    /\ cancelled \/ c = None \/ conn # c \/ c \notin up
    /\ keep' = keep \ {c}
    /\ UNCHANGED <<conn, up, deaf, held, reading, pc, starting, flags, backoff, earned, 
                   closeVars>>

\* Mutant: the watchdog only writes a heartbeat.
HeartbeatOnly(c) == FALSE /\ UNCHANGED linkVars

\* A heartbeat is only a write; silence is what closes the connection.
Watchdog(c) ==
    /\ c \in keep /\ conn = c /\ ~cancelled
    /\ Stalled
    /\ up' = up \ {c}
    /\ keep' = keep \ {c}
    /\ UNCHANGED <<conn, deaf, held, reading, pc, starting, flags, backoff, earned, 
                   closeVars>>

----------------------------------------------------------------------------
(* Close, the caller's context, the engine and the radio. *)

CloseMarks ==
    /\ closer = "open" /\ ~starting
    /\ closed' = TRUE
    /\ closing' = conn
    /\ conn' = None
    /\ closer' = "cancel"
    /\ UNCHANGED <<up, deaf, held, reading, keep, pc, starting, flags, backoff, earned, 
                   cancelled>>

CloseCancels ==
    /\ closer = "cancel"
    /\ cancelled' = TRUE
    /\ up' = up \ {closing}
    /\ closer' = "wait"
    /\ UNCHANGED <<conn, deaf, held, reading, keep, pc, starting, flags, backoff, earned, 
                   closed, closing>>

\* The goroutines are gone; the inbox can be closed.
CloseReturns ==
    /\ closer = "wait"
    /\ pc = "done" /\ keep = {}
    /\ connected' = FALSE
    /\ closer' = "closed"
    /\ UNCHANGED <<conn, up, deaf, held, reading, keep, pc, starting, sessionRx, delivered,
                   quiet, backoff, earned, closed, cancelled, closing>>

Signal ==
    /\ ~cancelled
    /\ cancelled' = TRUE
    /\ UNCHANGED <<conn, up, deaf, held, reading, keep, pc, starting, flags, backoff, earned,
                    closed, closing, closer>>

RadioDrops(c) ==
    /\ c \in up
    /\ up' = up \ {c}
    /\ UNCHANGED <<conn, deaf, held, reading, keep, pc, starting, flags, backoff, earned, 
                   closeVars>>

RadioGoesDeaf(c) ==
    /\ c \in up \ deaf
    /\ deaf' = deaf \cup {c}
    /\ UNCHANGED <<conn, up, held, reading, keep, pc, starting, flags, backoff, earned, 
                   closeVars>>

LinkTick ==
    /\ quiet =< RxTimeout
    /\ quiet' = quiet + 1
    /\ UNCHANGED <<conn, up, deaf, held, reading, keep, pc, starting, connected, sessionRx,
                   delivered, backoff, earned, closeVars>>

----------------------------------------------------------------------------
Supervise ==
    \/ Install \/ Attach \/ Connected \/ SpawnKeepalive \/ EnterReadLoop
    \/ RecvFails \/ Lost \/ Release

CloseSteps == CloseCancels \/ CloseReturns

LinkNext ==
    \/ Supervise \/ Recv \/ ConnectFails \/ Configured \/ HandshakeFails \/ StopWaiting
    \/ \E c \in Conn : Dial(c) \/ Watchdog(c) \/ RadioDrops(c) \/ RadioGoesDeaf(c)
    \/ \E c \in Conn \cup {None} : KeepaliveEnds(c)
    \/ CloseMarks \/ CloseSteps
    \/ Signal \/ LinkTick

----------------------------------------------------------------------------
(* Properties. *)

\* The radio has few client slots and frees them slowly: the link never has
\* two connections open, and a closed link leaves none behind, wherever Close
\* or a watchdog comes in between.
SlotsAreFreed ==
    /\ Cardinality(up) =< 1
    /\ closer = "closed" => up = {} /\ ~connected

\* Sessions that attach and then carry nothing are met with longer and longer
\* silence, whatever connects and fails in between (supervise).
Escalates == pc = "read" => backoff >= earned

\* A radio that takes our writes and sends nothing is noticed: the session on
\* it ends (rxStalled, keepalive).
DeafIsNoticed ==
    \A c \in Conn : c \in deaf /\ pc = "read" /\ reading = c ~> reading # c \/ cancelled

----------------------------------------------------------------------------
(* Discovery: which node is behind which radio (peers.go, the announcement *)
(* and who-is handlers of link.go, and wire.go), as one node learns it.    *)
(* Peers change radios, take over radios others have left, and have wrong  *)
(* clocks; announcements are lost, late, repeated and out of order.        *)
(*                                                                         *)
(* An announcement carries its age instead of its date: of two, the later  *)
(* dated is the younger.  A date ahead of our clock is a negative age, and *)
(* one years ahead (Absurd) stays so.  An announcement is on the air for   *)
(* MaxDelay at most, an absurd one for no tick, so one more age is enough  *)
(* for what is in the table.                                               *)
(* A signature that verifies is modelled by the announcement being its     *)
(* sender's; the radio it names is the one it came from.                   *)

CONSTANTS Peer, Radio, MaxDelay, Skew, MaxAir, NoPeer, NoRadio,
          BadClock     \* peers whose clock is sometimes wrong

ASSUME DiscoveryAssumption ==
    /\ NoPeer \notin Peer /\ NoRadio \notin Radio
    /\ MaxDelay \in Nat /\ Skew \in Nat

Absurd == -(Skew + 1)
Age == Absurd .. MaxDelay + 1
Unbound == [radio |-> NoRadio, age |-> MaxDelay + 1]

VARIABLES
    byID,       \* [Peer -> [radio, age]]
    byRadio,    \* [Radio -> Peer or NoPeer]
    on,         \* [Peer -> the radio it has, NoRadio while it is replaced]
    offset,     \* [Peer -> the age its announcements have when sent]
    air         \* announcements on the air

table == <<byID, byRadio>>
world == <<on, offset>>
discVars == <<table, world, air>>

DiscInit ==
    /\ byID = [p \in Peer |-> Unbound]
    /\ byRadio = [r \in Radio |-> NoPeer]
    /\ on = [p \in Peer |-> NoRadio]
    /\ offset = [p \in Peer |-> 0]
    /\ air = {}

----------------------------------------------------------------------------
(* The table. *)

\* Mutant: no bound on how far ahead a date may be.
StaleAnyDate(a) == byID[a.id].radio # NoRadio /\ a.age >= byID[a.id].age

\* A date too far ahead is refused, and so is one that is not later than the
\* announcement the binding rests on.
Stale(a) ==
    \/ a.age < -Skew
    \/ byID[a.id].radio # NoRadio /\ a.age >= byID[a.id].age

\* The node's old radio is forgotten, then whoever had this one, and the two
\* views get the new binding.
Learn(a) ==
    /\ byRadio' = [r \in Radio |-> IF r = a.radio THEN a.id
                                   ELSE IF r = byID[a.id].radio THEN NoPeer ELSE byRadio[r]]
    /\ byID' = [p \in Peer |-> IF p = a.id THEN [radio |-> a.radio, age |-> a.age]
                               ELSE IF byRadio[a.radio] = p THEN Unbound ELSE byID[p]]

----------------------------------------------------------------------------
(* What we hear. *)

\* The announcement may be heard again: a flood repeats.
HearAnnounce(a) ==
    /\ a \in air
    /\ IF Stale(a) THEN UNCHANGED table ELSE Learn(a)
    /\ air' \in {air, air \ {a}}
    /\ UNCHANGED <<world>>

----------------------------------------------------------------------------
(* The peers, which run the same code, and the air. *)

Announcement(p) == [id |-> p, radio |-> on[p], age |-> offset[p]]

\* On attaching to the radio, and periodically.
PeerAnnounces(p) ==
    /\ on[p] # NoRadio
    /\ Cardinality(air) < MaxAir
    /\ air' = air \cup {Announcement(p)}
    /\ UNCHANGED <<table, world>>

\* A frame from a radio with no known node is dropped and a who-is asks that
\* radio to announce itself, as both sides' rates allow (askRate).  Question
\* and answer are one step: a late answer is an announcement like any other.
WhoIs(p) ==
    /\ on[p] # NoRadio /\ byRadio[on[p]] = NoPeer
    /\ Cardinality(air) < MaxAir
    /\ air' = air \cup {Announcement(p)}
    /\ UNCHANGED <<table, world>>

PeerChangesRadio(p, r) ==
    /\ r # NoRadio => \A q \in Peer : on[q] # r
    /\ on' = [on EXCEPT ![p] = r]
    /\ UNCHANGED <<table, offset, air>>

PeerSetsClock(p, o) ==
    /\ p \in BadClock
    /\ offset[p] # o
    /\ offset' = [offset EXCEPT ![p] = o]
    /\ UNCHANGED <<table, on, air>>

Loses ==
    /\ \E a \in air : air' = air \ {a}
    /\ UNCHANGED <<table, world>>

Aged(n) == IF n = Absurd \/ n > MaxDelay THEN n ELSE n + 1

DiscTick ==
    /\ byID' = [p \in Peer |-> [byID[p] EXCEPT !.age = Aged(@)]]
    /\ air' = {[a EXCEPT !.age = Aged(@)] : a \in {b \in air : Absurd < b.age /\ b.age < MaxDelay}}
    /\ UNCHANGED <<byRadio, world>>

----------------------------------------------------------------------------
DiscNext ==
    \/ \E a \in air : HearAnnounce(a)
    \/ \E p \in Peer : \/ PeerAnnounces(p) \/ WhoIs(p)
                       \/ \E r \in Radio \cup {NoRadio} : PeerChangesRadio(p, r)
                       \/ \E o \in Absurd .. 0 : PeerSetsClock(p, o)
    \/ Loses \/ DiscTick

----------------------------------------------------------------------------
(* Properties. *)

\* byID and byRadio are two views of one binding (peers.go), however late or
\* out of order the announcements come and whoever takes over a radio.
TwoViews ==
    \A p \in Peer, r \in Radio : byRadio[r] = p <=> byID[p].radio = r

\* A node that stays with one radio and whose clock is right ends up known by
\* it for good, whatever its clock said before and whoever had the radio.
Identified ==
    \A p \in Peer, r \in Radio :
       <>[](on[p] = r /\ offset[p] = 0) => <>[](byRadio[r] = p)

=============================================================================
