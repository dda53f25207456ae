------------------------------- MODULE IPLink -------------------------------
(***************************************************************************)
(* One node's links over TLS (internal/iplink/link.go): dialled and        *)
(* accepted connections, the table with one connection per peer, a read    *)
(* loop for each, and Close.  Both ends dial when they like, so a peer may *)
(* have several connections under way.  The certificate check (cert.go) is *)
(* modelled by the identity a handshake ends with.                         *)
(***************************************************************************)
EXTENDS Integers, FiniteSets

CONSTANTS Other,       \* nodes at the far end
          Allowed,     \* the ones the allow list admits
          Sock,        \* numbers of connections
          Room,        \* slots of the inbox
          Nobody, NoSock

ASSUME IPLinkAssumption == NoSock \notin Sock /\ Nobody \notin Other

VARIABLES
    peers,      \* [Other -> Sock or NoSock]
    at,         \* [Sock -> "free", "dial", "dialled", "accept", "accepted", "read"]
    far,        \* [Sock -> who is at the far end, as far as we know]
    fd,         \* connections we have not closed
    alive,      \* connections the far end has not closed
    waiting,    \* datagrams in the inbox
    shut,       \* Link.closed
    taken,      \* connections Close took out of the table
    stage       \* where Close is

sockVars == <<peers, at, far, fd, alive>>
ipVars == <<sockVars, waiting, shut, taken, stage>>

IPInit ==
    /\ peers = [p \in Other |-> NoSock]
    /\ at = [c \in Sock |-> "free"]
    /\ far = [c \in Sock |-> Nobody]
    /\ fd = {} /\ alive = {} /\ waiting = 0
    /\ shut = FALSE /\ taken = {} /\ stage = "open"

Opens(c) ==
    /\ at[c] = "free"
    /\ fd' = fd \cup {c}
    /\ alive' = alive \cup {c}

\* A peer we are connected to is not dialled again.
IPDial(c, p) ==
    /\ ~shut /\ peers[p] = NoSock
    /\ Opens(c)
    /\ at' = [at EXCEPT ![c] = "dial"]
    /\ far' = [far EXCEPT ![c] = p]
    /\ UNCHANGED <<peers, waiting, shut, taken, stage>>

IPAccept(c) ==
    /\ stage \in {"open", "marked"}
    /\ Opens(c)
    /\ at' = [at EXCEPT ![c] = "accept"]
    /\ UNCHANGED <<peers, far, waiting, shut, taken, stage>>

\* Inside the handshake a caller must be on the allow list; whom we dialled
\* must be who we dialled.
Handshake(c, p) ==
    /\ c \in alive
    /\ \/ at[c] = "dial" /\ far[c] = p
       \/ at[c] = "accept" /\ p \in Allowed
    /\ at' = [at EXCEPT ![c] = IF @ = "dial" THEN "dialled" ELSE "accepted"]
    /\ far' = [far EXCEPT ![c] = p]
    /\ UNCHANGED <<peers, fd, alive, waiting, shut, taken, stage>>

\* The far end goes away, is refused, or the context ends.
IPHandshakeFails(c) ==
    /\ at[c] \in {"dial", "accept"}
    /\ at' = [at EXCEPT ![c] = "free"]
    /\ far' = [far EXCEPT ![c] = Nobody]
    /\ fd' = fd \ {c}
    /\ alive' = alive \ {c}
    /\ UNCHANGED <<peers, waiting, shut, taken, stage>>

\* The newer connection of a peer replaces the older; a closed link takes none.
Register(c) ==
    /\ at[c] \in {"dialled", "accepted"}
    /\ at' = [at EXCEPT ![c] = "read"]
    /\ IF shut THEN fd' = fd \ {c} /\ UNCHANGED peers
               ELSE fd' = fd \ {peers[far[c]]} /\ peers' = [peers EXCEPT ![far[c]] = c]
    /\ UNCHANGED <<far, alive, waiting, shut, taken, stage>>

Readable(c) == at[c] = "read" /\ c \in fd \cap alive

\* A datagram is queued, or dropped when the inbox is full.
IPRecv(c) ==
    /\ Readable(c)
    /\ waiting < Room
    /\ waiting' = waiting + 1
    /\ UNCHANGED <<sockVars, shut, taken, stage>>

\* A read loop takes its own connection out of the table, not its successor.
EntryAfter(c) == [peers EXCEPT ![far[c]] = IF @ = c THEN NoSock ELSE @]

\* readLoop returns: either end closed, a frame of a length that cannot be,
\* or a full inbox on a closed link.
IPDrop(c) ==
    /\ at[c] = "read"
    /\ peers' = EntryAfter(c)
    /\ at' = [at EXCEPT ![c] = "free"]
    /\ far' = [far EXCEPT ![c] = Nobody]
    /\ fd' = fd \ {c}
    /\ alive' = alive \ {c}
    /\ UNCHANGED <<waiting, shut, taken, stage>>

FarCloses(c) ==
    /\ c \in alive
    /\ alive' = alive \ {c}
    /\ UNCHANGED <<peers, at, far, fd, waiting, shut, taken, stage>>

IPDrain ==
    /\ waiting > 0
    /\ waiting' = waiting - 1
    /\ UNCHANGED <<sockVars, shut, taken, stage>>

IPCloseMarks ==
    /\ ~shut
    /\ shut' = TRUE
    /\ taken' = {peers[p] : p \in Other} \ {NoSock}
    /\ peers' = [p \in Other |-> NoSock]
    /\ stage' = "marked"
    /\ UNCHANGED <<at, far, fd, alive, waiting>>

\* The listener, then the connections; a number freed meanwhile is no longer
\* the connection Close took.
IPCloseConns ==
    /\ stage = "marked"
    /\ fd' = fd \ {c \in taken : at[c] = "read"}
    /\ stage' = "wait"
    /\ UNCHANGED <<peers, at, far, alive, waiting, shut, taken>>

\* Everything but a dial is waited for before the inbox is closed.
IPCloseReturns ==
    /\ stage = "wait"
    /\ \A c \in Sock : at[c] \in {"free", "dial", "dialled"}
    /\ stage' = "closed"
    /\ UNCHANGED <<sockVars, waiting, shut, taken>>

----------------------------------------------------------------------------
IPNext ==
    \/ \E c \in Sock : \/ IPAccept(c) \/ IPHandshakeFails(c) \/ Register(c) \/ IPRecv(c)
                       \/ IPDrop(c) \/ FarCloses(c)
                       \/ \E p \in Other : IPDial(c, p) \/ Handshake(c, p)
    \/ IPDrain \/ IPCloseMarks \/ IPCloseConns \/ IPCloseReturns

----------------------------------------------------------------------------
(* Properties. *)

\* A read loop on an open connection is in the table, where a newer one or
\* Close can find it, unless Close has it already; and only a dial outlives
\* Close (register, drop, Close).
Tracked ==
    /\ \A c \in Sock : at[c] = "read" /\ c \in fd =>
          peers[far[c]] = c \/ (stage = "marked" /\ c \in taken)
    /\ stage = "closed" => \A c \in fd : at[c] \in {"dial", "dialled"}

=============================================================================
