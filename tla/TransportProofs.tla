-------------------------- MODULE TransportProofs --------------------------
(***************************************************************************)
(* Proofs that the transports keep track of their connections, for every   *)
(* number of connections, peers and radios and every setting of the        *)
(* timers: ConnectionsHold of MCTransport.  Each part has an inductive     *)
(* invariant of its own, and a step of one part leaves the others alone.   *)
(***************************************************************************)
EXTENDS MCTransport, FiniteSetTheorems, TLAPS

----------------------------------------------------------------------------
(* The radio link. *)

\* Before the supervisor has a connection installed, and after.
Fetching == {"backoff", "dialled", "configured"}
Beginning == {"attach", "attached"}
Serving == {"spawn", "enter", "read", "lost", "release"}

LinkTypeOK ==
    /\ conn \in Conn \cup {None} /\ held \in Conn \cup {None} /\ closing \in Conn \cup {None}
    /\ up \subseteq Conn
    /\ pc \in Fetching \cup Beginning \cup Serving \cup {"done"}
    /\ starting \in BOOLEAN /\ connected \in BOOLEAN
    /\ sessionRx \in BOOLEAN /\ delivered \in BOOLEAN
    /\ closed \in BOOLEAN
    /\ closer \in {"open", "cancel", "wait", "closed"}
    /\ backoff \in Base .. MaxBackoff /\ earned \in Base .. MaxBackoff

\* Every open connection has one owner: connect, the link or Close.
OneOwner ==
    /\ \A c \in up : c \in {held, conn, closing}
    /\ held # None => pc \in {"dialled", "configured"}
    /\ pc \in Fetching => conn = None /\ closing = None
    /\ closed => conn = None
    /\ ~closed => closing = None /\ closer = "open"
    /\ closer = "open" => ~closed
    /\ starting => ~closed

\* What Close has done stays done.
ClosedForGood ==
    /\ closer \in {"wait", "closed"} => closing \notin up
    /\ closer = "closed" => pc = "done" /\ ~connected

\* The wait is never shorter than the dead sessions have earned, counting the
\* doubling that is still to come while the next session is being set up.
WaitIsEarned ==
    /\ starting => earned = Base /\ pc \notin Serving
    /\ pc \in Serving => backoff >= earned
    /\ pc \in Fetching \cup Beginning =>
          IF delivered THEN earned = Base ELSE Longer(backoff) >= earned

LinkInv == LinkTypeOK /\ OneOwner /\ ClosedForGood /\ WaitIsEarned

\* A longer wait is a wait, no shorter than the one before it, and of two waits
\* the longer stays the longer.
LEMMA LongerIsLonger ==
    ASSUME NEW v \in Base .. MaxBackoff, NEW w \in Base .. MaxBackoff
    PROVE  /\ Longer(w) \in Base .. MaxBackoff
           /\ Longer(w) >= w
           /\ v =< w => Longer(v) =< Longer(w)
<1>1. Base \in Nat /\ MaxBackoff \in Nat /\ v \in Nat /\ w \in Nat
  BY LinkAssumption
<1>2. QED
  BY <1>1 DEF Longer

\* The link starts with nothing open.
LEMMA LinkStarts == LinkInit => LinkInv
<1> SUFFICES ASSUME LinkInit PROVE LinkInv
  OBVIOUS
<1>1. Base \in Base .. MaxBackoff
  BY LinkAssumption
<1>2. Longer(Base) >= Base
  BY <1>1, LongerIsLonger
<1>3. QED
  BY <1>1, <1>2
     DEF LinkInit, LinkInv, LinkTypeOK, OneOwner, ClosedForGood, WaitIsEarned, None, Fetching,
         Beginning, Serving

\* Every step of the link keeps its invariant.
LEMMA LinkSteps == LinkInv /\ [LinkNext]_linkVars => LinkInv'
<1> SUFFICES ASSUME LinkInv, [LinkNext]_linkVars PROVE LinkInv'
  OBVIOUS
<1> USE DEF LinkInv, LinkTypeOK, OneOwner, ClosedForGood, WaitIsEarned, None,
            Fetching, Beginning, Serving, flags, closeVars
<1>a. 0 \notin Conn /\ Base \in Base .. MaxBackoff
  BY LinkAssumption
<1>b. /\ Longer(backoff) \in Base .. MaxBackoff /\ Longer(earned) \in Base .. MaxBackoff
      /\ Longer(Longer(backoff)) \in Base .. MaxBackoff
      /\ Longer(Longer(backoff)) >= Longer(backoff)
      /\ backoff >= earned => Longer(backoff) >= Longer(earned)
      /\ Longer(Base) >= Base
  BY <1>a, LongerIsLonger
<1>c. \A i \in Base .. MaxBackoff : i \in Int /\ i >= Base
  BY LinkAssumption
<1> USE <1>a
<1>1. CASE Install
  BY <1>1, <1>b, <1>c DEF Install, Doubled
<1>2. CASE Attach
  BY <1>2 DEF Attach
<1>3. CASE Connected
  BY <1>3, <1>b, <1>c DEF Connected, BackoffAfter, Doubled
<1>4. CASE SpawnKeepalive
  BY <1>4 DEF SpawnKeepalive
<1>5. CASE EnterReadLoop
  BY <1>5 DEF EnterReadLoop
<1>6. CASE RecvFails
  BY <1>6 DEF RecvFails
<1>7. CASE Lost
  BY <1>7 DEF Lost
<1>8. CASE Release
  BY <1>8, <1>b, <1>c DEF Release
<1>9. CASE Recv
  BY <1>9 DEF Recv
<1>10. CASE ConnectFails
  <2>1. CASE starting
    BY <1>10, <2>1 DEF ConnectFails, TriesAgain
  <2>2. CASE ~starting
    BY <1>10, <2>2, <1>b, <1>c DEF ConnectFails, TriesAgain, Doubled
  <2>3. QED
    BY <2>1, <2>2
<1>11. CASE Configured
  BY <1>11 DEF Configured
<1>12. CASE HandshakeFails
  <2>1. CASE starting
    BY <1>12, <2>1 DEF HandshakeFails, TriesAgain
  <2>2. CASE ~starting
    BY <1>12, <2>2, <1>b, <1>c DEF HandshakeFails, TriesAgain, Doubled
  <2>3. QED
    BY <2>1, <2>2
<1>13. CASE StopWaiting
  BY <1>13 DEF StopWaiting
<1>14. CASE CloseMarks
  BY <1>14 DEF CloseMarks
<1>15. CASE CloseCancels
  BY <1>15 DEF CloseCancels
<1>16. CASE CloseReturns
  BY <1>16 DEF CloseReturns
<1>17. CASE Signal
  BY <1>17 DEF Signal
<1>18. CASE LinkTick
  BY <1>18 DEF LinkTick
<1>19. ASSUME NEW c \in Conn, Dial(c) PROVE LinkInv'
  BY <1>19 DEF Dial
<1>20. ASSUME NEW c \in Conn, Watchdog(c) PROVE LinkInv'
  BY <1>20 DEF Watchdog, Stalled
<1>21. ASSUME NEW c \in Conn, RadioDrops(c) PROVE LinkInv'
  BY <1>21 DEF RadioDrops
<1>22. ASSUME NEW c \in Conn, RadioGoesDeaf(c) PROVE LinkInv'
  BY <1>22 DEF RadioGoesDeaf
<1>23. ASSUME NEW c \in Conn \cup {None}, KeepaliveEnds(c) PROVE LinkInv'
  BY <1>23 DEF KeepaliveEnds
<1>24. CASE UNCHANGED linkVars
  BY <1>24 DEF linkVars
<1>25. QED
  BY <1>1, <1>2, <1>3, <1>4, <1>5, <1>6, <1>7, <1>8, <1>9, <1>10, <1>11, <1>12, <1>13, <1>14, <1>15, <1>16, <1>17, <1>18, <1>19, <1>20, <1>21, <1>22, <1>23, <1>24 DEF LinkNext, Supervise, CloseSteps

\* At most one of the three owners holds a connection, and none after Close.
LEMMA LinkGoal == LinkInv => SlotsAreFreed /\ Escalates
<1> SUFFICES ASSUME LinkInv PROVE SlotsAreFreed /\ Escalates
  OBVIOUS
<1>1. PICK c : up \subseteq {c}
  BY LinkAssumption DEF LinkInv, LinkTypeOK, OneOwner, Fetching, None
<1>2. Cardinality(up) =< 1
  <2>1. IsFiniteSet({c}) /\ Cardinality({c}) = 1
    BY FS_Singleton
  <2>2. QED
    BY <1>1, <2>1, FS_Subset, FS_CardinalityType
<1>3. closer = "closed" => up = {} /\ ~connected
  BY LinkAssumption DEF LinkInv, LinkTypeOK, OneOwner, ClosedForGood, None
<1>4. Escalates
  BY DEF LinkInv, WaitIsEarned, Escalates, Serving
<1>5. QED
  BY <1>2, <1>3, <1>4 DEF SlotsAreFreed

----------------------------------------------------------------------------
(* The table of peers. *)

\* An announcement on the air names a peer and the radio it was sent from.
DiscInv ==
    /\ byID \in [Peer -> [radio : Radio \cup {NoRadio}, age : Int]]
    /\ byRadio \in [Radio -> Peer \cup {NoPeer}]
    /\ on \in [Peer -> Radio \cup {NoRadio}]
    /\ offset \in [Peer -> Int]
    /\ air \subseteq [id : Peer, radio : Radio, age : Int]
    /\ TwoViews

\* An age grows to an age.
LEMMA OlderIsAge == \A n \in Int : Aged(n) \in Int
BY DEF Aged

\* Nobody is bound at the start.
LEMMA DiscStarts == DiscInit => DiscInv
BY DiscoveryAssumption DEF DiscInit, DiscInv, TwoViews, Unbound

\* Whoever is learnt takes the radio from whoever had it, and leaves the one it
\* had: the two views stay one binding.
LEMMA LearnKeepsViews ==
    ASSUME DiscInv, NEW a \in [id : Peer, radio : Radio, age : Int], Learn(a)
    PROVE  /\ byID' \in [Peer -> [radio : Radio \cup {NoRadio}, age : Int]]
           /\ byRadio' \in [Radio -> Peer \cup {NoPeer}]
           /\ TwoViews'
<1>1. a.id \in Peer /\ a.radio \in Radio /\ a.age \in Int /\ MaxDelay + 1 \in Int
  BY DiscoveryAssumption
<1>2. byID' \in [Peer -> [radio : Radio \cup {NoRadio}, age : Int]]
  BY <1>1 DEF Learn, Unbound, DiscInv
<1>3. byRadio' \in [Radio -> Peer \cup {NoPeer}]
  BY <1>1 DEF Learn, DiscInv
<1>4. ASSUME NEW p \in Peer, NEW r \in Radio
      PROVE  byRadio'[r] = p <=> byID'[p].radio = r
  <2>1. byRadio'[r] = IF r = a.radio THEN a.id
                      ELSE IF r = byID[a.id].radio THEN NoPeer ELSE byRadio[r]
    BY DEF Learn
  <2>2. byID'[p].radio = IF p = a.id THEN a.radio
                         ELSE IF byRadio[a.radio] = p THEN NoRadio ELSE byID[p].radio
    BY DEF Learn, Unbound
  <2>3. /\ byRadio[r] = p <=> byID[p].radio = r
        /\ byRadio[a.radio] = p <=> byID[p].radio = a.radio
        /\ byRadio[r] = a.id <=> byID[a.id].radio = r
    BY <1>1 DEF DiscInv, TwoViews
  <2>4. QED
    BY <1>1, <2>1, <2>2, <2>3, DiscoveryAssumption
<1>5. QED
  BY <1>2, <1>3, <1>4 DEF TwoViews

\* Every step of discovery keeps its invariant.
LEMMA DiscSteps == DiscInv /\ [DiscNext]_discVars => DiscInv'
<1> SUFFICES ASSUME DiscInv, [DiscNext]_discVars PROVE DiscInv'
  OBVIOUS
<1> USE DEF discVars, table, world
<1>1. ASSUME NEW a \in air, HearAnnounce(a) PROVE DiscInv'
  <2>1. a \in [id : Peer, radio : Radio, age : Int]
    BY <1>1 DEF DiscInv
  <2>2. air' \subseteq air /\ on' = on /\ offset' = offset
    BY <1>1 DEF HearAnnounce
  <2>3. CASE Stale(a)
    BY <1>1, <2>2, <2>3 DEF HearAnnounce, DiscInv, TwoViews
  <2>4. CASE ~Stale(a)
    <3>1. Learn(a)
      BY <1>1, <2>4 DEF HearAnnounce
    <3>2. QED
      BY <2>1, <2>2, <3>1, LearnKeepsViews DEF DiscInv
  <2>5. QED
    BY <2>3, <2>4
<1>2. ASSUME NEW p \in Peer, PeerAnnounces(p) \/ WhoIs(p) PROVE DiscInv'
  <2>1. Announcement(p) \in [id : Peer, radio : Radio, age : Int]
    BY <1>2 DEF PeerAnnounces, WhoIs, Announcement, DiscInv
  <2>2. QED
    BY <1>2, <2>1 DEF PeerAnnounces, WhoIs, DiscInv, TwoViews
<1>3. ASSUME NEW p \in Peer, NEW r \in Radio \cup {NoRadio}, PeerChangesRadio(p, r)
      PROVE  DiscInv'
  BY <1>3 DEF PeerChangesRadio, DiscInv, TwoViews
<1>4. ASSUME NEW p \in Peer, NEW o \in Absurd .. 0, PeerSetsClock(p, o) PROVE DiscInv'
  <2>1. o \in Int
    BY DiscoveryAssumption DEF Absurd
  <2>2. QED
    BY <1>4, <2>1 DEF PeerSetsClock, DiscInv, TwoViews
<1>5. CASE Loses
  BY <1>5 DEF Loses, DiscInv, TwoViews
<1>6. CASE DiscTick
  <2>1. \A p \in Peer : /\ byID'[p] \in [radio : Radio \cup {NoRadio}, age : Int]
                        /\ byID'[p].radio = byID[p].radio
    BY <1>6, OlderIsAge DEF DiscTick, DiscInv
  <2>2. byID' \in [Peer -> [radio : Radio \cup {NoRadio}, age : Int]]
    BY <1>6, <2>1 DEF DiscTick
  <2>3. ASSUME NEW b \in air' PROVE b \in [id : Peer, radio : Radio, age : Int]
    <3>1. PICK a \in air : b = [a EXCEPT !.age = Aged(@)]
      BY <1>6, <2>3 DEF DiscTick
    <3>2. a \in [id : Peer, radio : Radio, age : Int]
      BY <3>1 DEF DiscInv
    <3>3. Aged(a.age) \in Int
      BY <3>2, OlderIsAge
    <3>4. QED
      BY <3>1, <3>2, <3>3
  <2>4. TwoViews'
    BY <1>6, <2>1 DEF DiscTick, DiscInv, TwoViews
  <2>5. QED
    BY <1>6, <2>2, <2>3, <2>4 DEF DiscTick, DiscInv
<1>7. CASE UNCHANGED discVars
  BY <1>7 DEF DiscInv, TwoViews
<1>8. QED
  BY <1>1, <1>2, <1>3, <1>4, <1>5, <1>6, <1>7 DEF DiscNext

----------------------------------------------------------------------------
(* The IP link. *)

\* Whoever has answered a handshake is known; a free number is closed; and once
\* the link is shut its table is empty for good.
IPInv ==
    /\ peers \in [Other -> Sock \cup {NoSock}]
    /\ at \in [Sock -> {"free", "dial", "dialled", "accept", "accepted", "read"}]
    /\ far \in [Sock -> Other \cup {Nobody}]
    /\ fd \subseteq Sock /\ shut \in BOOLEAN
    /\ stage \in {"open", "marked", "wait", "closed"}
    /\ \A c \in Sock : at[c] \in {"dial", "dialled", "accepted", "read"} => far[c] \in Other
    /\ \A c \in Sock : at[c] = "free" => c \notin fd
    /\ shut <=> stage # "open"
    /\ shut => \A p \in Other : peers[p] = NoSock
    /\ Tracked

\* The IP link starts with no connection.
LEMMA IPStarts == IPInit => IPInv
BY IPLinkAssumption DEF IPInit, IPInv, Tracked

\* Every step of the IP link keeps its invariant.
LEMMA IPSteps == IPInv /\ [IPNext]_ipVars => IPInv'
<1> SUFFICES ASSUME IPInv, [IPNext]_ipVars PROVE IPInv'
  OBVIOUS
<1> USE IPLinkAssumption DEF ipVars, sockVars, IPInv, Tracked
<1>1. ASSUME NEW c \in Sock, IPAccept(c) PROVE IPInv'
  BY <1>1 DEF IPAccept, Opens
<1>2. ASSUME NEW c \in Sock, IPHandshakeFails(c) PROVE IPInv'
  BY <1>2 DEF IPHandshakeFails
<1>3. ASSUME NEW c \in Sock, Register(c) PROVE IPInv'
  <2>1. CASE shut
    BY <1>3, <2>1 DEF Register
  <2>2. CASE ~shut
    BY <1>3, <2>2 DEF Register
  <2>3. QED
    BY <2>1, <2>2
<1>4. ASSUME NEW c \in Sock, IPRecv(c) PROVE IPInv'
  BY <1>4 DEF IPRecv
<1>5. ASSUME NEW c \in Sock, IPDrop(c) PROVE IPInv'
  BY <1>5 DEF IPDrop, EntryAfter
<1>6. ASSUME NEW c \in Sock, FarCloses(c) PROVE IPInv'
  BY <1>6 DEF FarCloses
<1>7. ASSUME NEW c \in Sock, NEW p \in Other, IPDial(c, p) PROVE IPInv'
  BY <1>7 DEF IPDial, Opens
<1>8. ASSUME NEW c \in Sock, NEW p \in Other, Handshake(c, p) PROVE IPInv'
  BY <1>8 DEF Handshake
<1>9. CASE IPDrain
  BY <1>9 DEF IPDrain
<1>10. CASE IPCloseMarks
  BY <1>10 DEF IPCloseMarks
<1>11. CASE IPCloseConns
  BY <1>11 DEF IPCloseConns
<1>12. CASE IPCloseReturns
  BY <1>12 DEF IPCloseReturns
<1>13. CASE UNCHANGED ipVars
  BY <1>13
<1>14. QED
  BY <1>1, <1>2, <1>3, <1>4, <1>5, <1>6, <1>7, <1>8, <1>9, <1>10, <1>11, <1>12, <1>13 DEF IPNext

----------------------------------------------------------------------------
(* All three. *)

\* Whatever the radio, the peers, the callers of Close and the timers do, the
\* radio link owns at most one connection and none once closed, and waits at
\* least as long as its dead sessions have earned; the two tables of peers say
\* the same; and every open socket of the IP link is in its table or Close's.
THEOREM ConnectionsAreKept == Spec => []ConnectionsHold
<1> DEFINE Inv == LinkInv /\ DiscInv /\ IPInv
<1>1. Init => Inv
  BY LinkStarts, DiscStarts, IPStarts DEF Init
<1>2. Inv /\ [Next]_vars => Inv'
  <2> SUFFICES ASSUME Inv, [Next]_vars PROVE Inv'
    OBVIOUS
  <2>1. [LinkNext]_linkVars /\ [DiscNext]_discVars /\ [IPNext]_ipVars
    BY DEF Next, vars
  <2>2. QED
    BY <2>1, LinkSteps, DiscSteps, IPSteps
<1>3. Inv => ConnectionsHold
  BY LinkGoal DEF DiscInv, IPInv, ConnectionsHold
<1>4. QED
  BY <1>1, <1>2, <1>3, PTL DEF Spec

=============================================================================
