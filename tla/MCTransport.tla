---------------------------- MODULE MCTransport ----------------------------
(***************************************************************************)
(* The three parts of the transports and the queue of league events that   *)
(* waits for the radio, each on its own: the components share no state, so *)
(* a behaviour is a behaviour of the one that part names and the instances *)
(* stay small.                                                             *)
(***************************************************************************)
EXTENDS MeshLink, IPLink, DoorEvents

VARIABLE part

vars == <<linkVars, discVars, ipVars, queueVars, part>>

Init ==
    /\ part \in {"link", "discovery", "ip", "events"}
    /\ LinkInit /\ DiscInit /\ IPInit /\ QueueInit

Next ==
    /\ UNCHANGED part
    /\ \/ part = "link" /\ LinkNext
       \/ part # "link" /\ UNCHANGED linkVars
    /\ \/ part = "discovery" /\ DiscNext
       \/ part # "discovery" /\ UNCHANGED discVars
    /\ \/ part = "ip" /\ IPNext
       \/ part # "ip" /\ UNCHANGED ipVars
    /\ \/ part = "events" /\ QueueNext
       \/ part # "events" /\ UNCHANGED queueVars

\* The link's goroutines run, time passes, and a cancelled wait ends.
LinkFairness ==
    /\ WF_linkVars(part = "link" /\ Supervise)
    /\ WF_linkVars(part = "link" /\ StopWaiting)
    /\ WF_linkVars(part = "link" /\ LinkTick)
    /\ WF_linkVars(part = "link" /\ CloseSteps)
    /\ \A c \in Conn : WF_linkVars(part = "link" /\ Watchdog(c))
    /\ \A c \in Conn \cup {None} : WF_linkVars(part = "link" /\ KeepaliveEnds(c))

\* Time passes, a peer announces itself again and again, and of the fresh
\* announcements it makes some are heard before they are late.
DiscFairness ==
    /\ WF_discVars(part = "discovery" /\ DiscTick)
    /\ \A p \in Peer :
          /\ SF_discVars(part = "discovery" /\ PeerAnnounces(p))
          /\ SF_discVars(part = "discovery"
                            /\ HearAnnounce([id |-> p, radio |-> on[p], age |-> 0]))

\* The federation loop ticks every five seconds, and time passes.
QueueFairness ==
    /\ WF_queueVars(part = "events" /\ FlushStep)
    /\ WF_queueVars(part = "events" /\ Advance)

Spec == Init /\ [][Next]_vars /\ LinkFairness /\ DiscFairness /\ QueueFairness

----------------------------------------------------------------------------
(* A property of the three transports. *)

\* Connections and what is recorded of them agree: a link that was given up
\* frees its slot and waits longer before the next, the two tables of peers
\* say the same, and every socket of the IP link is in its table.
ConnectionsHold == SlotsAreFreed /\ Escalates /\ TwoViews /\ Tracked

=============================================================================
