-------------------------------- MODULE Chat --------------------------------
(***************************************************************************)
(* Node chat (tui/chat.go and the chat messages of tui/model.go): one room *)
(* shared by every session.  A session that looks at the room registers a  *)
(* channel, a goroutine waits on it, reads the room and hands the lines to *)
(* the model, which registers again.                                       *)
(*                                                                         *)
(* Channels are registered by session ID, which two tabs of one browser    *)
(* share: the second to look at the room replaces the channel of the first.*)
(*                                                                         *)
(* The lines are counted, not kept, and what a snapshot of the room holds  *)
(* when it reaches a session is left out: only that it makes the session   *)
(* register again.  Channels are numbered, and a number is used again when *)
(* nothing refers to it.                                                   *)
(***************************************************************************)
EXTENDS Integers, FiniteSets

CONSTANTS Talker,     \* sessions
          Browsing,   \* those of a browser, whose driver leaves when the socket goes
          TalkerId,   \* Config.SessionID: [Talker -> session ID]
          MaxLines,   \* bound: lines said
          Channel     \* bound: channels in use at a time, 1 .. n

ASSUME ChatAssumption ==
    /\ Channel \subseteq Nat \ {0} /\ MaxLines \in Nat
    /\ DOMAIN TalkerId = Talker /\ Browsing \subseteq Talker

VARIABLES
    said,       \* Len(ChatRoom.lines)
    watchers,   \* [session ID -> channel, 0 for none]
    ringing,    \* channels a Say has yet to signal
    full,       \* channels with a signal in them
    inChat,     \* talkers at the chat screen
    gone,       \* talkers whose session has ended
    pollers,    \* [Talker -> channels its goroutines wait on]
    talking,    \* talkers whose line is being said
    updates,    \* [Talker -> snapshots of the room being read or on their way]
    since       \* [Talker -> lines said when it last registered] (history)

Watcher == {TalkerId[s] : s \in Talker}

room == <<said, watchers, ringing, full>>
ui == <<inChat, gone>>
chatVars == <<room, ui, pollers, talking, updates, since>>

ChatInit ==
    /\ said = 0 /\ watchers = [i \in Watcher |-> 0] /\ ringing = {} /\ full = {}
    /\ inChat = {} /\ gone = {}
    /\ pollers = [s \in Talker |-> {}]
    /\ talking = {}
    /\ updates = [s \in Talker |-> 0] /\ since = [s \in Talker |-> 0]

InUse == {watchers[i] : i \in Watcher} \cup ringing \cup UNION {pollers[s] : s \in Talker}

----------------------------------------------------------------------------
(* The room. *)

\* Say adds the line and takes the channels registered now; it signals them
\* one by one, after the lock.
Says(table) ==
    /\ said < MaxLines
    /\ said' = said + 1
    /\ ringing' = ringing \cup ({table[i] : i \in Watcher} \ {0})

Rings(c) ==
    /\ c \in ringing
    /\ ringing' = ringing \ {c}
    /\ full' = full \cup {c}
    /\ UNCHANGED <<said, watchers, ui, pollers, talking, updates, since>>

\* A new channel takes the place of the one registered before, by whichever tab.
\* The goroutine that waits on that one waits for good unless a signal is in it or
\* on its way already; the session's own is dropped here.
Watches(s, c) ==
    /\ c \in Channel \ InUse /\ \A d \in Channel \ InUse : c =< d
    /\ watchers' = [watchers EXCEPT ![TalkerId[s]] = c]
    /\ since' = [since EXCEPT ![s] = said']
    /\ full' = full \cap UNION {pollers[t] : t \in Talker}
    /\ pollers' = [pollers EXCEPT ![s] = (@ \cap (full \cup ringing)) \cup {c}]

----------------------------------------------------------------------------
(* A session. *)

\* The arrival is said before the channel is registered; the room is read once
\* besides.
EnterChat(s, c) ==
    /\ s \notin inChat \cup gone
    /\ inChat' = inChat \cup {s}
    /\ Says(watchers)
    /\ Watches(s, c)
    /\ updates' = [updates EXCEPT ![s] = @ + 1]
    /\ UNCHANGED <<gone, talking>>

\* The channel is signalled: the goroutine reads the room.
PollWakes(s, c) ==
    /\ c \in pollers[s] \cap full
    /\ pollers' = [pollers EXCEPT ![s] = @ \ {c}]
    /\ full' = full \ {c}
    /\ updates' = [updates EXCEPT ![s] = @ + 1]
    /\ UNCHANGED <<said, watchers, ringing, ui, talking, since>>

\* Registers again, as long as the chat is what the session looks at.
PollAgain(s, c) == Watches(s, c)

ChatUpdated(s, c) ==
    /\ updates[s] > 0
    /\ updates' = [updates EXCEPT ![s] = @ - 1]
    /\ UNCHANGED <<said, ringing, inChat, gone, talking>>
    /\ IF s \in inChat THEN PollAgain(s, c)
       ELSE c = 0 /\ UNCHANGED <<watchers, full, pollers, since>>

\* Enter: the line is said by a command, which then reads the room.
TypesLine(s) ==
    /\ s \in inChat \ talking
    /\ talking' = talking \cup {s}
    /\ UNCHANGED <<room, ui, pollers, updates, since>>

SendChat(s) ==
    /\ s \in talking
    /\ talking' = talking \ {s}
    /\ Says(watchers)
    /\ updates' = [updates EXCEPT ![s] = IF s \in gone THEN 0 ELSE @ + 1]
    /\ UNCHANGED <<watchers, full, ui, pollers, since>>

\* Esc.  Unwatch takes whatever is registered under the ID.
LeaveChat(s) ==
    LET rest == [watchers EXCEPT ![TalkerId[s]] = 0]
    IN  /\ s \in inChat
        /\ inChat' = inChat \ {s}
        /\ watchers' = rest
        /\ Says(rest)
        /\ UNCHANGED <<full, gone, pollers, talking, updates, since>>

\* A result of another command that changes the screen (an opened message, an
\* unlocked mailbox, a web code) takes the session out without leaving.
PulledAway(s) ==
    /\ s \in inChat
    /\ inChat' = inChat \ {s}
    /\ UNCHANGED <<room, gone, pollers, talking, updates, since>>

\* The connection drops.  At a terminal nobody takes the channel back; a browser's
\* driver leaves the chat first.  What is on its way to the session comes to nothing,
\* but a line it is about to say is said.
DropsOff(s) ==
    /\ s \notin gone /\ (s \in inChat => s \notin Browsing)
    /\ gone' = gone \cup {s}
    /\ inChat' = inChat \ {s}
    /\ pollers' = [pollers EXCEPT ![s] = {}]
    /\ updates' = [updates EXCEPT ![s] = 0]
    /\ UNCHANGED <<room, talking, since>>

\* What is on its way to a session that shows the room.
Deliveries(s) ==
    \/ \E c \in Channel : PollWakes(s, c)
    \/ \E c \in Channel \cup {0} : ChatUpdated(s, c)

ChatNext ==
    \/ \E c \in Channel : Rings(c)
    \/ \E s \in Talker :
          \/ \E c \in Channel : EnterChat(s, c)
          \/ Deliveries(s)
          \/ TypesLine(s) \/ SendChat(s) \/ LeaveChat(s) \/ PulledAway(s) \/ DropsOff(s)

----------------------------------------------------------------------------
(* Properties. *)

UpdateComing(s) == updates[s] > 0

\* Nobody shares a session ID with the talker.
TalksAlone(s) == \A t \in Talker \ {s} : TalkerId[t] # TalkerId[s]

\* No wake-up is lost.  A session that shows the room, and whose ID no other tab
\* uses, has an update coming that makes it register again, or waits on the channel
\* registered for it; and whatever was said since it registered has put a signal
\* into that channel or is about to, however its updates overtake each other and
\* whoever else looks, leaves or drops (Say, Watch, pollChat, and the chat update of
\* Model.Update).  It is not that every line is shown at once: one said after a snapshot
\* was taken and before the session registers again signals a channel nobody waits on.
WakesForNews ==
    \A s \in inChat : TalksAlone(s) =>
       \/ UpdateComing(s)
       \/ LET c == watchers[TalkerId[s]]
          IN  c \in pollers[s] /\ (said > since[s] => c \in full \cup ringing)

=============================================================================
