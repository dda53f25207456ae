------------------------------ MODULE MCHouse ------------------------------
(***************************************************************************)
(* What a caller meets: the front ends and their sessions, sign-in, the    *)
(* mailbox, chat, the screens, the doors' interface, the league events     *)
(* they queue and the line a door borrows.  They share no state in these   *)
(* models, so a behaviour is a behaviour of the one that part names.       *)
(***************************************************************************)
EXTENDS DoorApi, Sessions, Chat, Mailbox, SignIn, Screens, ConnMux, DoorEvents

CONSTANTS s1, s2, s3, s4, sk

VARIABLE part

Parts == {"api", "sessions", "chat", "mail", "signin", "screens", "line", "events"}

vars == <<apiVars, sessVars, chatVars, mailVars, signInVars, uiVars, muxVars, queueVars, part>>

\* A door may be granted more posts or a larger state.
Given == {[level |-> 3, quota |-> 2], [level |-> 4, quota |-> 1]}

\* One caller at each front end; the one of the web may open a second tab.
Fronts == [s \in Call |-> CASE s = s1 -> "ssh" [] s = s3 -> "telnet" [] OTHER -> "web"]
Kinds == [s \in Call |-> CASE s = s1 -> "signup" [] s = s3 -> "guest" [] OTHER -> "user"]
Tabs == [s \in Call |-> IF s = s4 THEN s2 ELSE s]
TabsThatTalk == [s \in Talker |-> IF s = s4 THEN s2 ELSE s]
Accounts == [i \in Id |-> i]

SSHKeys == [v \in Visitor |-> sk]

\* A request through a proxy, with a forged hop in front of the real one.
Proxied == {[remote |-> "p", hops |-> <<"a", "b", "p">>]}

\* Lists to move about in, and what arrives while they are on the screen.
First == [l \in Lists |->
            CASE l = "posts" -> {}
              [] l = "files" -> {11, 12}
              [] l = "doors" -> {1, 2}
              [] OTHER -> {1}]
Coming == [l \in Lists |->
            CASE l = "areas" -> {2}
              [] l = "posts" -> {11}
              [] l = "files" -> {10}
              [] OTHER -> {}]

Init ==
    /\ part \in Parts
    /\ ApiInit /\ SessInit /\ ChatInit /\ MailInit /\ SignInInit /\ UIInit /\ MuxInit
    /\ QueueInit

\* One part moves, the others stand still.
Next ==
    /\ UNCHANGED part
    /\ \/ part = "api" /\ ApiNext
       \/ part # "api" /\ UNCHANGED apiVars
    /\ \/ part = "sessions" /\ SessNext
       \/ part # "sessions" /\ UNCHANGED sessVars
    /\ \/ part = "chat" /\ ChatNext
       \/ part # "chat" /\ UNCHANGED chatVars
    /\ \/ part = "mail" /\ MailNext
       \/ part # "mail" /\ UNCHANGED mailVars
    /\ \/ part = "signin" /\ SignInNext
       \/ part # "signin" /\ UNCHANGED signInVars
    /\ \/ part = "screens" /\ UINext
       \/ part # "screens" /\ UNCHANGED uiVars
    /\ \/ part = "line" /\ MuxNext
       \/ part # "line" /\ UNCHANGED muxVars
    /\ \/ part = "events" /\ QueueNext
       \/ part # "events" /\ UNCHANGED queueVars

Spec == Init /\ [][Next]_vars

----------------------------------------------------------------------------
(* A property of two parts. *)

\* Who the board shows as present is there, who is there is shown, and whoever is in
\* the chat is woken by what is said once it listens.
CallersHold == NoGhosts /\ WakesForNews

============================================================================
