------------------------------ MODULE MCBoard ------------------------------
(***************************************************************************)
(* What must come to an end, and what must come about: a file request, a   *)
(* run of a door, a caller's time, a bundle, a difference between boards.  *)
(* These share no state in the models, so a behaviour is a behaviour of    *)
(* the one that part names.                                                *)
(***************************************************************************)
EXTENDS Files, DoorRun, Sessions, Bsmp, Heartbeat

CONSTANTS s1, s2, s3, n1, n2

VARIABLE part

vars == <<fileVars, doorVars, sessVars, bsmpVars, beatVars, part>>

----------------------------------------------------------------------------
(* Values of the constants. *)

\* Two sessions share a node of the board; the third has one to itself.
Nodes == [s \in Sess |-> IF s = s3 THEN 2 ELSE 1]

Fronts == [s \in Call |-> IF s = s3 THEN "telnet" ELSE "web"]
Kinds == [s \in Call |-> IF s = s3 THEN "guest" ELSE "user"]
OwnIds == [s \in Call |-> s]

\* The repair symbols are in turn both originals, the first, both, the second.
Masks == [i \in K .. MaxSymbols - 1 |->
            IF i % 2 = 0 THEN 0 .. K - 1 ELSE {(i \div 2) % K}]

\* Both boards carry every topic, and the second lacks the newer dictionary;
\* or the second carries the first topic only, and both have the same.
All == [n \in Station |-> Topic]
Older2 == [n \in Station |-> IF n = n2 THEN 0 ELSE 1]
Some == [n \in Station |-> IF n = n2 THEN {"a"} ELSE Topic]
Same == [n \in Station |-> 0]

----------------------------------------------------------------------------
(* The specification: one part moves, the others stand still. *)

Parts == {"files", "door", "sessions", "bundles", "beats"}

\* A part that does not move starts from one state.
Init ==
    /\ part \in Parts
    /\ BsmpInit /\ (part # "bundles" => keyed = [n \in Receiver |-> TRUE])
    /\ FilesInit /\ DoorInit /\ SessInit /\ BeatInit

Next ==
    /\ UNCHANGED part
    /\ \/ part = "files" /\ FilesNext
       \/ part # "files" /\ UNCHANGED fileVars
    /\ \/ part = "door" /\ DoorNext
       \/ part # "door" /\ UNCHANGED doorVars
    /\ \/ part = "sessions" /\ SessNext
       \/ part # "sessions" /\ UNCHANGED sessVars
    /\ \/ part = "bundles" /\ PromptNext
       \/ part # "bundles" /\ UNCHANGED bsmpVars
    /\ \/ part = "beats" /\ BeatNext
       \/ part # "beats" /\ UNCHANGED beatVars

\* The sysops carry sticks to and fro, of those carried some are answered, an
\* import once begun runs, and at some point nothing more is lost on the way.
FilesFairness ==
    /\ WF_fileVars(part = "files" /\ Export)
    /\ SF_fileVars(part = "files" /\ AwayReplies)
    /\ WF_fileVars(part = "files" /\ ImportSteps)
    /\ <>[][~(CarrierLost \/ ImportFails)]_fileVars

\* The goroutines of a session's run go on: a door starts or fails to, a
\* killed one exits, and its connections close.
DoorFairness ==
    \A s \in Sess :
       WF_doorVars(part = "door" /\ (RunSteps(s) \/ Launches(s) \/ \E c \in ApiConn : Ends(s, c)))

\* Time passes, and the timers and goroutines of a session run.
SessFairness ==
    /\ WF_sessVars(part = "sessions" /\ Tick)
    /\ \A s \in Call : WF_sessVars(part = "sessions" /\ (TimeCheck(s) \/ Finishes(s)))

\* The loops run, the engine answers who asks again, the governor lets a
\* symbol through now and again, and a key arrives in the end.
BundleFairness ==
    /\ \A c \in Caller :
          /\ SF_bsmpVars(part = "bundles" /\ SendSymbol(c))
          /\ WF_bsmpVars(part = "bundles" /\ FinishSend(c))
          /\ \A b \in Bundle : SF_bsmpVars(part = "bundles" /\ AnswerAgain(c, b))
    /\ \A r \in Receiver :
          /\ WF_bsmpVars(part = "bundles" /\ Receive(r))
          /\ WF_bsmpVars(part = "bundles" /\ KeyArrives(r))

\* A step in which nothing is lost or refused, and no beat is overdue.
Clear ==
    \/ Passes /\ \A n \in Station : beat[n].due > 0
    \/ \E n \in Station :
          \/ RefreshDictionary(n) \/ Suppress(n) \/ Announce(n, Station \ {n})
          \/ \E t \in Topic : Publish(n, t, Station \ {n})
          \/ \E a \in wants[n] : DropAsk(n, a) \/ Ask(n, a)
    \/ \E q \in asked : Answer(q, Station \ {q.of})

\* Time passes, the engines run, and at some point the channel is clear.
BeatFairness ==
    /\ WF_beatVars(part = "beats" /\ Passes /\ \A n \in Station : beat[n].due > 0)
    /\ \A n \in Station :
          /\ WF_beatVars(part = "beats" /\ RefreshDictionary(n))
          /\ WF_beatVars(part = "beats" /\ (Suppress(n) \/ Announce(n, Station \ {n})))
          /\ WF_beatVars(part = "beats" /\ \E a \in wants[n] : DropAsk(n, a) \/ Ask(n, a))
    /\ WF_beatVars(part = "beats" /\ \E q \in asked : Answer(q, Station \ {q.of}))
    /\ <>[][Clear]_beatVars

Spec ==
    /\ Init /\ [][Next]_vars
    /\ FilesFairness /\ DoorFairness /\ SessFairness /\ BundleFairness /\ BeatFairness

\* The heartbeat alone.
BeatSpec == Init /\ part = "beats" /\ [][Next]_vars /\ BeatFairness

\* The bundles alone, as long as the process runs.
BundleSpec == Init /\ part = "bundles" /\ [][Next]_vars

============================================================================
