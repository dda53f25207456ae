------------------------------ MODULE Sessions ------------------------------
(***************************************************************************)
(* The life of a call over SSH, telnet or the web: who gets in, who is     *)
(* shown as online, when a call is over and what is cleaned up then        *)
(* (sshd/session.go, server.go and telnet.go, webd/session.go and ws.go,   *)
(* tui/driver.go and timelimit.go, and join and leave of tui/model.go).    *)
(*                                                                         *)
(* SSH and telnet run the model in a program that ends with the            *)
(* connection; the web runs it in a Driver.  A command's result may arrive *)
(* after the model has said goodbye and before the program or the driver   *)
(* is closed.  A call is a connection with a model of its own; what is     *)
(* kept by session ID (presence, the entry of a cookie) is shared by the   *)
(* tabs of one browser and by the channels of one SSH connection.  Time is *)
(* counted per call where a limit asks, and stops counting where no limit  *)
(* tells the difference.                                                   *)
(***************************************************************************)
EXTENDS Integers, FiniteSets
LOCAL INSTANCE FiniteSetsExt

CONSTANTS Call, FrontOf, KindOf,   \* calls, [Call -> front], [Call -> who calls]
          IdOf,                    \* Config.SessionID: [Call -> session ID]
          AccountOf,               \* [session ID -> account]
          Limit, Warnings,         \* SessionLimit in ticks, and when to warn
          MaxTelnet, MaxWeb, MaxPerUser,
          IdleMax, UnlockedIdle, Ttl

ASSUME SessionsAssumption ==
    /\ IsFiniteSet(Call)
    /\ FrontOf \in [Call -> {"ssh", "telnet", "web"}]
    /\ KindOf \in [Call -> {"guest", "signup", "user", "sysop"}]
    /\ DOMAIN IdOf = Call
    /\ \A s \in Call : FrontOf[s] = "telnet" => KindOf[s] = "guest"
    /\ \A s \in Call : FrontOf[s] = "web" => KindOf[s] \in {"user", "sysop"}

VARIABLES
    phase,      \* [Call -> "off", "on", "quitting" (the model has left) or "over"]:
                \* a connection comes once, a tab may be opened again
    who,        \* [Call -> kind]: Model.guest and sysop; "signup" until there is an account
    age,        \* [Call -> ticks since startedAt]
    timer,      \* [Call -> ticks until the armed time check, or Unarmed]
    warned,     \* [Call -> timeWarned; 0 for none]
    pending,    \* [Call -> commands running]: "unlock" or "signup"
    open,       \* calls whose model holds the mail passphrase
    joined,     \* calls whose model has joined
    revoked,    \* sessionPresence.gone
    present,    \* Presence.sessions: [session ID -> node number, 0 for not there]
    entry       \* sessionStore.byID: [session ID -> [age, quiet, open]]

times == <<age, timer, warned>>
shown == <<joined, revoked, present>>
sessVars == <<phase, who, times, pending, open, shown, entry>>

Id == {IdOf[s] : s \in Call}

Unarmed == -1
NoEntry == [age |-> -1, quiet |-> 0, open |-> FALSE]
Longest == Max({Limit, IdleMax, UnlockedIdle, Ttl})

SessInit ==
    /\ phase = [s \in Call |-> "off"]
    /\ who = KindOf
    /\ age = [s \in Call |-> 0]
    /\ timer = [s \in Call |-> Unarmed] /\ warned = [s \in Call |-> 0]
    /\ pending = [s \in Call |-> {}] /\ open = {}
    /\ joined = {} /\ revoked = {} /\ present = [i \in Id |-> 0]
    /\ entry = [i \in Id |-> NoEntry]

LiveCall(s) == phase[s] \in {"on", "quitting"}
OnFront(f) == {s \in Call : FrontOf[s] = f /\ LiveCall(s)}

----------------------------------------------------------------------------
(* The time limit. *)

\* Telnet gives the model a limit but no clock.
TimeLimited(s) == Limit > 0 /\ who[s] # "sysop" /\ FrontOf[s] # "telnet"

Remaining(a) == IF a >= Limit THEN 0 ELSE Limit - a

\* The next mark not yet passed, or the end.
UntilNextTimeEvent(left, said) ==
    LET marks == {w \in Warnings : (said # 0 => w < said) /\ left > w}
    IN  IF marks = {} THEN left ELSE left - Max(marks)

WatchTimeLimit(s, a, said) ==
    IF TimeLimited(s) THEN UntilNextTimeEvent(Remaining(a), said) ELSE Unarmed

----------------------------------------------------------------------------
(* Presence. *)

LowestFree(nodes) == CHOOSE n \in 1 .. Cardinality(nodes) + 1 :
                        n \notin nodes /\ \A k \in 1 .. n - 1 : k \in nodes

\* The row under the session's own ID, if there is one, counts as taken too.
FreeNode == LowestFree({present[i] : i \in Id} \ {0})

\* Once per model, in place of what was there under the ID; a connection that has
\* gone is not shown again.
Join(s) ==
    /\ joined' = joined \cup {s}
    /\ present' = IF s \in joined \cup revoked THEN present
                  ELSE [present EXCEPT ![IdOf[s]] = FreeNode]
    /\ UNCHANGED revoked

\* Whoever put it there.
LeavePresence(s) == present' = [present EXCEPT ![IdOf[s]] = 0]

----------------------------------------------------------------------------
(* Coming in. *)

\* tui.New: everyone but a new user is at the menu, and online, at once.
Starts(s) ==
    /\ phase' = [phase EXCEPT ![s] = "on"]
    /\ age' = [age EXCEPT ![s] = 0]
    /\ warned' = [warned EXCEPT ![s] = 0]
    /\ timer' = [timer EXCEPT ![s] = WatchTimeLimit(s, 0, 0)]
    /\ IF who[s] = "signup" THEN UNCHANGED shown ELSE Join(s)

SSHConnects(s) ==
    /\ FrontOf[s] = "ssh" /\ phase[s] = "off"
    /\ Starts(s)
    /\ UNCHANGED <<who, pending, open, entry>>

\* At the cap a connection is told so and closed.
TelnetConnects(s) ==
    /\ FrontOf[s] = "telnet" /\ phase[s] = "off"
    /\ Cardinality(OnFront("telnet")) < MaxTelnet
    /\ Starts(s)
    /\ UNCHANGED <<who, pending, open, entry>>

Expired(e) ==
    \/ Ttl > 0 /\ e.age >= Ttl
    \/ LET bound == IF e.open /\ UnlockedIdle > 0 /\ UnlockedIdle < IdleMax
                    THEN UnlockedIdle ELSE IdleMax
       IN  bound > 0 /\ e.quiet >= bound

Swept == [i \in Id |-> IF Expired(entry[i]) THEN NoEntry ELSE entry[i]]
Entries(table) == {i \in Id : table[i] # NoEntry}

\* The sign-in itself is in SignIn.  Its ID is new: nobody is on the line under it.
WebSignsIn(i) ==
    /\ \A s \in Call : IdOf[s] = i => FrontOf[s] = "web" /\ ~LiveCall(s)
    /\ Swept[i] = NoEntry
    /\ MaxWeb > 0 => Cardinality(Entries(Swept)) < MaxWeb
    /\ LET mine == {j \in Entries(Swept) : AccountOf[j] = AccountOf[i]}
       IN  MaxPerUser > 0 => Cardinality(mine) < MaxPerUser
    /\ entry' = [Swept EXCEPT ![i] = [age |-> 0, quiet |-> 0, open |-> FALSE]]
    /\ UNCHANGED <<phase, who, times, pending, open, shown>>

\* handleWS looks the session up, which counts as activity, and starts a Driver,
\* whether or not another tab of the browser has one.
WebOpens(s) ==
    /\ FrontOf[s] = "web" /\ ~LiveCall(s) /\ Swept[IdOf[s]] # NoEntry
    /\ entry' = [Swept EXCEPT ![IdOf[s]].quiet = 0]
    /\ Starts(s)
    /\ open' = open \ {s}
    /\ UNCHANGED <<who, pending>>

\* Sign-out forgets the entry; open tabs go on.
WebSignsOut(i) ==
    /\ entry[i] # NoEntry
    /\ entry' = [entry EXCEPT ![i] = NoEntry]
    /\ UNCHANGED <<phase, who, times, pending, open, shown>>

----------------------------------------------------------------------------
(* During the call. *)

\* A key that runs a command which ends in a result.  The web tells the session
\* entry, if it is still there, whether mail is unlocked; it counts no activity.
Presses(s, cmd) ==
    /\ phase[s] = "on"
    /\ cmd = "signup" <=> who[s] = "signup"
    /\ cmd = "unlock" => who[s] # "guest"
    /\ pending' = [pending EXCEPT ![s] = @ \cup {cmd}]
    /\ entry' = IF entry[IdOf[s]] = NoEntry THEN entry
                ELSE [entry EXCEPT ![IdOf[s]].open = s \in open]
    /\ UNCHANGED <<phase, who, times, open, shown>>

\* Applied even when the model has left already.
UnlockedArrives(s) ==
    /\ LiveCall(s) /\ "unlock" \in pending[s]
    /\ pending' = [pending EXCEPT ![s] = @ \ {"unlock"}]
    /\ open' = open \cup {s}
    /\ UNCHANGED <<phase, who, times, shown, entry>>

SignupDone(s) ==
    /\ LiveCall(s) /\ "signup" \in pending[s]
    /\ pending' = [pending EXCEPT ![s] = @ \ {"signup"}]
    /\ who' = [who EXCEPT ![s] = "user"]
    /\ open' = open \cup {s}
    /\ Join(s)
    /\ UNCHANGED <<phase, times, entry>>

\* Model.leave: the passphrase is dropped and who is online is told.
Leave(s) ==
    /\ phase' = [phase EXCEPT ![s] = "quitting"]
    /\ open' = open \ {s}
    /\ IF s \in joined THEN LeavePresence(s) ELSE UNCHANGED present
    \* sessionPresence.Leave: no joining after this
    /\ revoked' = IF s \in joined /\ FrontOf[s] # "web" THEN revoked \cup {s} ELSE revoked
    /\ UNCHANGED joined

Quits(s) ==
    /\ phase[s] = "on"
    /\ Leave(s)
    /\ UNCHANGED <<who, times, pending, entry>>

\* Mutant: after a warning nobody watches the clock any more.
RearmedNever(s) == [timer EXCEPT ![s] = Unarmed]

Rearmed(s) == [timer EXCEPT ![s] = WatchTimeLimit(s, age[s], warned'[s])]

\* enforceTimeLimit: a goodbye at the end, else perhaps a warning, and the
\* clock is watched again.
TimeCheck(s) ==
    LET left == Remaining(age[s])
        due  == {w \in Warnings : (warned[s] # 0 => w < warned[s]) /\ left =< w}
    IN  /\ LiveCall(s) /\ timer[s] = 0
        /\ UNCHANGED <<who, age, pending, entry>>
        /\ IF ~TimeLimited(s)
           THEN timer' = [timer EXCEPT ![s] = Unarmed] /\ UNCHANGED <<phase, warned, open, shown>>
           ELSE IF left = 0
                THEN timer' = [timer EXCEPT ![s] = Unarmed] /\ Leave(s) /\ UNCHANGED warned
                ELSE /\ warned' = [warned EXCEPT ![s] = IF due = {} THEN @ ELSE Max(due)]
                     /\ timer' = Rearmed(s)
                     /\ UNCHANGED <<phase, open, shown>>

----------------------------------------------------------------------------
(* The end. *)

\* Mutant: leaving is left to the model.
TeardownTrusting(s) == UNCHANGED <<revoked, present>>

\* The deferred sessionPresence.Leave of the SSH and telnet handlers.
Teardown(s) == revoked' = revoked \cup {s} /\ LeavePresence(s)

\* What a closed call would still do or be told is dropped.
Forgets(s) ==
    /\ timer' = [timer EXCEPT ![s] = Unarmed] /\ warned' = [warned EXCEPT ![s] = 0]
    /\ age' = [age EXCEPT ![s] = 0]
    /\ pending' = [pending EXCEPT ![s] = {}]

\* The program is gone: after a goodbye, or because the connection is.
ProgramEnds(s) ==
    /\ FrontOf[s] # "web" /\ LiveCall(s)
    /\ phase' = [phase EXCEPT ![s] = "over"]
    /\ Forgets(s)
    /\ Teardown(s)
    /\ UNCHANGED <<who, open, joined, entry>>

\* Driver.Close: after a goodbye the model has left already; otherwise, when
\* the socket is gone, it leaves now.  The browser may open another tab.
DriverCloses(s) ==
    /\ FrontOf[s] = "web" /\ LiveCall(s)
    /\ phase' = [phase EXCEPT ![s] = "off"]
    /\ Forgets(s)
    /\ IF phase[s] = "on"
       THEN open' = open \ {s} /\ LeavePresence(s)
       ELSE UNCHANGED <<open, present>>
    /\ joined' = joined \ {s}
    /\ UNCHANGED <<who, revoked, entry>>

\* The driver or the program is closed once the model has left.
Finishes(s) == phase[s] = "quitting" /\ (ProgramEnds(s) \/ DriverCloses(s))

Later(n) == IF n < Longest THEN n + 1 ELSE n

Tick ==
    /\ age' = [s \in Call |-> IF LiveCall(s) /\ TimeLimited(s) THEN Later(age[s]) ELSE 0]
    /\ timer' = [s \in Call |-> IF timer[s] > 0 THEN timer[s] - 1 ELSE timer[s]]
    /\ entry' = [i \in Id |-> IF entry[i] = NoEntry THEN NoEntry
                              ELSE [entry[i] EXCEPT !.age = IF Ttl > 0 THEN Later(@) ELSE 0,
                                                      !.quiet = Later(@)]]
    /\ UNCHANGED <<phase, who, warned, pending, open, shown>>

SessNext ==
    \/ Tick
    \/ \E i \in Id : WebSignsIn(i) \/ WebSignsOut(i)
    \/ \E s \in Call :
          \/ SSHConnects(s) \/ TelnetConnects(s) \/ WebOpens(s)
          \/ \E cmd \in {"unlock", "signup"} : Presses(s, cmd)
          \/ UnlockedArrives(s) \/ SignupDone(s) \/ Quits(s) \/ TimeCheck(s)
          \/ ProgramEnds(s) \/ DriverCloses(s)

----------------------------------------------------------------------------
(* Properties. *)

\* Nobody shares a session ID with the call.
HasOwnId(s) == \A t \in Call \ {s} : IdOf[t] # IdOf[s]

\* Who's Online tells the truth, in whatever order calls come, quit, drop, open
\* further tabs and have late results applied: an ID that is shown has somebody on
\* the line, no two are shown under one node number, and whoever has joined is
\* shown while at the keys, if no other tab or channel takes the ID's row away
\* (sessionPresence, Presence.Join, Model.join and leave, Driver.Close).
NoGhosts ==
    /\ \A i \in Id : present[i] # 0 => \E s \in Call : IdOf[s] = i /\ LiveCall(s)
    /\ \A i, j \in Id : i # j /\ present[i] # 0 => present[i] # present[j]
    /\ \A s \in joined : phase[s] = "on" /\ HasOwnId(s) => present[IdOf[s]] # 0

\* "One WebSocket per signed-in browser" (ws.go 17): whoever is at the keys is
\* shown.  Nothing keeps a second tab from opening, and the first of two that
\* closes takes the row of both.
EveryTabIsShown == \A s \in joined : phase[s] = "on" => present[IdOf[s]] # 0

\* A caller with a limit is off the line in the end, whatever the caller does
\* (timelimit.go).
TimeIsUp == \A s \in Call : phase[s] = "on" /\ TimeLimited(s) ~> ~LiveCall(s)

\* "A limit implemented in the SSH listener would not apply over telnet"
\* (timelimit.go 14-15); "SessionLimit ends a session after this long"
\* (telnet.go): every caller but the sysop.
EveryFrontIsLimited == \A s \in Call : phase[s] = "on" /\ who[s] # "sysop" ~> ~LiveCall(s)

=============================================================================
