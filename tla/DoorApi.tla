------------------------------ MODULE DoorApi ------------------------------
(***************************************************************************)
(* What a running door may do through its API (door/api.go, the host side  *)
(* in bbs/doorhost.go, and store/doors.go).  Every invocation acts under   *)
(* the grant it was launched with; the hourly limits and the saved state   *)
(* belong to the door and are shared by its invocations.                   *)
(*                                                                         *)
(* One door.  A grant is its level and its quota; the area it announces in *)
(* is local or federated as the sysop says.  League events go on in        *)
(* DoorEvents.                                                             *)
(***************************************************************************)
EXTENDS Integers, FiniteSets
LOCAL INSTANCE FiniteSetsExt

CONSTANTS Inv,        \* invocations
          Nicks,      \* players; Guest has no account
          Guest,
          Grants,     \* the grants a sysop may give, [level, quota]
          PerHour,    \* AnnouncePerHour and LeaguePerHour
          Hour, End,  \* an hour in ticks; bound: the clock
          StateKeys, Sizes

NoDoor == [level |-> 0, quota |-> 0]

ASSUME DoorApiAssumption ==
    /\ PerHour \in Nat /\ Hour \in Nat \ {0} /\ End \in Nat
    /\ Guest \in Nicks /\ NoDoor \notin Grants

VARIABLES
    row,        \* table doors: the grant, or NoDoor
    inv,        \* [Inv -> [at, nick, grant]]
    local,      \* the announce area is not federated
    spaced,     \* [Bucket -> turns not yet forgotten], Manager.announces and leagueEmits
    granted,    \* [Bucket -> every turn taken, numbered] (history)
    saved,      \* table door_state: a set of [owner, key, size]
    notices,    \* table door_notices
    tm

apiVars == <<row, inv, local, spaced, granted, saved, notices, tm>>

Bucket == {"announce", "league"}
Off == [at |-> "off", nick |-> Guest, grant |-> NoDoor]

ApiInit ==
    /\ row = NoDoor /\ inv = [i \in Inv |-> Off] /\ local = TRUE
    /\ spaced = [b \in Bucket |-> {}] /\ granted = [b \in Bucket |-> {}]
    /\ saved = {} /\ notices = {} /\ tm = 0

----------------------------------------------------------------------------
(* The sysop. *)

\* Installs, changes or disables; what runs keeps the grant it has.
PutDoor(g) ==
    /\ row' = g
    /\ UNCHANGED <<inv, local, spaced, granted, saved, notices, tm>>

\* "Along with every saved game and high score"; not the notices.
DeleteDoor ==
    /\ row # NoDoor
    /\ row' = NoDoor
    /\ saved' = {}
    /\ UNCHANGED <<inv, local, spaced, granted, notices, tm>>

SetLocal ==
    /\ local' = ~local
    /\ UNCHANGED <<row, inv, spaced, granted, saved, notices, tm>>

----------------------------------------------------------------------------
(* Invocations. *)

Invoke(i, n) ==
    /\ inv[i].at = "off" /\ row # NoDoor
    /\ inv' = [inv EXCEPT ![i] = [at |-> "on", nick |-> n, grant |-> row]]
    /\ UNCHANGED <<row, local, spaced, granted, saved, notices, tm>>

Finish(i) ==
    /\ inv[i].at = "on"
    /\ inv' = [inv EXCEPT ![i] = Off]
    /\ UNCHANGED <<row, local, spaced, granted, saved, notices, tm>>

\* dispatch: greeted, and at a level that includes the operation.
May(i, level) == inv[i].at = "on" /\ inv[i].grant.level >= level

\* A user's state is its own; the shared state is everybody's.
Owner(i, scope) == IF scope = "global" THEN "everybody" ELSE inv[i].nick

SumOf(set) == FoldSet(LAMBDA e, n : n + e.size, 0, set)

\* door_state references the door.
DoorThere == row # NoDoor

\* What the entry replaces does not count against the quota.
StateSet(i, scope, k, size) ==
    LET rest == {e \in saved : ~(e.owner = Owner(i, scope) /\ e.key = k)}
    IN  /\ May(i, 2) /\ Owner(i, scope) # Guest /\ DoorThere
        /\ SumOf(rest) + size =< inv[i].grant.quota
        /\ saved' = rest \cup {[owner |-> Owner(i, scope), key |-> k, size |-> size]}
        /\ UNCHANGED <<row, inv, local, spaced, granted, notices, tm>>

StateDelete(i, scope, k) ==
    /\ May(i, 2) /\ Owner(i, scope) # Guest
    /\ saved' = {e \in saved : ~(e.owner = Owner(i, scope) /\ e.key = k)}
    /\ UNCHANGED <<row, inv, local, spaced, granted, notices, tm>>

----------------------------------------------------------------------------
(* Hourly limits. *)

\* Mutant: an entry is forgotten a tick early.
RecentEarly(t) == tm - t < Hour - 1

Recent(t) == tm - t < Hour

\* allowPerHour: forget what is old, count the rest, and take the turn.
Allow(b) ==
    LET kept == {turn \in spaced[b] : Recent(turn.at)}
        next == [number |-> Cardinality(granted[b]) + 1, at |-> tm]
    IN  IF Cardinality(kept) >= PerHour
        THEN spaced' = [spaced EXCEPT ![b] = kept] /\ UNCHANGED granted
        ELSE /\ spaced' = [spaced EXCEPT ![b] = kept \cup {next}]
             /\ granted' = [granted EXCEPT ![b] = @ \cup {next}]

Allowed(b) == granted'[b] # granted[b]

\* The area is looked up, then the turn is taken; the post comes after both.
AnnounceAsks(i) ==
    /\ May(i, 3) /\ local
    /\ Allow("announce")
    /\ inv' = [inv EXCEPT ![i].at = IF Allowed("announce") THEN "announcing" ELSE @]
    /\ UNCHANGED <<row, local, saved, notices, tm>>

AnnouncePosts(i) ==
    /\ inv[i].at = "announcing"
    /\ inv' = [inv EXCEPT ![i].at = "on"]
    /\ UNCHANGED <<row, local, spaced, granted, saved, notices, tm>>

\* A turn is spent before the league is known to exist.
EventEmit(i) ==
    /\ May(i, 3) /\ inv[i].nick # Guest
    /\ Allow("league")
    /\ notices' = IF Allowed("league") THEN notices \cup {inv[i].nick} ELSE notices
    /\ UNCHANGED <<row, inv, local, saved, tm>>

\* A post or a mail as the player, which is audited if it can be; the first time,
\* the player is told.
ActAsUser(i) ==
    /\ May(i, 4) /\ inv[i].nick # Guest
    /\ notices' = notices \cup {inv[i].nick}
    /\ UNCHANGED <<row, inv, local, spaced, granted, saved, tm>>

ApiTick ==
    /\ tm < End
    /\ tm' = tm + 1
    /\ UNCHANGED <<row, inv, local, spaced, granted, saved, notices>>

ApiNext ==
    \/ \E g \in Grants : PutDoor(g)
    \/ DeleteDoor \/ SetLocal \/ ApiTick
    \/ \E i \in Inv :
          \/ \E n \in Nicks : Invoke(i, n)
          \/ Finish(i) \/ AnnounceAsks(i) \/ AnnouncePosts(i) \/ EventEmit(i) \/ ActAsUser(i)
          \/ \E scope \in {"user", "global"}, k \in StateKeys :
                StateDelete(i, scope, k) \/ \E size \in Sizes : StateSet(i, scope, k, size)

----------------------------------------------------------------------------
(* Properties. *)

\* No hour holds more turns than the door has, whatever hour one takes and
\* however many invocations take them, across launches and changes of the
\* grant (allowPerHour).
HourlyLimit ==
    \A b \in Bucket : \A t \in 0 .. tm :
       Cardinality({turn \in granted[b] : turn.at \in t .. t + Hour - 1}) =< PerHour

\* A door that was removed leaves nothing behind, although an invocation of it
\* may still be running and saving (DeleteDoor, DoorStateSet).
StateHasADoor == saved # {} => row # NoDoor

\* What the interface holds to while doors are changed and removed under their
\* invocations.
ApiHolds == HourlyLimit /\ StateHasADoor

=============================================================================
