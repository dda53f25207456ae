---------------------------- MODULE Directories ----------------------------
(***************************************************************************)
(* What one board knows of the others' nodes and users.                    *)
(*                                                                         *)
(* Nodes: the roster learned from NODE records (store/nodes.go,            *)
(* record/node.go) and the registry of key rotations (internal/succession).*)
(* A node's identifier is its key, so a rotation is a record by the old    *)
(* key that names the new identifier; the registry follows it without      *)
(* asking.  A signature is modelled by whether it was made with the        *)
(* origin's key.  Records arrive in any order and any number of times.     *)
(*                                                                         *)
(* Users: the publishing policy of their board (internal/profile), the     *)
(* PROFILE records it writes (record/profile.go), and the directory        *)
(* another board assembles from the ones that reach it.                    *)
(***************************************************************************)
EXTENDS Integers, Sequences, FiniteSets
LOCAL INSTANCE FiniteSetsExt

CONSTANTS Id,        \* identity.NodeID
          MaxChain,
          Window,    \* how far from now a rotation's date may be
          Horizon,   \* bound: the clock
          Incs,      \* incarnations
          NoId,
          User,
          MaxProfiles   \* bound: PROFILE records written

ASSUME SuccessionAssumption ==
    /\ MaxChain \in Nat \ {0} /\ Window \in Nat /\ Horizon \in Nat
    /\ NoId \notin Id

VARIABLES
    nodes,   \* [Id -> [inc, name]], table nodes; the name is the incarnation that chose it
    keys,    \* Registry.keys: identifiers whose key is known
    hops,    \* Registry.byPredecessor: [Id -> [to, at]]
    clk,     \* Registry.clk
    heard    \* the kind of the last Event

succVars == <<nodes, keys, hops, clk, heard>>

NoHop == [to |-> NoId, at |-> 0]
Unknown == [inc |-> 0, name |-> 0]

SuccInit ==
    /\ nodes = [n \in Id |-> Unknown]
    /\ keys = {} /\ hops = [n \in Id |-> NoHop] /\ clk = 0 /\ heard = "none"

----------------------------------------------------------------------------
(* The roster. *)

\* VerifyNodeRecord: the key in the record must be the origin's and have signed
\* it.  A later arrival sets the name, whichever incarnation it is from.
PutNodeFromRecord(n, inc, signed) ==
    /\ signed
    /\ nodes' = [nodes EXCEPT ![n] = [inc |-> IF @.inc > inc THEN @.inc ELSE inc, name |-> inc]]
    /\ UNCHANGED <<keys, hops, clk, heard>>

LearnKey(n) ==
    /\ nodes[n] # Unknown
    /\ keys' = keys \cup {n}
    /\ UNCHANGED <<nodes, hops, clk, heard>>

----------------------------------------------------------------------------
(* Chains. *)

\* Where k hops lead from n, stopping where nothing is recorded.
Walk(n, k) ==
    LET w[i \in 0 .. k] == IF i = 0 THEN n
                           ELSE IF hops[w[i - 1]].to = NoId THEN w[i - 1]
                           ELSE hops[w[i - 1]].to
    IN  w[k]

\* Mutant: only the hop that would close the circle at once.
ReachesNow(m, n) == m = n \/ hops[m].to = n

Reaches(m, n) == \E i \in 0 .. MaxChain : Walk(m, i) = n

\* The most hops that lead to n.
ChainLen(n) ==
    Max({0} \cup {i \in 0 .. MaxChain :
                     \E p \in Id : /\ hops[p].to # NoId /\ Walk(p, i) = n
                                   /\ \A j \in 0 .. i - 1 : Walk(p, j) # n})

Resolve(n) == Walk(n, MaxChain)

----------------------------------------------------------------------------
(* Rotations. *)

InWindow(at) == at - clk =< Window /\ clk - at =< Window

\* The guards of Offer, in its order; the last two against circles and long walks.
Verdict(o, s, at, signed) ==
    IF o \notin keys \/ ~signed \/ s = o THEN "refused"
    ELSE IF hops[o] = [to |-> s, at |-> at] THEN "duplicate"
    ELSE IF \/ hops[o] # NoHop \/ ~InWindow(at)
            \/ Reaches(s, o) \/ ChainLen(o) + 1 > MaxChain
         THEN "refused" ELSE "followed"

\* Every verdict is an Event; following also teaches the new key.
Offer(o, s, at, signed) ==
    LET v == Verdict(o, s, at, signed)
    IN  /\ heard' = v
        /\ hops' = IF v = "followed" THEN [hops EXCEPT ![o] = [to |-> s, at |-> at]] ELSE hops
        /\ keys' = IF v = "followed" THEN keys \cup {s} ELSE keys
        /\ UNCHANGED <<nodes, clk>>

SuccTick ==
    /\ clk < Horizon
    /\ clk' = clk + 1
    /\ UNCHANGED <<nodes, keys, hops, heard>>

SuccNext ==
    \/ \E n \in Id : LearnKey(n) \/ \E i \in Incs : PutNodeFromRecord(n, i, TRUE)
    \/ \E o, s \in Id, at \in 0 .. Horizon, signed \in BOOLEAN : Offer(o, s, at, signed)
    \/ SuccTick

----------------------------------------------------------------------------
(* Property of the nodes. *)

\* Resolve gives an identity that has not itself been handed on, whatever
\* rotations arrived and in whatever order, "normal on a mesh": callers route
\* to and store against what it returns.
ResolvesToCurrent == \A n \in Id : hops[Resolve(n)] = NoHop

----------------------------------------------------------------------------
(* Users who become visible to the network. *)

VARIABLES
    account,    \* [User -> [key, unlisted]]
    published,  \* Policy.published: [User -> "never", "listed" or "unlisted"]
    profiles,   \* the PROFILE records written, in order
    entries,    \* the other board's Directory
    willing     \* users who were listed at some federated act of theirs

profVars == <<account, published, profiles, entries, willing>>

ProfInit ==
    /\ account = [u \in User |-> [key |-> FALSE, unlisted |-> FALSE]]
    /\ published = [u \in User |-> "never"]
    /\ profiles = <<>> /\ entries = {} /\ willing = {}

----------------------------------------------------------------------------
\* The user makes a DM key, opts out, or opts in again.
SetAccount(u, a) ==
    /\ account' = [account EXCEPT ![u] = a]
    /\ UNCHANGED <<published, profiles, entries, willing>>

Flags(u) == IF account[u].unlisted THEN "unlisted" ELSE "listed"

\* Reading and registering say nothing; nor does a user who was never announced
\* and does not want to be; a change of mind is published once.
Publishes(u, trigger) ==
    /\ account[u].key /\ trigger # "none"
    /\ ~(account[u].unlisted /\ published[u] = "never")
    /\ published[u] # Flags(u)

Trigger == {"none", "post", "dm", "request"}

Consider(u, trigger) ==
    /\ Len(profiles) < MaxProfiles
    /\ IF Publishes(u, trigger)
       THEN /\ published' = [published EXCEPT ![u] = Flags(u)]
            /\ profiles' = Append(profiles, [user |-> u, flags |-> Flags(u)])
       ELSE UNCHANGED <<published, profiles>>
    /\ willing' = IF trigger # "none" /\ ~account[u].unlisted THEN willing \cup {u} ELSE willing
    /\ UNCHANGED <<account, entries>>

\* The account is deleted; a tombstone is due for what was published.
Forget(u) ==
    /\ account' = [account EXCEPT ![u] = [key |-> FALSE, unlisted |-> FALSE]]
    /\ published' = [published EXCEPT ![u] = "never"]
    /\ UNCHANGED <<profiles, entries, willing>>

\* Directory.Add: records come in any order and more than once.
AddEntry(i) ==
    /\ entries' = IF profiles[i].flags = "unlisted" THEN entries \ {profiles[i].user}
                                                    ELSE entries \cup {profiles[i].user}
    /\ UNCHANGED <<account, published, profiles, willing>>

ProfNext ==
    \/ \E u \in User :
          \/ Forget(u)
          \/ \E t \in Trigger : Consider(u, t)
          \/ \E a \in [key : BOOLEAN, unlisted : BOOLEAN] : SetAccount(u, a)
    \/ \E i \in DOMAIN profiles : AddEntry(i)

----------------------------------------------------------------------------
(* Property of the users. *)

\* The network never hears of a user who did nothing federated while listed,
\* whatever they change afterwards (Consider): no record names them, an opt-out
\* included, and so no directory does.
OnlyTheWilling ==
    /\ \A i \in DOMAIN profiles : profiles[i].user \in willing
    /\ entries \subseteq willing

=============================================================================
