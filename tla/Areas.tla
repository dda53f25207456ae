------------------------------- MODULE Areas -------------------------------
(***************************************************************************)
(* The areas of a board (internal/store/forum.go), the commands that make  *)
(* and change them while it runs (internal/cli/area.go), posting           *)
(* (internal/bbs/bbs.go), and the federation's copies of what the table    *)
(* says: the lists of the gossip store (internal/store/gossipstore.go) and *)
(* the governor's shares, taken on the loop's tick                         *)
(* (internal/cli/mesh_serve.go).                                           *)
(*                                                                         *)
(* A command is a process of its own, so its statements interleave with    *)
(* the board's.  An area's tag stands for its name.  A record is a post, a *)
(* door event or a catalog entry; its text is the pair of its author and   *)
(* its subject, and a subject longer than the limit is refused.            *)
(***************************************************************************)
EXTENDS Integers, FiniteSets
LOCAL INSTANCE FiniteSetsExt

CONSTANTS AreaName,     \* valid area names, among them the reserved ones
          ReservedName, \* names whose tag is the roster's, the directory's or mail's
          Starters,     \* the areas a new board starts with
          Kind,         \* kinds of area the sysop makes
          Fraction,     \* shares that are set, in percent
          Command,      \* "area share" commands that may run at once
          Author,       \* who posts
          Subjects,     \* the lengths of a subject
          SubjectLimit, \* 72 bytes
          MaxRecords    \* bound: records in the log

ASSUME AreasAssumption ==
    /\ ReservedName \subseteq AreaName /\ Starters \subseteq AreaName \ ReservedName
    /\ Kind \subseteq {"message", "file", "door"}
    /\ Fraction \subseteq 0 .. 100 /\ Subjects \subseteq Nat /\ SubjectLimit \in Nat

VARIABLES
    areas,      \* the table: name -> [kind, federated, share]
    log,        \* records: [name, type, author, subject, local]
    authored,   \* post_authors: record -> [author, subject]
    accounts,   \* authors with an account
    trusted,    \* of them, those with the post_federated capability
    setting,    \* setting[c]: a share checked and not yet written, or none
    posting,    \* posting[u]: a post on its way, or none
    carried,    \* the gossip store's lists: name -> kind, federated areas only
    governed,   \* the governor's shares: name -> percent
    ticking,    \* the loop is between the two refreshes of a tick
    onAir       \* history: records published

areaVars == <<areas, log, authored, accounts, trusted, setting, posting, carried, governed, ticking, onAir>>

people == <<accounts, trusted>>
table == <<areas, people, setting>>
forum == <<log, authored, posting, onAir>>
copies == <<carried, governed, ticking>>

Empty == [x \in {} |-> {}]
None == [at |-> "none"]

There(n) == n \in DOMAIN areas
Federating == {n \in DOMAIN areas : areas[n].federated}

\* SeedDefaultAreas: a name in use, whatever it is used for, is left alone.
Seeded(rows) ==
    [n \in DOMAIN rows \cup Starters |->
       IF n \in DOMAIN rows THEN rows[n] ELSE [kind |-> "message", federated |-> FALSE, share |-> 0]]

\* init has run.
AreasInit ==
    /\ areas = Seeded(Empty) /\ log = {} /\ authored = Empty /\ accounts = {} /\ trusted = {}
    /\ setting = [c \in Command |-> None] /\ posting = [u \in Author |-> None]
    /\ carried = Empty /\ governed = Empty /\ ticking = FALSE /\ onAir = {}

----------------------------------------------------------------------------
(* The sysop: area create, federate, share; user grant. *)

CreateArea(n, kind, federated) ==
    /\ n \notin ReservedName /\ ~There(n)
    /\ areas' = [x \in DOMAIN areas \cup {n} |->
                   IF x = n THEN [kind |-> kind, federated |-> federated, share |-> 0] ELSE areas[x]]
    /\ UNCHANGED <<people, setting, forum, copies>>

SetAreaFederated(n, federated) ==
    /\ There(n)
    /\ areas' = [areas EXCEPT ![n].federated = federated]
    /\ UNCHANGED <<people, setting, forum, copies>>

TotalShare(names) == MapThenSumSet(LAMBDA n : areas[n].share, names)

\* SetAreaShare reads the area and the other federated shares, and refuses a
\* share that does not fit.
FitsBudget(n, share) ==
    share > 0 /\ areas[n].federated => TotalShare(Federating \ {n}) + share =< 100

CheckShare(c, n, share) ==
    /\ setting[c] = None
    /\ There(n) /\ FitsBudget(n, share)
    /\ setting' = [setting EXCEPT ![c] = [at |-> "write", name |-> n, share |-> share]]
    /\ UNCHANGED <<areas, people, forum, copies>>

WriteShare(c) ==
    /\ setting[c] # None
    /\ areas' = [areas EXCEPT ![setting[c].name].share = setting[c].share]
    /\ setting' = [setting EXCEPT ![c] = None]
    /\ UNCHANGED <<people, forum, copies>>

\* An account starts with the default capabilities, a sysop's with this one.
UserAdd(u, sysop) ==
    /\ u \notin accounts
    /\ accounts' = accounts \cup {u}
    /\ trusted' = IF sysop THEN trusted \cup {u} ELSE trusted
    /\ UNCHANGED <<areas, setting, forum, copies>>

GrantCapability(u) ==
    /\ u \in accounts
    /\ trusted' = trusted \cup {u}
    /\ UNCHANGED <<areas, accounts, setting, forum, copies>>

RevokeCapability(u) ==
    /\ u \in accounts
    /\ trusted' = trusted \ {u}
    /\ UNCHANGED <<areas, accounts, setting, forum, copies>>

UserAddCmd(u) == \E sysop \in BOOLEAN : UserAdd(u, sysop)

AreaCreateCmd ==
    \E n \in AreaName, kind \in Kind, federated \in BOOLEAN : CreateArea(n, kind, federated)

AreaFederateCmd == \E n \in AreaName, off \in BOOLEAN : SetAreaFederated(n, ~off)

AreaShareCmd(c) == \E n \in AreaName, share \in Fraction : CheckShare(c, n, share)

----------------------------------------------------------------------------
(* Service.Post: the area is read once, the record stored, indexed and, if *)
(* the area federated, published.                                          *)

\* MarshalPostBody.
BodyFits(subject) == subject =< SubjectLimit

HasCapability(u) == u \in accounts /\ u \in trusted

StartPost(u, n, subject) ==
    /\ posting[u] = None
    /\ There(n) /\ areas[n].kind = "message"
    /\ areas[n].federated => HasCapability(u)
    /\ BodyFits(subject)
    /\ posting' = [posting EXCEPT ![u] =
          [at |-> "store", federated |-> areas[n].federated,
           record |-> [name |-> n, type |-> "post", author |-> u, subject |-> subject, local |-> TRUE]]]
    /\ UNCHANGED <<table, log, authored, onAir, copies>>

StorePost(u) ==
    /\ posting[u].at = "store"
    /\ Cardinality(log) < MaxRecords
    /\ log' = log \cup {posting[u].record}
    /\ posting' = [posting EXCEPT ![u].at = "index"]
    /\ UNCHANGED <<table, authored, onAir, copies>>

\* post_authors has a row for the record.
Indexed(rec) == rec \in DOMAIN authored

IndexPost(u) ==
    /\ posting[u].at = "index"
    /\ LET rec == posting[u].record
       IN  authored' = [x \in DOMAIN authored \cup {rec} |->
                          IF Indexed(x) THEN authored[x]
                          ELSE [author |-> rec.author, subject |-> rec.subject]]
    /\ posting' = [posting EXCEPT ![u] = IF @.federated THEN [@ EXCEPT !.at = "publish"] ELSE None]
    /\ UNCHANGED <<table, log, onAir, copies>>

PublishPost(u) ==
    /\ posting[u].at = "publish"
    /\ onAir' = onAir \cup {posting[u].record}
    /\ posting' = [posting EXCEPT ![u] = None]
    /\ UNCHANGED <<table, log, authored, copies>>

\* A post that fails in the middle, or whose process dies.
PostFails(u) ==
    /\ posting[u].at \in {"store", "index"}
    /\ posting' = [posting EXCEPT ![u] = None]
    /\ UNCHANGED <<table, log, authored, onAir, copies>>

----------------------------------------------------------------------------
(* ListPosts: the index first, the record's own body where it has none. *)

\* Mutant: a post without an index row is shown without its author.
ListedIndexedOnly(rec) ==
    IF Indexed(rec) THEN authored[rec] ELSE [author |-> "nobody", subject |-> 0]

Listed(rec) ==
    IF Indexed(rec) THEN authored[rec] ELSE [author |-> rec.author, subject |-> rec.subject]

ListPosts(n) ==
    IF There(n) /\ areas[n].kind = "message"
    THEN {[record |-> rec, shown |-> Listed(rec)] : rec \in {r \in log : r.name = n /\ r.type = "post"}}
    ELSE {}

----------------------------------------------------------------------------
(* The federation loop. *)

\* Apply: a league takes door events and nothing else does, by the copy of
\* the table the store holds.
League(n) == n \in DOMAIN carried /\ carried[n] = "door"

HearRecord(n, type, who) ==
    LET rec == [name |-> n, type |-> type, author |-> who, subject |-> 0, local |-> FALSE]
    IN  /\ (type = "event") = League(n)
        /\ rec \notin log /\ Cardinality(log) < MaxRecords
        /\ log' = log \cup {rec}
        /\ UNCHANGED <<table, authored, posting, onAir, copies>>

\* Refresh: the federated areas and their kinds.
CarriedNow == [n \in Federating |-> areas[n].kind]

RefreshAreas ==
    /\ ~ticking
    /\ carried' = CarriedNow \/ UNCHANGED carried
    /\ ticking' = TRUE
    /\ UNCHANGED <<table, forum, governed>>

\* AreaShares, and SetAreaShares of what it found.
SharesNow == [n \in {x \in Federating : areas[x].share > 0} |-> areas[n].share]

RefreshShares ==
    /\ ticking
    /\ governed' = SharesNow \/ UNCHANGED governed
    /\ ticking' = FALSE
    /\ UNCHANGED <<table, forum, carried>>

\* The board restarts: what is on its way is gone, and the lists are read
\* anew before the loop runs.
RestartBoard ==
    /\ areas' = Seeded(areas)
    /\ posting' = [u \in Author |-> None]
    /\ carried' = CarriedNow
    /\ governed' = SharesNow
    /\ ticking' = FALSE
    /\ UNCHANGED <<people, setting, log, authored, onAir>>

AreasNext ==
    \/ AreaCreateCmd \/ AreaFederateCmd
    \/ \E c \in Command : AreaShareCmd(c) \/ WriteShare(c)
    \/ \E u \in Author :
          \/ UserAddCmd(u) \/ GrantCapability(u) \/ RevokeCapability(u)
          \/ \E n \in AreaName, subject \in Subjects : StartPost(u, n, subject)
          \/ StorePost(u) \/ IndexPost(u) \/ PublishPost(u) \/ PostFails(u)
          \/ \E n \in AreaName, type \in {"post", "event"} : HearRecord(n, type, u)
    \/ RefreshAreas \/ RefreshShares \/ RestartBoard

----------------------------------------------------------------------------
(* Properties. *)

\* A post reads the same whether it was written here or heard, and wherever
\* its writing stopped (IndexPost, ListPosts): it is listed with the author
\* and the subject it was signed with.
ListedAsSigned ==
    \A n \in AreaName : \A post \in ListPosts(n) :
       post.shown = [author |-> post.record.author, subject |-> post.record.subject]

\* The shares of the federated areas fit the whole budget.
SharesFitTheBudget == TotalShare(Federating) =< 100

\* A league holds door events and nothing else, and nothing else holds them.
LeaguesCarryEvents ==
    \A rec \in log : There(rec.name) => (rec.type = "event") = (areas[rec.name].kind = "door")

=============================================================================
