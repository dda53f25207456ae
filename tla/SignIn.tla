------------------------------- MODULE SignIn -------------------------------
(***************************************************************************)
(* Signing in to the web front end: the enrolment code a member gets over  *)
(* SSH, the ceremony that turns it into a passkey, the login ceremony that *)
(* uses the passkey, and the token buckets in front of all four handlers   *)
(* (webd/auth.go, limiter.go, session.go, user.go, store/webauthn.go).     *)
(*                                                                         *)
(* A code, a handle, a ceremony and a passkey are numbers, given once.     *)
(* What a browser and its authenticator do with a ceremony is external:    *)
(* they answer it, late, twice or never.  A request's origin is what the   *)
(* limiter makes of it, its address and the hops its header names.         *)
(***************************************************************************)
EXTENDS Integers, FiniteSets
LOCAL INSTANCE Sequences
LOCAL INSTANCE FiniteSetsExt

CONSTANTS Member,            \* accounts
          Barred,            \* the members who may not sign in
          Origins,           \* [remote, hops]: where requests come from
          Proxies, Garbage,  \* trusted addresses; hops that are no address
          Everyone,          \* the key of the instance-wide bucket
          PerHourAllowed,    \* attempts per hour and client, of either limiter
          GlobalFactor,      \* of the instance-wide allowance
          HourLength,        \* an hour, in ticks
          MaxBuckets,        \* buckets kept before a sweep
          CodeTTL, CeremonyTTL,
          LastTick, MaxCodes, MaxCeremonies, MaxRequests   \* bounds

ASSUME SignInAssumption ==
    /\ Barred \subseteq Member
    /\ HourLength \in Nat \ {0} /\ PerHourAllowed \in Nat \ {0} /\ GlobalFactor \in Nat \ {0}
    /\ CodeTTL \in Nat /\ CeremonyTTL \in Nat /\ LastTick \in Nat

Limiters == {"auth", "enrol"}
Clients == {o.remote : o \in Origins} \cup UNION {{o.hops[i] : i \in DOMAIN o.hops} : o \in Origins}
Keys == Clients \cup {Everyone}

VARIABLES
    tick,        \* the clock
    buckets,     \* [Limiters -> [some keys -> [tokens, last]]]
    passed,      \* [Limiters -> [Keys -> sequence of the ticks of allowed attempts]] (history)
    requests,    \* attempts so far
    webCode,     \* [Member -> set of at most one [id, expires]]
    codes,       \* codes issued so far
    handleOf,    \* [Member -> handle, 0 for none]
    handles,     \* handles generated so far
    enrolling,   \* redeemed codes whose ceremony is not stored yet
    ceremonies,  \* [id, nick, code, handle, expires]; nobody's nick for a login
    begun,       \* ceremonies so far
    passkeys,    \* [id, nick, handle, code, stored]
    stranded     \* handles a stale write replaced (history)

limitVars == <<buckets, passed, requests>>
codeVars == <<webCode, codes>>
keyVars == <<handleOf, handles, passkeys, stranded>>
ceremonyVars == <<ceremonies, begun>>
signInVars == <<tick, limitVars, codeVars, keyVars, ceremonyVars, enrolling>>

NoHandle == 0
Anybody == "anybody"

SignInInit ==
    /\ tick = 0
    /\ buckets = [l \in Limiters |-> << >>]
    /\ passed = [l \in Limiters |-> [k \in Keys |-> << >>]]
    /\ requests = 0
    /\ webCode = [m \in Member |-> {}] /\ codes = 0
    /\ handleOf = [m \in Member |-> NoHandle] /\ handles = 0
    /\ enrolling = {} /\ ceremonies = {} /\ begun = 0
    /\ passkeys = {} /\ stranded = {}

----------------------------------------------------------------------------
(* The limiter. *)

\* clientKey: the header counts only from a trusted proxy, read from the right
\* to the first hop that is neither trusted nor unreadable.
ClientKey(o) ==
    LET bad == {i \in DOMAIN o.hops : o.hops[i] \in Garbage}
        from == {i \in DOMAIN o.hops : o.hops[i] \notin Proxies /\ \A j \in bad : j < i}
    IN  IF o.remote \in Proxies /\ from # {} THEN o.hops[Max(from)] ELSE o.remote

Allowance(k) == IF k = Everyone THEN PerHourAllowed * GlobalFactor ELSE PerHourAllowed

\* A token is HourLength units, so that one tick refills a whole number of them.
Capacity(k) == Allowance(k) * HourLength
TokenPrice == HourLength

Refilled(k, b) ==
    LET more == b.tokens + (tick - b.last) * Allowance(k)
    IN  [tokens |-> IF more < Capacity(k) THEN more ELSE Capacity(k), last |-> tick]

\* sweepLocked: a bucket that is full again may be forgotten.
SweptBuckets(bs) ==
    IF Cardinality(DOMAIN bs) < MaxBuckets THEN bs
    ELSE [k \in {x \in DOMAIN bs : tick - bs[x].last < HourLength} |-> bs[k]]

\* The bucket of a key as allow() finds it.
Found(bs, k) ==
    IF k \in DOMAIN bs THEN bs
    ELSE [x \in DOMAIN SweptBuckets(bs) \cup {k} |->
            IF x = k THEN [tokens |-> Capacity(k), last |-> tick] ELSE bs[x]]

Affords(bs, k) == Refilled(k, Found(bs, k)[k]).tokens >= TokenPrice

Spent(bs, k) ==
    LET b == Refilled(k, Found(bs, k)[k])
        price == IF Affords(bs, k) THEN TokenPrice ELSE 0
    IN  [Found(bs, k) EXCEPT ![k] = [tokens |-> b.tokens - price, last |-> tick]]

\* rateLimited: the client's bucket, and the instance's only if that one paid.
Attempt(l, o) ==
    LET k == ClientKey(o)
        mine == Spent(buckets[l], k)
        paid == IF ~Affords(buckets[l], k) THEN {}
                ELSE {k} \cup (IF Affords(mine, Everyone) THEN {Everyone} ELSE {})
    IN  /\ requests < MaxRequests
        /\ requests' = requests + 1
        /\ buckets' = [buckets EXCEPT ![l] = IF k \in paid THEN Spent(mine, Everyone) ELSE mine]
        /\ passed' = [passed EXCEPT ![l] =
                        [x \in Keys |-> IF x \in paid THEN Append(@[x], tick) ELSE @[x]]]

Passes(l, o) ==
    LET k == ClientKey(o)
    IN  Affords(buckets[l], k) /\ Affords(Spent(buckets[l], k), Everyone)

\* A request over the limit, or without a code or a ceremony the server knows,
\* changes nothing but the buckets.
Refused(l, o) ==
    /\ Attempt(l, o)
    /\ UNCHANGED <<tick, codeVars, keyVars, ceremonyVars, enrolling>>

----------------------------------------------------------------------------
(* Codes and handles. *)

\* PutEnrolmentCode: one row an account; a new code replaces the one before.
PutCode(m, id) == [webCode EXCEPT ![m] = {[id |-> id, expires |-> tick + CodeTTL]}]

\* issueWebCode, over SSH.
IssueCode(m) ==
    /\ codes < MaxCodes
    /\ codes' = codes + 1
    /\ webCode' = PutCode(m, codes + 1)
    /\ UNCHANGED <<tick, limitVars, keyVars, ceremonyVars, enrolling>>

\* RedeemEnrolmentCode: the code is spent before anything is asked of it.
Redeem(m, c) == [webCode EXCEPT ![m] = {}]

\* EnrolBegin, to the point where the account's handle has been read.
EnrolBegin(o, m, c) ==
    /\ Attempt("enrol", o) /\ Passes("enrol", o)
    /\ c \in webCode[m]
    /\ webCode' = Redeem(m, c)
    /\ enrolling' = IF tick < c.expires /\ m \notin Barred
                    THEN enrolling \cup {[nick |-> m, code |-> c.id, saw |-> handleOf[m]]}
                    ELSE enrolling
    /\ UNCHANGED <<tick, codes, keyVars, ceremonyVars>>

\* EnsureWebAuthnHandle: an account without a handle gets one.
EnsureNeeded(saw) == saw = NoHandle

Ceremonies(nick, code, handle) ==
    /\ begun < MaxCeremonies
    /\ begun' = begun + 1
    /\ ceremonies' = {c \in ceremonies : tick < c.expires} \cup
                     {[id |-> begun + 1, nick |-> nick, code |-> code, handle |-> handle,
                       expires |-> tick + CeremonyTTL]}

\* The handle is written, if it was missing, and the ceremony is stored.
EnrolBegun(e) ==
    LET h == IF EnsureNeeded(e.saw) THEN handles + 1 ELSE e.saw
    IN  /\ e \in enrolling
        /\ enrolling' = enrolling \ {e}
        /\ IF EnsureNeeded(e.saw)
           THEN /\ handles' = handles + 1
                /\ handleOf' = [handleOf EXCEPT ![e.nick] = h]
                /\ stranded' = IF handleOf[e.nick] # e.saw
                               THEN stranded \cup {handleOf[e.nick]} ELSE stranded
           ELSE UNCHANGED <<handles, handleOf, stranded>>
        /\ Ceremonies(e.nick, e.code, h)
        /\ UNCHANGED <<tick, limitVars, codeVars, passkeys>>

\* Mutant: a ceremony can be answered again.
TakeKept(c) == ceremonies

\* Take: whoever asks first gets it.
Take(c) == {x \in ceremonies : tick < x.expires} \ {c}

\* The account a handle names, if any: UserByWebAuthnHandle.
Resolves(h) == {m \in Member : h # NoHandle /\ handleOf[m] = h}

AddPasskey(c) ==
    passkeys \cup {[id |-> Cardinality(passkeys) + 1, nick |-> c.nick, handle |-> c.handle,
                    code |-> c.code, stored |-> 0]}

\* The authenticator's answer to an enrolment.  The account is loaded again, and
\* the answer is refused when the handle is not the one the ceremony began with.
EnrolFinish(o, c) ==
    /\ Attempt("enrol", o) /\ Passes("enrol", o)
    /\ c \in ceremonies
    /\ ceremonies' = Take(c)
    /\ passkeys' = IF tick < c.expires /\ c.nick # Anybody /\ handleOf[c.nick] = c.handle
                   THEN AddPasskey(c) ELSE passkeys
    /\ UNCHANGED <<tick, codeVars, handleOf, handles, stranded, begun, enrolling>>

LoginBegin(o) ==
    /\ Attempt("auth", o) /\ Passes("auth", o)
    /\ Ceremonies(Anybody, 0, NoHandle)
    /\ UNCHANGED <<tick, codeVars, keyVars, enrolling>>

\* UseWebAuthnCredential: a counter that does not advance is refused; devices
\* without one report zero.
Advances(p, count) == count = 0 \/ count > p.stored

\* The authenticator signs with count; the account is the one its handle names.
LoginFinish(o, c, p, count) ==
    /\ Attempt("auth", o) /\ Passes("auth", o)
    /\ c \in ceremonies /\ p \in passkeys
    /\ ceremonies' = Take(c)
    /\ passkeys' = IF tick < c.expires /\ c.nick = Anybody /\ p.nick \in Resolves(p.handle)
                        /\ p.nick \notin Barred /\ Advances(p, count)
                   THEN (passkeys \ {p}) \cup {[p EXCEPT !.stored = count]}
                   ELSE passkeys
    /\ UNCHANGED <<tick, codeVars, handleOf, handles, stranded, begun, enrolling>>

\* An answer to either ceremony that does not verify.
AnswerFails(l, o, c) ==
    /\ Attempt(l, o) /\ Passes(l, o)
    /\ c \in ceremonies
    /\ ceremonies' = Take(c)
    /\ UNCHANGED <<tick, codeVars, keyVars, begun, enrolling>>

TickOn ==
    /\ tick < LastTick
    /\ tick' = tick + 1
    /\ UNCHANGED <<limitVars, codeVars, keyVars, ceremonyVars, enrolling>>

SignInNext ==
    \/ TickOn
    \/ \E m \in Member : IssueCode(m)
    \/ \E e \in enrolling : EnrolBegun(e)
    \/ \E o \in Origins :
          \/ \E l \in Limiters : Refused(l, o) \/ \E c \in ceremonies : AnswerFails(l, o, c)
          \/ \E m \in Member : \E c \in webCode[m] : EnrolBegin(o, m, c)
          \/ \E c \in ceremonies : EnrolFinish(o, c)
          \/ LoginBegin(o)
          \/ \E c \in ceremonies, p \in passkeys, count \in 0 .. 1 : LoginFinish(o, c, p, count)

----------------------------------------------------------------------------
(* Properties. *)

\* One code makes one passkey at most, of the account that asked for the code,
\* however many requests present the code or answer its ceremony
\* (RedeemEnrolmentCode, ceremonyStore.Take).
OnePasskeyPerCode ==
    \A p, q \in passkeys : p.code = q.code => p = q

\* Every passkey in the table still names its account, except where two first
\* enrolments of one account overlapped (EnsureWebAuthnHandle): no later
\* enrolment cuts the earlier passkeys off.
PasskeysResolve ==
    \A p \in passkeys : p.nick \in Resolves(p.handle) \/ p.handle \in stranded

\* In any hour a client gets no more attempts than a full bucket and what is
\* refilled meanwhile, swept buckets included (limiter.allow, sweepLocked).
AttemptsAreBounded ==
    \A l \in Limiters, k \in Keys :
       \A i \in DOMAIN passed[l][k] :
          LET n == Cardinality({j \in DOMAIN passed[l][k] :
                                  passed[l][k][j] - passed[l][k][i] \in 0 .. (HourLength - 1)})
          IN  TokenPrice * n <= Capacity(k) + Allowance(k) * (HourLength - 1)

\* What stands between a visitor and an account, together.
SignInIsSound == OnePasskeyPerCode /\ PasskeysResolve /\ AttemptsAreBounded

=============================================================================
