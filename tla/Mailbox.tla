------------------------------ MODULE Mailbox ------------------------------
(***************************************************************************)
(* Accounts and their mail keys: what a caller over SSH is let in as        *)
(* (sshd/auth.go), sign-up (tui/signup.go, store/users.go),                *)
(* the key a mailbox is sealed to (EnsureDMKey of bbs.go, store/auth.go,   *)
(* keyring), a letter's way from sender to reader (SendDM, OpenDM,         *)
(* store/dm.go) and the way to the mail list (tui/commands.go, keys.go).   *)
(*                                                                         *)
(* A key pair is a number.  Its private half is in the account's row,      *)
(* wrapped under the owner's passphrase, or on the owner's machine; what   *)
(* is sealed to a key opens with its private half and nothing else.        *)
(* Nearly every operation reads the row, decides, and writes it later.     *)
(***************************************************************************)
EXTENDS Integers, FiniteSets

CONSTANTS Nicknames, Visitor,   \* names, and sessions at the sign-up screen
          SSHKeyOf,             \* [Visitor -> SSH key, or NoSSHKey]
          NoSSHKey,
          OpenSignup,           \* registration is open
          GuestEnabled,
          PasskeyHolders,       \* names let in over the web (SignIn says how)
          MaxKeyPairs, MaxLetters, MaxJobs   \* bounds

NewUser == "new"
GuestUser == "guest"

ASSUME MailboxAssumption ==
    /\ MaxKeyPairs \in Nat /\ MaxLetters \in Nat /\ MaxJobs \in Nat
    /\ {NewUser, GuestUser} \cap Nicknames = {}      \* ValidateNick
    /\ PasskeyHolders \subseteq Nicknames

KeyPair == 1 .. MaxKeyPairs
NoKey == 0

VARIABLES
    users,      \* nicks in table users
    ways,       \* [Nicknames -> {"password"} or {}]: a password is set
    enrolled,   \* table user_keys: [key, nick]
    pubKey,     \* [Nicknames -> KeyPair \cup {NoKey}]: dm_public_key
    wrapped,    \* likewise, dm_wrapped_key
    machine,    \* [Nicknames -> key pairs on the owner's machine]
    made,       \* key pairs generated so far
    jobs,       \* operations between their read and their write
    signup,     \* [Visitor -> [at, nick, password]]
    letters,    \* [to, key, at]: "stored", "listed" or "read"
    place,      \* [Nicknames -> "menu", "setup", "unlock" or "list"]
    agreed,     \* [Nicknames -> keys somebody said may be lost] (history)
    overtaken   \* [Nicknames -> keys lost to a write whose read was stale] (history)

rows == <<users, ways, enrolled, pubKey, wrapped>>
hist == <<agreed, overtaken>>
mailVars == <<rows, machine, made, jobs, signup, letters, place, hist>>

NoSignup == [at |-> "no", nick |-> CHOOSE n \in Nicknames : TRUE, password |-> FALSE]

MailInit ==
    /\ users = {} /\ ways = [n \in Nicknames |-> {}] /\ enrolled = {}
    /\ pubKey = [n \in Nicknames |-> NoKey] /\ wrapped = [n \in Nicknames |-> NoKey]
    /\ machine = [n \in Nicknames |-> {}] /\ made = 0
    /\ jobs = {} /\ signup = [v \in Visitor |-> NoSignup]
    /\ letters = {} /\ place = [n \in Nicknames |-> "menu"]
    /\ agreed = [n \in Nicknames |-> {}] /\ overtaken = [n \in Nicknames |-> {}]

----------------------------------------------------------------------------
(* Reading the row, and the write that follows. *)

\* who waits: the sign-up or the session that runs the operation.
Begin(job) ==
    /\ Cardinality(jobs) < MaxJobs
    /\ jobs' = jobs \cup {job}

\* The row now has the key k; what it had is lost unless the write says
\* otherwise, knowingly or because it was read too early.
Writes(n, k, wk, saw, knowing) ==
    LET lost == {pubKey[n]} \ {NoKey, k}
    IN  /\ pubKey' = [pubKey EXCEPT ![n] = k]
        /\ wrapped' = [wrapped EXCEPT ![n] = wk]
        /\ agreed' = [agreed EXCEPT ![n] = IF knowing THEN @ \cup lost ELSE @]
        /\ overtaken' = [overtaken EXCEPT ![n] = IF pubKey[n] # saw THEN @ \cup lost ELSE @]

\* DMPublicKey: either kind of custody is a key.
Missing(n) == pubKey[n] = NoKey

\* EnsureDMKey: nothing to do, or a new key is generated and wrapped.
EnsureDMKey(n, for) ==
    /\ n \in users
    /\ IF Missing(n) /\ made < MaxKeyPairs
       THEN /\ made' = made + 1
            /\ Begin([op |-> "ensure", nick |-> n, saw |-> pubKey[n], key |-> made + 1,
                      replace |-> FALSE, for |-> for])
       ELSE ~Missing(n) /\ UNCHANGED <<made, jobs>>

SetDMKey(job) ==
    /\ job.op = "ensure"
    /\ Writes(job.nick, job.key, job.key, job.saw, FALSE)
    /\ UNCHANGED <<users, ways, enrolled>>

\* A key file is made and never written over: a new pair is one more file.
Save(n, k) == k \notin machine[n] /\ machine' = [machine EXCEPT ![n] = @ \cup {k}]

\* meshbbs-key init: a pair of the owner's own.
KeyInit(n) ==
    /\ n \in users /\ made < MaxKeyPairs
    /\ made' = made + 1
    /\ Save(n, made + 1)
    /\ UNCHANGED <<rows, jobs, signup, letters, place, hist>>

\* Mutant: another key is adopted without asking.
MayAdoptAny(n, k, replace) == TRUE

MayAdopt(n, k, replace) == pubKey[n] \in {NoKey, k} \/ replace

\* user dm-key: the sysop records the public half of such a pair.
SetClientHeldDMKey(n, k, replace) ==
    /\ n \in users /\ k \in machine[n]
    /\ MayAdopt(n, k, replace)
    /\ Begin([op |-> "adopt", nick |-> n, saw |-> pubKey[n], key |-> k,
              replace |-> replace, for |-> "cli"])
    /\ UNCHANGED <<rows, machine, made, signup, letters, place, hist>>

Adopts(job) ==
    /\ job.op = "adopt"
    /\ Writes(job.nick, job.key, NoKey, job.saw, job.replace /\ pubKey[job.nick] = job.saw)
    /\ UNCHANGED <<users, ways, enrolled>>

\* user passwd: refused for a mailbox the server holds, unless it is given up.
\* One that is held elsewhere, or empty, is left alone.
ResetPasswordAsSysop(n, discard) ==
    /\ n \in users
    /\ wrapped[n] # NoKey => discard
    /\ Begin([op |-> "reset", nick |-> n, saw |-> wrapped[n], key |-> NoKey,
              replace |-> wrapped[n] # NoKey, for |-> "cli"])
    /\ UNCHANGED <<rows, machine, made, signup, letters, place, hist>>

Resets(job) ==
    /\ job.op = "reset"
    /\ ways' = [ways EXCEPT ![job.nick] = @ \cup {"password"}]
    /\ IF job.replace
       THEN Writes(job.nick, NoKey, NoKey, job.saw, pubKey[job.nick] = job.saw)
       ELSE UNCHANGED <<pubKey, wrapped, hist>>
    /\ UNCHANGED <<users, enrolled>>

\* The session or the sign-up that asked goes on; the command line just ends.
Finished(job) ==
    /\ place' = IF job.for = "session" THEN [place EXCEPT ![job.nick] = "list"] ELSE place
    /\ signup' = [v \in Visitor |->
                    IF job.for = v /\ signup[v].at = "ensuring"
                    THEN [signup[v] EXCEPT !.at = "done"] ELSE signup[v]]

JobWrites(job) ==
    /\ job \in jobs
    /\ jobs' = jobs \ {job}
    /\ SetDMKey(job) \/ Adopts(job) \/ Resets(job)
    /\ Finished(job)
    /\ UNCHANGED <<machine, made, letters>>

\* The write fails: the operation ends with an error.
JobFails(job) ==
    /\ job \in jobs
    /\ jobs' = jobs \ {job}
    /\ signup' = [v \in Visitor |-> IF job.for = v THEN NoSignup ELSE signup[v]]
    /\ UNCHANGED <<rows, machine, made, letters, place, hist>>

----------------------------------------------------------------------------
(* What a caller over SSH is let in as. *)

\* The front door and the guest's, by key and by password alike.
Reserved(name) ==
    CASE name = NewUser -> IF OpenSignup THEN "signup" ELSE "unknown"
      [] name = GuestUser -> IF GuestEnabled THEN "guest" ELSE "unknown"

\* UserByFingerprint.
OwnersOf(key) == {row.nick : row \in {r \in enrolled : r.key = key}}

\* A key that is known opens its owner's account and no other; one that is not
\* is no reason to sign up under a name somebody has.
PublicKey(name, key) ==
    IF name \in {NewUser, GuestUser} THEN Reserved(name)
    ELSE IF OwnersOf(key) # {} THEN IF name \in OwnersOf(key) THEN "authenticated" ELSE "unknown"
    ELSE IF name \in users THEN "key unknown"
    ELSE IF OpenSignup THEN "signup" ELSE "unknown"

\* AuthenticatePassword: no account, no password and a wrong one are refused alike.
RightPassword(name, right) == name \in users /\ "password" \in ways[name] /\ right

Password(name, right) ==
    IF name \in {NewUser, GuestUser} THEN Reserved(name)
    ELSE IF RightPassword(name, right) THEN "authenticated" ELSE "unknown"

\* Whoever is not turned away reaches a screen: the new user's is the sign-up.
ReachesSignup(v) ==
    \E name \in Nicknames \cup {NewUser} :
       "signup" = IF SSHKeyOf[v] = NoSSHKey THEN Password(name, FALSE)
                  ELSE PublicKey(name, SSHKeyOf[v])

LogsIn(n) ==
    \/ n \in PasskeyHolders
    \/ \E row \in enrolled : PublicKey(n, row.key) = "authenticated"
    \/ Password(n, TRUE) = "authenticated"

----------------------------------------------------------------------------
(* Accounts. *)

\* The answers are checked on the way; a password may be left out by those who
\* came with an SSH key.
Acknowledge(v, n, pw) ==
    /\ signup[v].at = "no" /\ ReachesSignup(v)
    /\ pw \/ SSHKeyOf[v] # NoSSHKey
    /\ signup' = [signup EXCEPT ![v] = [at |-> "create", nick |-> n, password |-> pw]]
    /\ UNCHANGED <<rows, machine, made, jobs, letters, place, hist>>

\* One transaction; a nick is given once.
CreateUser(v) ==
    LET n == signup[v].nick
    IN  /\ signup[v].at = "create"
        /\ IF n \in users
           THEN signup' = [signup EXCEPT ![v] = NoSignup] /\ UNCHANGED <<users, ways>>
           ELSE /\ users' = users \cup {n}
                /\ ways' = [ways EXCEPT ![n] = IF signup[v].password THEN {"password"} ELSE {}]
                /\ signup' = [signup EXCEPT ![v].at = "enrol"]
        /\ UNCHANGED <<enrolled, pubKey, wrapped, machine, made, jobs, letters, place, hist>>

\* The key the visitor came with; a key belongs to one account.  A failure ends
\* the sign-up and leaves the account as it is.
AddUserKey(v) ==
    LET n == signup[v].nick  key == SSHKeyOf[v]
    IN  /\ signup[v].at = "enrol"
        /\ IF OwnersOf(key) # {}
           THEN signup' = [signup EXCEPT ![v] = NoSignup] /\ UNCHANGED enrolled
           ELSE /\ signup' = [signup EXCEPT ![v].at = "ensure"]
                /\ enrolled' = IF key = NoSSHKey THEN enrolled ELSE enrolled \cup {[key |-> key, nick |-> n]}
        /\ UNCHANGED <<users, ways, pubKey, wrapped, machine, made, jobs, letters, place, hist>>

SignupEnsures(v) ==
    /\ signup[v].at = "ensure"
    /\ EnsureDMKey(signup[v].nick, v)
    /\ signup' = [signup EXCEPT ![v].at =
                    IF Missing(signup[v].nick) THEN "ensuring" ELSE "done"]
    /\ UNCHANGED <<rows, machine, letters, place, hist>>

\* user add: an account without a mail key.
AddUser(n) ==
    /\ n \notin users
    /\ users' = users \cup {n}
    /\ ways' = [ways EXCEPT ![n] = {"password"}]
    /\ UNCHANGED <<enrolled, pubKey, wrapped, machine, made, jobs, signup, letters, place, hist>>

----------------------------------------------------------------------------
(* Letters. *)

\* Sealing takes the public half that the row has, and no other key.
SealedTo(n) == [to |-> n, key |-> pubKey[n], at |-> "stored"]

\* SendDM reads the key, seals, and stores the record.
SendDM(n) ==
    /\ n \in users /\ pubKey[n] # NoKey
    /\ Cardinality(letters) < MaxLetters
    /\ letters' = letters \cup {SealedTo(n)}
    /\ UNCHANGED <<rows, machine, made, jobs, signup, place, hist>>

\* What is stored is listed after; a letter that misses this step is in the log
\* and in nobody's inbox.
IndexDM(l) ==
    /\ l \in letters /\ l.at = "stored"
    /\ letters' = (letters \ {l}) \cup {[l EXCEPT !.at = "listed"]}
    /\ UNCHANGED <<rows, machine, made, jobs, signup, place, hist>>

ClientHeld(n) == pubKey[n] # NoKey /\ wrapped[n] = NoKey

\* WrappedDMKey: there is something to unwrap.
Unwraps(n) == wrapped[n] # NoKey

\* What the right passphrase makes of the row's wrapped key; any other is an error.
Unwrap(n) == wrapped[n]

\* A sealed letter opens with the key it was sealed to.
Opens(k, l) == k = l.key

\* OpenDM: the sealed block is handed to an owner who holds the key, else the
\* wrapped key must open the letter.
OpenDM(n, l) == ClientHeld(n) \/ (Unwraps(n) /\ Opens(Unwrap(n), l))

\* Either way it counts as read.
OpenMail(n, l) ==
    /\ place[n] = "list" /\ l \in letters /\ l.to = n /\ l.at # "stored"
    /\ OpenDM(n, l)
    /\ letters' = (letters \ {l}) \cup {[l EXCEPT !.at = "read"]}
    /\ UNCHANGED <<rows, machine, made, jobs, signup, place, hist>>

----------------------------------------------------------------------------
(* The way to the mail list. *)

\* checkMailAccess: no key at all leads to setting one up.
CheckMailAccess(n) ==
    /\ n \in users /\ LogsIn(n) /\ place[n] = "menu"
    /\ place' = [place EXCEPT ![n] = IF pubKey[n] = NoKey THEN "setup" ELSE "unlock"]
    /\ UNCHANGED <<rows, machine, made, jobs, signup, letters, hist>>

CreateDMKey(n) ==
    /\ place[n] = "setup"
    /\ EnsureDMKey(n, "session")
    /\ place' = IF Missing(n) THEN place ELSE [place EXCEPT ![n] = "list"]
    /\ UNCHANGED <<rows, machine, signup, letters, hist>>

\* VerifyPassphrase, with the right one: there must be something to unwrap.
TryUnlock(n) ==
    /\ place[n] = "unlock" /\ Unwraps(n)
    /\ place' = [place EXCEPT ![n] = "list"]
    /\ UNCHANGED <<rows, machine, made, jobs, signup, letters, hist>>

\* Escape, or the end of the session.
BackToMenu(n) ==
    /\ place[n] # "menu"
    /\ place' = [place EXCEPT ![n] = "menu"]
    /\ UNCHANGED <<rows, machine, made, jobs, signup, letters, hist>>

MailNext ==
    \/ \E job \in jobs : JobWrites(job) \/ JobFails(job)
    \/ \E v \in Visitor :
          \/ \E n \in Nicknames, pw \in BOOLEAN : Acknowledge(v, n, pw)
          \/ CreateUser(v) \/ AddUserKey(v) \/ SignupEnsures(v)
    \/ \E l \in letters : IndexDM(l) \/ \E n \in Nicknames : OpenMail(n, l)
    \/ \E n \in Nicknames :
          \/ AddUser(n) \/ KeyInit(n) \/ SendDM(n)
          \/ \E k \in KeyPair, yes \in BOOLEAN : SetClientHeldDMKey(n, k, yes)
          \/ \E yes \in BOOLEAN : ResetPasswordAsSysop(n, yes)
          \/ CheckMailAccess(n) \/ CreateDMKey(n) \/ TryUnlock(n) \/ BackToMenu(n)

----------------------------------------------------------------------------
(* Properties. *)

\* A letter nobody can open any more was given up by somebody who was told, or
\* by two writes of one row that overlapped: no order of sign-ups, key set-ups,
\* adoptions and resets loses mail in any other way (EnsureDMKey,
\* SetClientHeldDMKey, ResetPasswordAsSysop).
NothingStrandedQuietly ==
    \A l \in letters :
       \/ wrapped[l.to] = l.key
       \/ l.key \in machine[l.to]
       \/ l.key \in agreed[l.to] \cup overtaken[l.to]

\* "the other gets an armoured block to take away" (store/auth.go 194-197,
\* tui/commands.go 261-266): an owner who holds the key gets to the letters.
HoldersReachTheirMail ==
    \A n \in Nicknames :
       place[n] = "unlock" /\ ClientHeld(n) ~> place[n] # "unlock" \/ ~ClientHeld(n)

=============================================================================
