-------------------------------- MODULE Bsmp --------------------------------
(***************************************************************************)
(* Bundles over the link (internal/bsmp): one node's outbox, which sends a *)
(* bundle as fountain symbols and resumes where the governor stopped it,   *)
(* and the inboxes of the nodes that hear it.                              *)
(*                                                                         *)
(* A bundle stands for its content, hence for its content-derived ID.      *)
(* SendRecords is a loop of link sends, so calls of different goroutines   *)
(* interleave symbol by symbol.  Deliver runs on the one receive loop of   *)
(* its process and is one step.  Time is the age of an inbox entry, which  *)
(* stops counting once it is past the time to live.                        *)
(***************************************************************************)
EXTENDS Integers, FiniteSets

CONSTANTS Receiver,     \* nodes in range of the sender
          Bundle,       \* packed bundles
          Caller,       \* goroutines that call SendRecords
          K,            \* source symbols of a bundle
          RepairMask,   \* members of the repair symbols, indexed from K
          Repairs,      \* what RepairCount returns as the loss estimate moves
          MaxSymbols,   \* maxSymbolsPerBundle
          MaxOpen,      \* maxOpenDecoders
          TTL,          \* decoderTTL
          MaxAir,       \* bound: symbols on the way to a receiver
          MaxLost,      \* bound: symbols a receiver misses
          MaxDamage,    \* bound: symbols damaged on the way
          MaxCrash      \* bound: restarts

ASSUME OutboxAssumption ==
    /\ K \in Nat \ {0}
    /\ MaxSymbols \in Nat /\ MaxSymbols >= K
    /\ RepairMask \in [K .. MaxSymbols - 1 -> SUBSET (0 .. K - 1)]
    /\ Repairs \subseteq Nat \ {0} /\ Repairs # {}

ASSUME InboxAssumption ==
    /\ MaxOpen \in Nat \ {0}
    /\ TTL \in Nat
    /\ MaxAir \in Nat \ {0}
    /\ MaxLost \in Nat
    /\ MaxDamage \in Nat
    /\ MaxCrash \in Nat

Index == 0 .. MaxSymbols - 1
Ages == 0 .. TTL + 1
OnAir == [bundle : Bundle, index : Index, good : BOOLEAN]

VARIABLES
    \* The outbox.
    cursor,    \* cursor[b]: the index a retry of b resumes at
    call,      \* call[c]: the SendRecords c is in, or Idle
    \* What the outbox did since it started (history).
    sent,      \* sent[b]: indexes transmitted
    spent,     \* spent[b]: transmissions, counted to one past the allowance
    \* The inboxes.
    air,       \* air[r]: symbols on their way to r
    decoding,  \* decoding[r]: the open decoders, by bundle
    done,      \* done[r]: ages of the decoded bundles
    handed,    \* handed[r]: what r decoded, and whether it is what was sent
    keyed,     \* keyed[r]: r holds the key that verifies the records
    stored,    \* stored[r]: bundles whose records r stored
    \* Bounds.
    lost, damaged, crashes

outbox == <<cursor, call, sent, spent>>
inbox == <<decoding, done, handed, keyed, stored>>
bounds == <<lost, damaged, crashes>>
bsmpVars == <<outbox, air, inbox, bounds>>

Idle == [bundle |-> {}, next |-> 0, total |-> 0]
Busy(c) == call[c] # Idle
Nothing == [b \in {} |-> 0]

\* The symbols of S determine every source symbol: see module Fountain.
Members(i) == IF i < K THEN {i} ELSE RepairMask[i]
Determined(S) ==
    \A j \in 0 .. K - 1 : \E T \in SUBSET S :
       \A k \in 0 .. K - 1 :
          (Cardinality({i \in T : k \in Members(i)}) % 2 = 1) <=> k = j

BsmpInit ==
    /\ cursor = [b \in Bundle |-> 0]
    /\ call = [c \in Caller |-> Idle]
    /\ sent = [b \in Bundle |-> {}]
    /\ spent = [b \in Bundle |-> 0]
    /\ air = [r \in Receiver |-> {}]
    /\ decoding = [r \in Receiver |-> Nothing]
    /\ done = [r \in Receiver |-> Nothing]
    /\ handed = [r \in Receiver |-> {}]
    /\ keyed \in [Receiver -> BOOLEAN]
    /\ stored = [r \in Receiver |-> {}]
    /\ lost = [r \in Receiver |-> 0]
    /\ damaged = 0
    /\ crashes = 0

----------------------------------------------------------------------------
(* Outbox.SendRecords. *)

\* Where this call stops: past what was sent if all of it was, and never past
\* the bundle's allowance.
Total(start, repair) ==
    LET wanted == IF start >= K + repair THEN start + repair ELSE K + repair
    IN  IF wanted > MaxSymbols THEN MaxSymbols ELSE wanted

\* A bundle past its allowance is abandoned, and mail is refused while the
\* radio reports an amateur licence: such a call only counts itself.
DropSend(c, b) == ~Busy(c) /\ UNCHANGED bsmpVars

StartSend(c, b) ==
    /\ ~Busy(c)
    /\ cursor[b] < MaxSymbols
    /\ \E repair \in Repairs :
          call' = [call EXCEPT ![c] =
                     [bundle |-> b, next |-> cursor[b], total |-> Total(cursor[b], repair)]]
    /\ UNCHANGED <<cursor, sent, spent, air, inbox, bounds>>

\* One pass of the loop: the link takes the symbol, and each receiver hears
\* it, misses it or hears it damaged in a way the radio's CRC lets through.
SendSymbol(c) ==
    LET b == call[c].bundle
        i == call[c].next
    IN  /\ Busy(c) /\ i < call[c].total
        /\ call' = [call EXCEPT ![c].next = i + 1]
        /\ sent' = [sent EXCEPT ![b] = @ \cup {i}]
        /\ spent' = [spent EXCEPT ![b] = IF @ > MaxSymbols THEN @ ELSE @ + 1]
        /\ \E fate \in [Receiver -> {"heard", "damaged", "missed"}] :
              /\ air' = [r \in Receiver |->
                           IF fate[r] = "missed" THEN air[r]
                           ELSE air[r] \cup {[bundle |-> b, index |-> i,
                                              good |-> fate[r] = "heard"]}]
              /\ lost' = [r \in Receiver |-> IF fate[r] = "missed" THEN lost[r] + 1 ELSE lost[r]]
              /\ damaged' = damaged + Cardinality({r \in Receiver : fate[r] = "damaged"})
        /\ \A r \in Receiver : Cardinality(air'[r]) =< MaxAir /\ lost'[r] =< MaxLost
        /\ damaged' =< MaxDamage
        /\ UNCHANGED <<cursor, inbox, crashes>>

\* Mutant: the position is forgotten, as with a bundle ID drawn at random.
SendRefusedForgetting(c) ==
    /\ Busy(c) /\ call[c].next < call[c].total
    /\ call' = [call EXCEPT ![c] = Idle]
    /\ UNCHANGED <<cursor, sent, spent, air, inbox, bounds>>

\* The governor refuses the symbol or the link fails: remember where.
SendRefused(c) ==
    /\ Busy(c) /\ call[c].next < call[c].total
    /\ cursor' = [cursor EXCEPT ![call[c].bundle] = call[c].next]
    /\ call' = [call EXCEPT ![c] = Idle]
    /\ UNCHANGED <<sent, spent, air, inbox, bounds>>

FinishSend(c) ==
    /\ Busy(c) /\ call[c].next = call[c].total
    /\ cursor' = [cursor EXCEPT ![call[c].bundle] = call[c].total]
    /\ call' = [call EXCEPT ![c] = Idle]
    /\ UNCHANGED <<sent, spent, air, inbox, bounds>>

\* The sender restarts: cursors are not persisted.
CrashSender ==
    /\ crashes < MaxCrash
    /\ crashes' = crashes + 1
    /\ cursor' = [b \in Bundle |-> 0]
    /\ call' = [c \in Caller |-> Idle]
    /\ sent' = [b \in Bundle |-> {}]
    /\ spent' = [b \in Bundle |-> 0]
    /\ UNCHANGED <<air, inbox, lost, damaged>>

----------------------------------------------------------------------------
(* Inbox.symbol. *)

Only(entries, S) == [b \in S |-> entries[b]]

\* expire: entries older than the time to live are dropped.
Unexpired(entries) == Only(entries, {b \in DOMAIN entries : entries[b].age =< TTL})

\* evictToCap, called once b is in: at most one entry is over the cap, and a
\* least recently touched one goes.
Evicted(entries, b) ==
    IF Cardinality(DOMAIN entries) =< MaxOpen THEN {entries}
    ELSE {Only(entries, DOMAIN entries \ {v}) :
            v \in {w \in DOMAIN entries : \A x \in DOMAIN entries :
                      entries[w].age >= entries[x].age}}

\* The decoder of a symbol's bundle, touched, with the symbol added.  An
\* index seen before adds nothing.
Fed(entries, s) ==
    LET had == IF s.bundle \in DOMAIN entries THEN entries[s.bundle]
               ELSE [rows |-> {}, spoilt |-> FALSE, age |-> 0]
    IN  [rows |-> had.rows \cup {s.index},
         spoilt |-> had.spoilt \/ (s.index \notin had.rows /\ ~s.good),
         age |-> 0]

Without(entries, b) == Only(entries, DOMAIN entries \ {b})
With(entries, b, e) == [x \in DOMAIN entries \cup {b} |-> IF x = b THEN e ELSE entries[x]]

\* Mutant: a solved block is taken for the bundle that was sent.
IntactUnchecked(genuine) == TRUE

\* The payload hashes to the bundle ID exactly when it is what was sent.
Intact(genuine) == genuine

\* Engine.ApplyRecords on a decoded bundle: the records are stored, or the
\* store rejects them for want of a key, or it fails.
Apply(r, b) ==
    \/ keyed[r] /\ stored' = [stored EXCEPT ![r] = @ \cup {b}]
    \/ ~keyed[r] /\ UNCHANGED stored

\* The block is solved.  With a damaged row the payload may be wrong; a wrong
\* one is discarded, and so is its decoder.
Decode(r, b, spoilt, live) ==
    \E genuine \in IF spoilt THEN BOOLEAN ELSE {TRUE} :
       IF Intact(genuine)
       THEN /\ done' = [done EXCEPT ![r] = With(live, b, [age |-> 0])]
            /\ handed' = [handed EXCEPT ![r] = @ \cup {<<b, genuine>>}]
            /\ Apply(r, b)
       ELSE /\ done' = [done EXCEPT ![r] = live]
            /\ UNCHANGED <<handed, stored>>

Deliver(r, s) ==
    /\ s \in air[r]
    /\ air' = [air EXCEPT ![r] = @ \ {s}]
    /\ IF s.bundle \in DOMAIN done[r]
       THEN UNCHANGED <<decoding, done, handed, stored>>
       ELSE LET b == s.bundle
                fed == Fed(Unexpired(decoding[r]), s)
            IN  \E kept \in Evicted(With(Unexpired(decoding[r]), b, fed), b) :
                   IF Determined(fed.rows)
                   THEN /\ decoding' = [decoding EXCEPT ![r] = Without(kept, b)]
                        /\ Decode(r, b, fed.spoilt, Unexpired(done[r]))
                   ELSE /\ decoding' = [decoding EXCEPT ![r] = kept]
                        /\ done' = [done EXCEPT ![r] = Unexpired(done[r])]
                        /\ UNCHANGED <<handed, stored>>
    /\ UNCHANGED <<outbox, keyed, bounds>>

\* The author's NODE record arrives.
KeyArrives(r) ==
    /\ ~keyed[r]
    /\ keyed' = [keyed EXCEPT ![r] = TRUE]
    /\ UNCHANGED <<outbox, air, decoding, done, handed, stored, bounds>>

\* Hours pass.
Older(entries) ==
    [b \in DOMAIN entries |->
       [entries[b] EXCEPT !.age = IF @ > TTL THEN @ ELSE @ + 1]]

HoursPass ==
    /\ decoding' = [r \in Receiver |-> Older(decoding[r])]
    /\ done' = [r \in Receiver |-> Older(done[r])]
    /\ <<decoding', done'>> # <<decoding, done>>
    /\ UNCHANGED <<outbox, air, handed, keyed, stored, bounds>>

\* A receiver restarts: what it stored stays.
CrashReceiver(r) ==
    /\ crashes < MaxCrash
    /\ crashes' = crashes + 1
    /\ decoding' = [decoding EXCEPT ![r] = Nothing]
    /\ done' = [done EXCEPT ![r] = Nothing]
    /\ UNCHANGED <<outbox, air, handed, keyed, stored, lost, damaged>>

----------------------------------------------------------------------------
Send(c) ==
    \/ \E b \in Bundle : StartSend(c, b) \/ DropSend(c, b)
    \/ SendSymbol(c) \/ SendRefused(c) \/ FinishSend(c)

Receive(r) == \E s \in air[r] : Deliver(r, s)

\* What happens within the time to live of every entry.
PromptNext ==
    \/ \E c \in Caller : Send(c)
    \/ \E r \in Receiver : Receive(r) \/ KeyArrives(r) \/ CrashReceiver(r)
    \/ CrashSender

BsmpNext == PromptNext \/ HoursPass

\* A peer that lacks a bundle keeps asking for it, and the engine answers.
AnswerAgain(c, b) == (\E r \in Receiver : b \notin stored[r]) /\ StartSend(c, b)

----------------------------------------------------------------------------
(* Properties. *)

\* No bundle costs more than its allowance, over all resumed attempts of one
\* run of the process (maxSymbolsPerBundle).
CostIsBounded == \A b \in Bundle : spent[b] =< MaxSymbols

\* No airtime goes to a symbol that was already transmitted: a retry resumes
\* at the cursor wherever the governor or the link stopped the last one.
SymbolsAreNew ==
    [][\A b \in Bundle : spent'[b] > spent[b] => sent'[b] # sent[b]]_bsmpVars

\* What reaches the engine is what was sent, damaged symbols notwithstanding.
GenuineOnly == \A r \in Receiver : handed[r] \subseteq Bundle \X {TRUE}

\* The decoders a stream of unfinished bundles can hold open are capped, and
\* none is open that could have finished or is remembered as finished.
OpenIsUnfinished ==
    \A r \in Receiver :
       /\ Cardinality(DOMAIN decoding[r]) =< MaxOpen
       /\ \A b \in DOMAIN decoding[r] :
             b \notin DOMAIN done[r] /\ ~Determined(decoding[r][b].rows)

\* Both sides: what a bundle may cost, and what comes out of what arrives.
BundlesHold == CostIsBounded /\ GenuineOnly /\ OpenIsUnfinished

\* However often the governor interrupts a bundle, a peer that misses no
\* more than the bundle's allowance can spare decodes what was begun.
Delivered ==
    \A r \in Receiver, b \in Bundle : sent[b] # {} ~> <<b, TRUE>> \in handed[r]

=============================================================================
