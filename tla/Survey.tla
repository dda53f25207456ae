------------------------------- MODULE Survey -------------------------------
(***************************************************************************)
(* The measurement of the flood multiplier (internal/survey): listen, send *)
(* a paced load once per hop limit, listen again.  The radio's metrics     *)
(* come from a reader of its own (survey/radio.go) and are read once a     *)
(* sample; a reading counts when its uptime differs from the last one.     *)
(*                                                                         *)
(* The clock counts samples.  Channel readings are small numbers, and      *)
(* means are compared by their sums.                                       *)
(***************************************************************************)
EXTENDS Integers

CONSTANTS Probe, Baseline, Load, Settle,  \* durations
          MinSamples, TxEvery, TxRetries, Hops,
          Levels,      \* channel readings
          MaxAmbient, AbortRise,
          PacketCost   \* one packet in a phase of one sample, as a reading

ASSUME SurveyAssumption ==
    /\ {Probe, Baseline, Load, TxEvery, MinSamples, Hops} \subseteq Nat \ {0}
    /\ {Settle, TxRetries, MaxAmbient, AbortRise, PacketCost} \subseteq Nat
    /\ Levels \subseteq Nat

VARIABLES
    clock,    \* Config.Clock
    radio,    \* Radio.latest: [up, level, at]
    phase,    \* [name, hop, start, prev, n, sum, first, last, sent, nextTx, oldest]
    base,     \* the baseline's [n, sum]
    retry,    \* transmissions of the current packet that failed
    step      \* where measure is: "wait", "send", "next" or the outcome

surveyVars == <<clock, radio, phase, base, retry, step>>

Uptime == 0 .. 2   \* a reboot can bring back a value

\* A phase starts from the reading that is already there.
Started(name, hop) ==
    [name |-> name, hop |-> hop, start |-> clock, prev |-> radio.up, n |-> 0, sum |-> 0,
     first |-> 0, last |-> 0, sent |-> 0, nextTx |-> clock, oldest |-> clock]

SurveyInit ==
    /\ clock = 0 /\ retry = 0 /\ step = "wait"
    /\ radio = [up |-> 0, level |-> 0, at |-> 0]
    /\ phase = Started("probe", 0)
    /\ base = [n |-> 0, sum |-> 0]

----------------------------------------------------------------------------
Duration == CASE phase.name = "probe" -> Probe
              [] phase.name = "load" -> Load
              [] OTHER -> Baseline

\* Radio.record, from the reader's own goroutine.
Report(up, level) ==
    /\ step \in {"wait", "send", "next"}
    /\ radio' = [up |-> up, level |-> level, at |-> clock]
    /\ UNCHANGED <<clock, phase, base, retry, step>>

Fresh(p) == radio.up # p.prev

Read(p) ==
    IF ~Fresh(p) THEN p
    ELSE [p EXCEPT !.prev = radio.up, !.n = @ + 1, !.sum = @ + radio.level,
                   !.first = IF p.n = 0 THEN clock' ELSE @, !.last = clock',
                   !.oldest = IF radio.at < @ THEN radio.at ELSE @]

\* The mean without our own packets is too far above the baseline's.
TooBusy(p) ==
    LET t == clock' - p.start
    IN  /\ p.name = "load" /\ p.n >= MinSamples
        /\ p.sum * t * base.n - p.sent * PacketCost * p.n * base.n
             > (base.sum + AbortRise * base.n) * p.n * t

\* One sample: wait, read, and give the channel up if others need it.
Sample ==
    /\ step = "wait" /\ clock < phase.start + Duration
    /\ clock' = clock + 1
    /\ phase' = Read(phase)
    /\ step' = IF TooBusy(phase') THEN "aborted"
               ELSE IF phase.name = "load" THEN "send" ELSE "wait"
    /\ UNCHANGED <<radio, base, retry>>

\* Packets that are due go out one after the other, but not near the end.
Due == clock < phase.start + Load - Settle /\ clock >= phase.nextTx

NextTx == phase.nextTx + TxEvery

Transmit ==
    /\ step = "send" /\ (Due \/ retry > 0)
    /\ phase' = [phase EXCEPT !.sent = @ + 1, !.nextTx = NextTx]
    /\ retry' = 0
    /\ UNCHANGED <<clock, radio, base, step>>

\* A failed write waits, longer each time, and is tried again.
TransmitFails ==
    /\ step = "send" /\ (Due \/ retry > 0)
    /\ IF retry = TxRetries
       THEN step' = "gave up" /\ UNCHANGED <<clock, retry>>
       ELSE /\ retry' = retry + 1 /\ clock' = clock + retry + 1
            /\ UNCHANGED step
    /\ UNCHANGED <<radio, phase, base>>

NothingDue ==
    /\ step = "send" /\ ~Due /\ retry = 0
    /\ step' = "wait"
    /\ UNCHANGED <<clock, radio, phase, base, retry>>

----------------------------------------------------------------------------
(* From one phase to the next. *)

Over == step = "wait" /\ clock >= phase.start + Duration

\* preflight: two fresh readings, and as many per phase as a mean needs.
Often == LET shortest == IF Load < Baseline THEN Load ELSE Baseline
         IN  phase.n >= 2 /\ shortest * (phase.n - 1) >= MinSamples * (phase.last - phase.first)

Stops(why) == step' = why /\ UNCHANGED <<clock, radio, phase, base, retry>>
Continues(name, hop) ==
    phase' = Started(name, hop) /\ UNCHANGED <<clock, radio, retry, step>>

ProbeEnds ==
    /\ Over /\ phase.name = "probe"
    /\ IF Often THEN Continues("baseline", 0) /\ UNCHANGED base ELSE Stops("too slow")

BaselineEnds ==
    /\ Over /\ phase.name = "baseline"
    /\ CASE phase.n = 0 -> Stops("no metrics")
         [] phase.n > 0 /\ phase.sum > MaxAmbient * phase.n -> Stops("busy")
         [] OTHER -> Continues("load", 1) /\ base' = [n |-> phase.n, sum |-> phase.sum]

LoadEnds ==
    /\ Over /\ phase.name = "load"
    /\ IF phase.n = 0 THEN Stops("no metrics")
       ELSE /\ UNCHANGED base
            /\ IF phase.hop < Hops THEN Continues("load", phase.hop + 1)
                                   ELSE Continues("closing", 0)

ClosingEnds ==
    /\ Over /\ phase.name = "closing"
    /\ Stops(IF phase.n = 0 THEN "no metrics" ELSE "done")

SurveyNext ==
    \/ \E up \in Uptime, level \in Levels : Report(up, level)
    \/ Sample \/ Transmit \/ TransmitFails \/ NothingDue
    \/ ProbeEnds \/ BaselineEnds \/ LoadEnds \/ ClosingEnds

----------------------------------------------------------------------------
(* Properties. *)

\* A phase's mean is made of readings reported during that phase (measure,
\* fresh): one left over from the phase before would attribute our own load to
\* a baseline or the ambient to a load.
OwnReadings == phase.oldest >= phase.start

\* However often writes fail and packets are sent late in a burst, a phase has
\* never sent more than its duty cycle allows by now (measure, transmitWithRetry).
DutyIsKept == phase.sent > 0 => (phase.sent - 1) * TxEvery =< clock - phase.start

=============================================================================
