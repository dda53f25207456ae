------------------------------ MODULE Governor ------------------------------
(***************************************************************************)
(* The airtime governor (internal/governor): a token bucket in channel     *)
(* time, with a reserve per traffic class, sub-budgets per area, a         *)
(* regional duty cycle, quiet hours, and back-off on a busy channel, with  *)
(* the federation loop that feeds it the radio's telemetry                 *)
(* (internal/cli/mesh_serve.go).                                           *)
(*                                                                         *)
(* Channel time and clock time are whole numbers.  A packet's time on air  *)
(* is its size; its cost is that times the flood multiplier r.             *)
(***************************************************************************)
EXTENDS Integers

CONSTANTS Area,        \* areas that may have a share of their own
          Sizes,       \* packet sizes
          Shares,      \* shares of an area, in percent; 0 is none
          Ceiling,     \* the network's accrual per tick
          Instances,   \* sizes of the network
          R0,          \* the configured flood multiplier
          MinSample,   \* packets sent before r is re-estimated
          Hour,        \* ticks
          DutyLimit,   \* time on air a region allows in an hour
          Quiet,       \* ticks within quiet hours
          Channels,      \* how busy the channel gets: below backoffThreshold is
                       \* "clear", below silenceThreshold "busy", else "silent"
          MaxPenalty,  \* maxPenalty
          MaxTime,     \* bound: the last tick
          MaxR         \* bound: r, and the echoes heard

ASSUME GovernorAssumption ==
    /\ Sizes \subseteq Nat \ {0} /\ \E s \in Sizes : \A t \in Sizes : t =< s
    /\ Shares \subseteq 0 .. 100
    /\ Instances \subseteq Nat \ {0} /\ Instances # {}
    /\ Ceiling \in Nat /\ R0 \in Nat \ {0} /\ MinSample \in Nat
    /\ Channels \subseteq {"clear", "busy", "silent"}
    /\ Hour \in Nat \ {0} /\ DutyLimit \in Nat
    /\ MaxPenalty \in Nat \ {0} /\ MaxTime \in Nat /\ MaxR \in Nat

Classes == {"control", "dm", "forum", "files", "door"}
Bulk == {"forum", "files", "door"}

\* Mutant: the classes are in the opposite order.
ReserveReversed == [control |-> 70, dm |-> 60, forum |-> 35, files |-> 10, door |-> 0]

\* The share of the bucket a class may not touch, in percent.
Reserve == [control |-> 0, dm |-> 10, forum |-> 35, files |-> 60, door |-> 70]

Full == CHOOSE s \in Sizes : \A t \in Sizes : t =< s
Times == 0 .. MaxTime

VARIABLES
    now,
    tokens, capacity, refilledAt,
    penalty,     \* divides the refill rate
    util,        \* the last observed channel utilization
    tx,          \* tx[t]: time on air spent at tick t, within the hour
    originated, echoes, r,
    instances,
    shares,      \* shares[a]
    bucket,      \* bucket[a]: the area's sub-budget, or NoBucket
    channel,     \* what the channel is like
    reading,     \* what the radio said it was like when it was attached
    bulk,        \* the last packet was forum, file or door traffic (history)
    allowance    \* what the node may still spend by its share (history)

budget == <<tokens, capacity, refilledAt>>
telemetry == <<channel, reading>>
govVars == <<now, budget, penalty, util, tx, originated, echoes, r, instances, shares,
          bucket, telemetry, bulk, allowance>>

NoBucket == [share |-> 0]

AtMost(x, y) == IF x < y THEN x ELSE y
AtLeast(x, y) == IF x > y THEN x ELSE y

Cost(size) == size * r

\* shareFraction, per tick.
RateFor(count) == Ceiling \div count

\* burst: an hour's accrual, and never less than three full packets.
Burst(rate, cost) == AtLeast(rate * Hour, 3 * cost)

GovInit ==
    /\ now = 0
    /\ instances \in Instances
    /\ r = R0
    /\ capacity = Burst(RateFor(instances), Full * R0)
    /\ tokens = capacity
    /\ refilledAt = 0
    /\ penalty = 1
    /\ util = "none"
    /\ tx = [t \in Times |-> 0]
    /\ originated = 0 /\ echoes = 0
    /\ shares \in [Area -> Shares]
    /\ bucket = [a \in Area |-> NoBucket]
    /\ channel \in Channels
    /\ reading = channel
    /\ bulk = FALSE
    /\ allowance = capacity

----------------------------------------------------------------------------
(* Refilling. *)

Refilled ==
    AtMost(capacity, tokens + (RateFor(instances) * (now - refilledAt)) \div penalty)

\* pruneTX: what was sent an hour ago or longer is forgotten.
Pruned == [t \in Times |-> IF t > now - Hour THEN tx[t] ELSE 0]

AreaCapacity(share) == AtLeast((share * capacity) \div 100, Cost(Full))

\* bucketFor: an area's bucket starts full, and accrues its share of the rate.
BucketFor(a) ==
    IF bucket[a] = NoBucket
    THEN [share |-> shares[a], tokens |-> AreaCapacity(shares[a]),
          capacity |-> AreaCapacity(shares[a]), last |-> now]
    ELSE [bucket[a] EXCEPT
            !.tokens = AtMost(bucket[a].capacity,
                         @ + (RateFor(instances) * bucket[a].share * (now - bucket[a].last))
                               \div (100 * penalty)),
            !.last = now]

----------------------------------------------------------------------------
(* AllowCharge. *)

UsedWithinHour ==
    LET upTo[t \in Times] == Pruned[t] + IF t = 0 THEN 0 ELSE upTo[t - 1]
    IN  upTo[MaxTime]

DutyAllows(size) == UsedWithinHour + size =< DutyLimit

\* check: quiet hours, busy channel, duty cycle, then the budget.
Check(size, class) ==
    /\ now \notin Quiet
    /\ util = "silent" => class = "dm"
    /\ DutyAllows(size)
    /\ 100 * Refilled >= 100 * Cost(size) + Reserve[class] * capacity

Refill == tokens' = Refilled /\ refilledAt' = now /\ tx' = Pruned

Capped(a) == shares[a] > 0

\* The packet goes out: the node is charged, and the area if it has a share.
Charge(size, class, areas) ==
    /\ Check(size, class)
    /\ \A a \in areas : Capped(a) => BucketFor(a).tokens >= Cost(size)
    /\ tokens' = Refilled - Cost(size)
    /\ refilledAt' = now
    /\ tx' = [Pruned EXCEPT ![now] = @ + size]
    /\ bucket' = [a \in Area |->
                    IF a \in areas /\ Capped(a)
                    THEN [BucketFor(a) EXCEPT !.tokens = @ - Cost(size)]
                    ELSE bucket[a]]
    /\ originated' = originated + 1
    /\ bulk' = (class \in Bulk)
    /\ allowance' = allowance - Cost(size)
    /\ UNCHANGED <<now, capacity, penalty, util, echoes, r, instances, shares, telemetry>>

\* The packet is refused, by the node's rules or by the area's bucket.
Refuse(size, class, areas) ==
    /\ \/ ~Check(size, class) /\ UNCHANGED bucket
       \/ /\ Check(size, class)
          /\ \E a \in areas : Capped(a) /\ BucketFor(a).tokens < Cost(size)
          /\ bucket' = [a \in Area |-> IF a \in areas THEN BucketFor(a) ELSE bucket[a]]
    /\ Refill
    /\ UNCHANGED <<now, capacity, penalty, util, originated, echoes, r, instances, shares,
                   telemetry, bulk, allowance>>

\* A packet belongs to one area, or to none.
AllowCharge ==
    \E size \in Sizes, class \in Classes, areas \in {{}} \cup {{a} : a \in Area} :
       Charge(size, class, areas) \/ Refuse(size, class, areas)

\* Budget and Would only bring the bucket up to date.
Budget ==
    /\ Refill
    /\ UNCHANGED <<now, capacity, penalty, util, originated, echoes, r, instances, shares, bucket,
                   telemetry, bulk, allowance>>

----------------------------------------------------------------------------
SetInstances(count) ==
    /\ instances' = count
    /\ capacity' = Burst(RateFor(count), Cost(Full))
    /\ tokens' = AtMost(Refilled, capacity')
    /\ refilledAt' = now
    /\ tx' = Pruned
    /\ UNCHANGED <<now, penalty, util, originated, echoes, r, shares, bucket, telemetry,
                   bulk, allowance>>

\* A bucket whose share changed keeps what it had, clamped to its new size.
SetAreaShares(new) ==
    /\ shares' = new
    /\ bucket' = [a \in Area |->
          IF new[a] = 0 \/ bucket[a] = NoBucket THEN NoBucket
          ELSE IF new[a] = bucket[a].share THEN bucket[a]
          ELSE [bucket[a] EXCEPT !.share = new[a], !.capacity = AreaCapacity(new[a]),
                                 !.tokens = AtMost(@, AreaCapacity(new[a]))]]
    /\ UNCHANGED <<now, budget, penalty, util, tx, originated, echoes, r, instances, telemetry,
                   bulk, allowance>>

\* The loop's telemetry timer: Observe the reading the radio was attached with.
Observe ==
    /\ Refill
    /\ util' = reading
    /\ penalty' = IF reading = "clear" THEN AtLeast(penalty \div 2, 1)
                  ELSE AtMost(penalty * 2, MaxPenalty)
    /\ UNCHANGED <<now, capacity, originated, echoes, r, instances, shares, bucket, telemetry,
                   bulk, allowance>>

\* r never goes down: what is heard is a floor.  It is rounded down here to a
\* whole number.
Reestimated == IF originated < MinSample THEN r ELSE AtLeast(r, 1 + (echoes + 1) \div originated)

NoteEcho ==
    /\ originated > 0 /\ Reestimated =< MaxR
    /\ echoes < MaxR
    /\ echoes' = echoes + 1
    /\ r' = Reestimated
    /\ UNCHANGED <<now, budget, penalty, util, tx, originated, instances, shares, bucket, telemetry,
                   bulk, allowance>>

----------------------------------------------------------------------------
(* The radio and the clock. *)

ChannelChanges ==
    /\ channel' \in Channels
    /\ UNCHANGED <<now, budget, penalty, util, tx, originated, echoes, r, instances, shares,
                   bucket, reading, bulk, allowance>>

\* A session with the radio starts: its metrics are part of the handshake.
Attach ==
    /\ reading' = channel
    /\ UNCHANGED <<now, budget, penalty, util, tx, originated, echoes, r, instances, shares,
                   bucket, channel, bulk, allowance>>

GovTick ==
    /\ now < MaxTime
    /\ now' = now + 1
    /\ allowance' = allowance + RateFor(instances)
    /\ UNCHANGED <<budget, penalty, util, tx, originated, echoes, r, instances, shares,
                   bucket, telemetry, bulk>>

GovNext ==
    \/ AllowCharge
    \/ Budget
    \/ \E count \in Instances : SetInstances(count)
    \/ \E new \in [Area -> Shares] : SetAreaShares(new)
    \/ Observe
    \/ NoteEcho
    \/ ChannelChanges
    \/ Attach
    \/ GovTick

----------------------------------------------------------------------------
(* Properties. *)

\* In no hour is the transmitter on the air longer than the region allows.
DutyRespected == UsedWithinHour =< DutyLimit

\* What the bucket would let go out now is within what the node's share of
\* the ceiling has earned it: no sequence of sends, telemetry readings and
\* changes of the network's size makes airtime out of nothing.
SpentWithinShare == Refilled =< allowance

\* However much forum, file and door traffic has gone out, a control packet
\* still fits: peers that cannot reconcile would ask again and cost more.
ControlRoom ==
    bulk /\ r = R0 => tokens >= Cost(Full)

=============================================================================
