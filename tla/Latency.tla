------------------------------- MODULE Latency ------------------------------
(***************************************************************************)
(* The times of a slot message's record: newSlotMetadata, getDelayInSlot   *)
(* and processSlotMessageMetadata of processor/beacon_message_processor.go *)
(* compute the slot's start, the delay and the latency in Go's fixed-width *)
(* integers: a Duration is an int64 of nanoseconds, a latency a uint32 of  *)
(* milliseconds.  The filter of migrations/002_define_mv.sql then chooses  *)
(* the latencies that count.                                               *)
(*                                                                         *)
(* The widths are parameters, so that TLC can reach their limits.          *)
(***************************************************************************)
EXTENDS Integers

CONSTANTS
  HalfRange,      \* 2^63: a Duration is in -HalfRange..HalfRange-1
  Uint32,         \* 2^32
  Second,         \* time.Second, in nanoseconds
  Millisecond,    \* time.Millisecond
  SecondsPerSlot, \* beaconConfig.SecondsPerSlot
  GenesisTimeNS,  \* in nanoseconds
  LimitMS,        \* 768000, the bound of the materialized view
  MessageSlots,   \* slots that messages carry, uint64
  Times           \* what the wall clock may show, in nanoseconds

ASSUME LatencyAssumption ==
  /\ HalfRange \in Nat \ {0}
  /\ Uint32 \in Nat \ {0}
  /\ Second \in Nat \ {0}
  /\ Millisecond \in Nat \ {0}
  /\ SecondsPerSlot \in Nat \ {0}
  /\ GenesisTimeNS \in Int
  /\ LimitMS \in 0..Uint32
  /\ MessageSlots \subseteq 0..(2 * HalfRange - 1)
  /\ Times \subseteq Int

VARIABLE record  \* the record last cached

None == [slot |-> 0, start |-> 0, arrival |-> 0, latency |-> 0, none |-> TRUE]

\* A conversion to int64, or the result of an int64 multiplication.
int64(x) == ((x + HalfRange) % (2 * HalfRange)) - HalfRange

\* Time.Sub saturates.
Sub(t, u) == IF t - u >= HalfRange THEN HalfRange - 1
             ELSE IF t - u < - HalfRange THEN - HalfRange
             ELSE t - u

\* Duration.Milliseconds divides and truncates towards zero.
Milliseconds(d) == IF d >= 0 THEN d \div Millisecond
                   ELSE - ((- d) \div Millisecond)

\* Mutant: the seconds of a slot are left out.
oneSecondSlots(slot) == int64(int64(slot) * Second)

\* time.Duration(slot) * time.Second * time.Duration(SecondsPerSlot)
sinceGenesis(slot) == int64(int64(int64(slot) * Second) * SecondsPerSlot)

slotStartTime(slot) == GenesisTimeNS + sinceGenesis(slot)

getDelayInSlot(arrivalTime, slot) ==
  Sub(arrivalTime, GenesisTimeNS + sinceGenesis(slot))

\* Mutant: the early message's latency is its distance from the slot start.
absoluteLatency(d) ==
  (IF d >= 0 THEN Milliseconds(d) ELSE - Milliseconds(d)) % Uint32

\* uint32(delay.Milliseconds())
LatencyMS(d) == Milliseconds(d) % Uint32

\* The filter of slot_message_hourly_mv.
InRollup(r) == r.latency < LimitMS

LatencyInit == record = None

\* newSlotMetadata reads the clock, and processSlotMessageMetadata makes the
\* record.  The wall clock may be set back between two messages.
Process(slot, arrival) ==
  record' = [slot |-> slot,
             start |-> slotStartTime(slot),
             arrival |-> arrival,
             latency |-> LatencyMS(getDelayInSlot(arrival, slot)),
             none |-> FALSE]

LatencyNext ==
  \E slot \in MessageSlots, arrival \in Times : Process(slot, arrival)

LatencySpec == LatencyInit /\ [][LatencyNext]_record
-----------------------------------------------------------------------------
\* What the fields mean, in exact arithmetic.
Offset(slot) == slot * (Second * SecondsPerSlot)
Delay(r) == r.arrival - (GenesisTimeNS + Offset(r.slot))

\* Slots that start within the range of a Duration: on mainnet those of the
\* 292 years after genesis.
Representable(slot) == Offset(slot) < HalfRange

LatencyTypeOK ==
  /\ record.slot \in MessageSlots \cup {0}
  /\ record.start \in Int
  /\ record.arrival \in Times \cup {0}
  /\ record.latency \in 0..(Uint32 - 1)
  /\ record.none \in BOOLEAN

\* A message that arrives in or after its slot gets the exact start of the
\* slot and the exact delay in milliseconds, up to the last slot and the
\* longest delay (49 days) that the widths can hold
\* (processSlotMessageMetadata, lines 171-185).
LatencyExact ==
  /\ ~ record.none
  /\ Representable(record.slot)
  /\ Delay(record) >= 0
  /\ Delay(record) < HalfRange
  /\ Delay(record) < Uint32 * Millisecond
  => /\ record.start = GenesisTimeNS + Offset(record.slot)
     /\ record.latency = Delay(record) \div Millisecond

\* The start and the delay are computed in two places from the same slot.
\* Whatever the slot, one that overflows included, the three fields of the
\* record agree: the latency is the arrival minus the start in milliseconds,
\* reduced to 32 bits (lines 171 and 226-233).
FieldsAgree ==
  ~ record.none =>
    record.latency = Milliseconds(Sub(record.arrival, record.start)) % Uint32

\* The latency of an early message wraps, but not into the rollup: a row
\* that passes the filter of the materialized view carries its true delay,
\* unless the message was so early that the wrap comes around to the filter
\* (more than 49 days less 768 s).
RollupHoldsTrueDelays ==
  /\ ~ record.none
  /\ Representable(record.slot)
  /\ Delay(record) >= - HalfRange /\ Delay(record) < HalfRange
  /\ Delay(record) > - ((Uint32 - LimitMS) * Millisecond)
  /\ Delay(record) < Uint32 * Millisecond
  /\ InRollup(record)
  => /\ Delay(record) > - Millisecond
     /\ record.latency = Milliseconds(Delay(record))

\* Once a slot has started, a later arrival never gets a smaller latency,
\* over the delays that 32 bits hold (lines 185 and 226-233).
LatencyGrows ==
  [][/\ ~ record.none /\ record'.slot = record.slot
     /\ Representable(record.slot)
     /\ Delay(record) >= 0 /\ record'.arrival >= record.arrival
     /\ Delay(record)' < Uint32 * Millisecond /\ Delay(record)' < HalfRange
     => record'.latency >= record.latency]_record

\* LatencyMS is the "Arrival delay from slot start" (repository/models.go:31,
\* migrations/001_init_tables.sql:28) of every message whose delay fits its
\* 32 bits, also of one that comes before its slot starts.
LatencyIsArrivalDelay ==
  /\ ~ record.none
  /\ record.arrival >= GenesisTimeNS
  /\ Representable(record.slot)
  /\ Delay(record) > - Uint32 * Millisecond
  /\ Delay(record) < Uint32 * Millisecond
  => record.latency = Milliseconds(Delay(record))
=============================================================================
