----------------------------- MODULE TimesProofs ----------------------------
(***************************************************************************)
(* Proofs about the times in the rows and in the rollup made from them.    *)
(*                                                                         *)
(* First Latency, for every width, every length of a slot and every        *)
(* genesis, and so for the int64 and uint32 of the code.                   *)
(***************************************************************************)
EXTENDS Latency, Rollup, FiniteSetTheorems, TLAPS

\* What Process puts into a record.
Made ==
  ~ record.none =>
    /\ record.slot \in MessageSlots
    /\ record.arrival \in Times
    /\ record.start = slotStartTime(record.slot)
    /\ record.latency = LatencyMS(getDelayInSlot(record.arrival, record.slot))

\* A product of a natural number and a positive one is no smaller.
LEMMA ProductGrows ==
  ASSUME NEW a \in Nat, NEW b \in Nat \ {0}
  PROVE  a * b \in Nat /\ a <= a * b
<1>1. PICK c \in Nat : b = c + 1
  <2>1. b - 1 \in Nat /\ b = (b - 1) + 1
    OBVIOUS
  <2>. QED
    BY <2>1
<1>2. a * (c + 1) = a * c + a
  OBVIOUS
<1>3. a * c \in Nat
  OBVIOUS
<1>. QED
  BY <1>1, <1>2, <1>3

\* Below the modulus the remainder is the number itself.
LEMMA SmallRemainder ==
  ASSUME NEW m \in Nat \ {0}, NEW e \in 0..(m - 1)
  PROVE  e % m = e
OBVIOUS

\* A quotient is below whatever its dividend is a multiple below.
LEMMA QuotientBound ==
  ASSUME NEW m \in Nat \ {0}, NEW u \in Nat, NEW e \in Nat, e < u * m
  PROVE  e \div m \in 0..(u - 1)
OBVIOUS

\* An int64 holds what is in its range.
LEMMA Int64Exact ==
  ASSUME NEW x \in Int, - HalfRange <= x, x < HalfRange
  PROVE  int64(x) = x
<1>1. PICK m \in Nat \ {0} : m = 2 * HalfRange
  BY LatencyAssumption
<1>2. x + HalfRange \in 0..(m - 1)
  BY <1>1, LatencyAssumption
<1>4. (x + HalfRange) % m = x + HalfRange
  BY <1>2, SmallRemainder
<1>. QED
  BY <1>1, <1>4, LatencyAssumption DEF int64

\* None of the three multiplications overflows before the last slot that a
\* Duration can hold.
LEMMA OffsetExact ==
  ASSUME NEW slot \in Nat, Representable(slot)
  PROVE  sinceGenesis(slot) = Offset(slot) /\ Offset(slot) \in Nat
<1>. DEFINE a == slot * Second
            b == a * SecondsPerSlot
<1>1. a \in Nat /\ slot <= a
  BY ProductGrows, LatencyAssumption
<1>2. b \in Nat /\ a <= b
  BY <1>1, ProductGrows, LatencyAssumption
<1>3. b = Offset(slot)
  <2>1. \A i, j, k \in Nat : (i * j) * k = i * (j * k)
    OBVIOUS
  <2>. QED
    BY <2>1, LatencyAssumption DEF Offset
<1>4. b < HalfRange
  BY <1>3 DEF Representable
<1>. HIDE DEF b
<1>5. a < HalfRange /\ slot < HalfRange
  <2>. HIDE DEF a
  <2>. QED
    BY <1>1, <1>2, <1>4, LatencyAssumption
<1>6. int64(slot) = slot
  BY <1>5, Int64Exact, LatencyAssumption
<1>7. int64(a) = a
  <2>. HIDE DEF a
  <2>. QED
    BY <1>1, <1>5, Int64Exact, LatencyAssumption
<1>8. int64(b) = b
  BY <1>2, <1>4, Int64Exact, LatencyAssumption
<1>. USE DEF b
<1>9. sinceGenesis(slot) = b
  BY <1>6, <1>7, <1>8 DEF sinceGenesis
<1>. QED
  BY <1>2, <1>3, <1>9

\* A record's slot and arrival are numbers.
LEMMA MadeTypes ==
  ASSUME Made, ~ record.none
  PROVE  record.slot \in Nat /\ record.arrival \in Int
<1>1. record.slot \in MessageSlots /\ record.arrival \in Times
  BY DEF Made
<1>2. MessageSlots \subseteq Nat
  BY LatencyAssumption
<1>. QED
  BY <1>1, <1>2, LatencyAssumption, Zenon

\* Nor does the subtraction saturate.
LEMMA DelayExact ==
  ASSUME Made, ~ record.none, Representable(record.slot),
         Delay(record) >= - HalfRange, Delay(record) < HalfRange
  PROVE  /\ Delay(record) \in Int
         /\ record.start = GenesisTimeNS + Offset(record.slot)
         /\ record.latency = LatencyMS(Delay(record))
<1>1. record.slot \in Nat /\ record.arrival \in Int
  BY MadeTypes
<1>2. PICK o \in Nat :
        o = Offset(record.slot) /\ sinceGenesis(record.slot) = o
  <2>1. /\ sinceGenesis(record.slot) = Offset(record.slot)
        /\ Offset(record.slot) \in Nat
    BY <1>1, OffsetExact
  <2>. QED
    BY <2>1
<1>3. Delay(record) = record.arrival - (GenesisTimeNS + o)
  BY <1>2 DEF Delay
<1>4. Delay(record) \in Int
  BY <1>1, <1>3, LatencyAssumption
<1>5. getDelayInSlot(record.arrival, record.slot) = Delay(record)
  BY <1>1, <1>2, <1>3, LatencyAssumption DEF getDelayInSlot, Sub
<1>. QED
  BY <1>2, <1>4, <1>5 DEF Made, slotStartTime

\* Every record is one that Process made.
THEOREM RecordsMade == LatencySpec => []Made
<1>1. LatencyInit => Made
  BY DEF LatencyInit, Made, None
<1>2. Made /\ [LatencyNext]_record => Made'
  BY DEF Made, LatencyNext, Process
<1>. QED
  BY <1>1, <1>2, PTL DEF LatencySpec

\* The start and the latency are exact for a message that is not early, up
\* to the limits of the widths.
THEOREM ExactLatency == LatencySpec => []LatencyExact
<1>1. Made => LatencyExact
  <2>. SUFFICES ASSUME Made, ~ record.none, Representable(record.slot),
                       Delay(record) >= 0, Delay(record) < HalfRange,
                       Delay(record) < Uint32 * Millisecond
                PROVE  /\ record.start = GenesisTimeNS + Offset(record.slot)
                       /\ record.latency = Delay(record) \div Millisecond
    BY DEF LatencyExact
  <2>1. Delay(record) \in Int
    <3>1. record.slot \in Nat /\ record.arrival \in Int
      BY MadeTypes
    <3>2. Offset(record.slot) \in Nat
      BY <3>1, OffsetExact
    <3>. QED
      BY <3>1, <3>2, LatencyAssumption DEF Delay
  <2>2. PICK d \in Nat : d = Delay(record)
    BY <2>1
  <2>3. /\ record.start = GenesisTimeNS + Offset(record.slot)
        /\ record.latency = LatencyMS(d)
    BY <2>2, DelayExact, LatencyAssumption
  <2>4. d \div Millisecond \in 0..(Uint32 - 1)
    BY <2>2, QuotientBound, LatencyAssumption
  <2>5. (d \div Millisecond) % Uint32 = d \div Millisecond
    BY <2>4, SmallRemainder, LatencyAssumption, Zenon
  <2>. QED
    BY <2>2, <2>3, <2>5 DEF LatencyMS, Milliseconds
<1>. QED
  BY <1>1, RecordsMade, PTL

\* Latencies of one slot grow with the arrival time.
THEOREM LatencyMonotone == LatencySpec => LatencyGrows
<1>. DEFINE Grows ==
       /\ ~ record.none /\ record'.slot = record.slot
       /\ Representable(record.slot)
       /\ Delay(record) >= 0 /\ record'.arrival >= record.arrival
       /\ Delay(record)' < Uint32 * Millisecond /\ Delay(record)' < HalfRange
       => record'.latency >= record.latency
<1>1. Made /\ LatencyExact /\ Made' /\ LatencyExact' /\ [LatencyNext]_record
      => [Grows]_record
  <2>. SUFFICES ASSUME Made, LatencyExact, Made', LatencyExact', LatencyNext,
                       ~ record.none, record'.slot = record.slot,
                       Representable(record.slot), Delay(record) >= 0,
                       record'.arrival >= record.arrival,
                       Delay(record)' < Uint32 * Millisecond,
                       Delay(record)' < HalfRange
                PROVE  record'.latency >= record.latency
    OBVIOUS
  <2>1. ~ record'.none
    BY DEF LatencyNext, Process
  <2>2. record.slot \in Nat /\ record.arrival \in Int
    BY MadeTypes
  <2>3. record'.arrival \in Int
    BY <2>1, LatencyAssumption, Zenon DEF Made
  <2>4. PICK o \in Nat : o = Offset(record.slot)
    <3>1. Offset(record.slot) \in Nat
      BY <2>2, OffsetExact
    <3>. QED
      BY <3>1
  <2>5. /\ Delay(record) = record.arrival - (GenesisTimeNS + o)
        /\ Delay(record)' = record'.arrival - (GenesisTimeNS + o)
    BY <2>4 DEF Delay, Offset
  <2>6. PICK d \in Nat, dd \in Nat :
          /\ d = Delay(record) /\ dd = Delay(record)'
          /\ d <= dd
    <3>. DEFINE d == record.arrival - (GenesisTimeNS + o)
                dd == record'.arrival - (GenesisTimeNS + o)
    <3>1. d \in Nat /\ dd \in Nat /\ d <= dd
      BY <2>2, <2>3, <2>5, LatencyAssumption
    <3>. QED
      BY <2>5, <3>1
  <2>7. PICK k \in Nat : k = Uint32 * Millisecond
    BY LatencyAssumption
  <2>8. dd < k /\ dd < HalfRange /\ d < k /\ d < HalfRange
    BY <2>6, <2>7, LatencyAssumption
  <2>9. record.latency = d \div Millisecond
    BY <2>6, <2>7, <2>8 DEF LatencyExact
  <2>10. record'.latency = dd \div Millisecond
    <3>1. Representable(record'.slot)
      OBVIOUS
    <3>. QED
      BY <2>1, <2>6, <2>7, <2>8, <3>1 DEF LatencyExact, Representable, Offset
  <2>11. d \div Millisecond <= dd \div Millisecond
    <3>1. \A m \in Nat \ {0}, a \in Nat, b \in Nat :
            a <= b => a \div m <= b \div m
      OBVIOUS
    <3>. QED
      BY <2>6, <3>1, LatencyAssumption
  <2>12. d \div Millisecond \in Nat /\ dd \div Millisecond \in Nat
    BY LatencyAssumption
  <2>. QED
    BY <2>9, <2>10, <2>11, <2>12
<1>. QED
  BY <1>1, RecordsMade, ExactLatency, PTL DEF LatencySpec, LatencyGrows

\* The three fields agree, whatever overflows.
THEOREM FieldsConsistent == LatencySpec => []FieldsAgree
<1>1. Made => FieldsAgree
  BY DEF Made, FieldsAgree, LatencyMS, getDelayInSlot, slotStartTime
<1>. QED
  BY <1>1, RecordsMade, PTL

\* Rows of early messages do not pass the filter of the materialized view.
THEOREM RollupDelays == LatencySpec => []RollupHoldsTrueDelays
<1>1. Made => RollupHoldsTrueDelays
  <2>. SUFFICES ASSUME Made, ~ record.none, Representable(record.slot),
                       Delay(record) >= - HalfRange, Delay(record) < HalfRange,
                       Delay(record) > - ((Uint32 - LimitMS) * Millisecond),
                       Delay(record) < Uint32 * Millisecond,
                       InRollup(record)
                PROVE  /\ Delay(record) > - Millisecond
                       /\ record.latency = Milliseconds(Delay(record))
    BY DEF RollupHoldsTrueDelays
  <2>1. PICK d \in Int : d = Delay(record)
    BY DelayExact
  <2>2. record.latency = Milliseconds(d) % Uint32
    BY <2>1, DelayExact DEF LatencyMS
  <2>3. CASE d >= 0
    <3>1. d \in Nat /\ d < Uint32 * Millisecond
      BY <2>1, <2>3
    <3>2. d \div Millisecond \in 0..(Uint32 - 1)
      BY <3>1, QuotientBound, LatencyAssumption, Zenon
    <3>3. (d \div Millisecond) % Uint32 = d \div Millisecond
      BY <3>2, SmallRemainder, LatencyAssumption, Zenon
    <3>. QED
      BY <2>1, <2>2, <2>3, <3>3, LatencyAssumption DEF Milliseconds
  <2>4. CASE d < 0
    <3>1. PICK q \in Nat : q = (- d) \div Millisecond
      <4>1. \A m \in Nat \ {0}, e \in Nat : e \div m \in Nat
        OBVIOUS
      <4>2. - d \in Nat
        BY <2>4
      <4>. QED
        BY <4>1, <4>2, LatencyAssumption, Zenon
    <3>2. q < Uint32 - LimitMS
      <4>1. PICK u \in Nat : u = Uint32 - LimitMS
        BY LatencyAssumption
      <4>2. PICK k \in Int : k = u * Millisecond
        BY <4>1, LatencyAssumption
      <4>3. d > - k
        BY <2>1, <4>1, <4>2
      <4>4. - d \in Nat /\ - d < u * Millisecond
        BY <2>4, <4>2, <4>3
      <4>5. (- d) \div Millisecond \in 0..(u - 1)
        BY <4>4, QuotientBound, LatencyAssumption, Zenon
      <4>. QED
        BY <3>1, <4>1, <4>5
    <3>3. Milliseconds(d) = - q
      BY <2>4, <3>1 DEF Milliseconds
    <3>4. CASE q = 0
      <4>1. - d < Millisecond
        <5>1. \A m \in Nat \ {0}, e \in Nat : e \div m = 0 => e < m
          OBVIOUS
        <5>2. - d \in Nat
          BY <2>4
        <5>. QED
          BY <3>1, <3>4, <5>1, <5>2, LatencyAssumption
      <4>2. 0 % Uint32 = 0
        BY SmallRemainder, LatencyAssumption
      <4>. QED
        BY <2>1, <2>2, <3>3, <3>4, <4>1, <4>2, LatencyAssumption
    <3>5. CASE q > 0
      <4>1. (- q) % Uint32 = Uint32 - q
        <5>1. \A m \in Nat \ {0} : \A e \in 0..(m - 1) : (e - m) % m = e
          OBVIOUS
        <5>2. Uint32 - q \in 0..(Uint32 - 1)
          BY <3>2, <3>5, LatencyAssumption
        <5>3. (Uint32 - q) - Uint32 = - q
          BY LatencyAssumption
        <5>. QED
          BY <5>1, <5>2, <5>3, LatencyAssumption, Zenon
      <4>2. Uint32 - q >= LimitMS
        BY <3>2, LatencyAssumption
      <4>3. record.latency < LimitMS
        BY DEF InRollup
      <4>. QED
        BY <2>2, <3>3, <4>1, <4>2, <4>3, LatencyAssumption
    <3>. QED
      BY <3>4, <3>5
  <2>. QED
    BY <2>3, <2>4
<1>. QED
  BY <1>1, RecordsMade, PTL
-----------------------------------------------------------------------------
(***************************************************************************)
(* Rollup, for every length of an hour and of a slot, every margin and     *)
(* every filter that leave room for the delays.                            *)
(***************************************************************************)

\* When the refreshes come, and what has happened by then.
Timing ==
  /\ now <= due * Hour + Late
  /\ \A r \in pending : now <= r.arrival + SaveDelay
  /\ \A h \in DOMAIN rollup : now >= (h + 2) * Hour - Early
  /\ Len(selected) = due - 1

RollupInv == TypeOK /\ Timing /\ EachHourOnce /\ NoRowTooLate

\* The linear part of the assumption.
LEMMA Bounds ==
  /\ Hour \in Nat \ {0} /\ SlotTime \in Nat /\ GenesisTime \in Nat
  /\ Margin \in Nat /\ Limit \in Nat /\ Early \in Nat /\ Late \in Nat
  /\ SaveDelay \in Nat /\ Slots \subseteq Nat
  /\ Early <= Margin /\ Late + Margin < Hour
  /\ Limit + SaveDelay + Early <= Hour
  BY RollupAssumption

\* The hour of a time is the one it is in.
LEMMA HourBounds ==
  ASSUME NEW t \in Nat
  PROVE  /\ t \div Hour \in Nat
         /\ (t \div Hour) * Hour <= t
         /\ t < (t \div Hour) * Hour + Hour
<1>1. \A m \in Nat \ {0}, a \in Nat :
        /\ a \div m \in Nat
        /\ m * (a \div m) <= a
        /\ a < m * (a \div m) + m
  OBVIOUS
<1>2. PICK q \in Nat : q = t \div Hour
  BY <1>1, Bounds
<1>3. Hour * q <= t /\ t < Hour * q + Hour
  BY <1>1, <1>2, Bounds
<1>4. Hour * q = q * Hour
  BY Bounds
<1>. QED
  BY <1>2, <1>3, <1>4

\* There is only one.
LEMMA HourUnique ==
  ASSUME NEW t \in Nat, NEW k \in Nat, k * Hour <= t, t < k * Hour + Hour
  PROVE  t \div Hour = k
<1>1. \A m \in Nat \ {0}, q \in Int : \A r \in 0..(m - 1) :
        (q * m + r) \div m = q
  OBVIOUS
<1>2. PICK x \in Nat : x = k * Hour
  BY Bounds
<1>3. t - x \in 0..(Hour - 1) /\ t = x + (t - x)
  BY <1>2, Bounds
<1>4. (k * Hour + (t - x)) \div Hour = k
  BY <1>1, <1>3, Bounds
<1>. QED
  BY <1>2, <1>3, <1>4

\* A refresh within its bounds selects the hour two before the one it is
\* due at.
LEMMA Selection ==
  ASSUME TypeOK, Timing, Refresh
  PROVE  window = due - 2
<1>1. PICK x \in Nat : x = due * Hour
  BY Bounds DEF TypeOK
<1>2. now + Margin \in Nat /\ x <= now + Margin /\ now + Margin < x + Hour
  <2>1. now \in Nat /\ x - Early <= now /\ now <= x + Late
    BY <1>1 DEF TypeOK, Timing, Refresh
  <2>. QED
    BY <1>1, <2>1, Bounds
<1>3. (now + Margin) \div Hour = due
  BY <1>1, <1>2, HourUnique DEF TypeOK
<1>. QED
  BY <1>3 DEF window, current_hour

\* A record that is still pending when its hour has been rolled up is too
\* slow to count.
LEMMA TooSlow ==
  ASSUME TypeOK, Timing, NEW r \in pending, HourOf(r.slot) \in DOMAIN rollup
  PROVE  ~ Fast(r)
<1>1. r.slot \in Nat /\ r.arrival \in Nat
  <2>1. r \in [slot : Slots, arrival : 0..now] /\ now \in Nat
    BY DEF TypeOK
  <2>2. r.slot \in Slots /\ r.arrival \in 0..now
    BY <2>1
  <2>3. Slots \subseteq Nat
    BY Bounds
  <2>4. r.arrival \in Nat
    BY <2>1, <2>2
  <2>. QED
    BY <2>2, <2>3, <2>4, Zenon
<1>2. PICK s \in Nat : s = StartTime(r.slot)
  BY <1>1, Bounds DEF StartTime
<1>3. PICK h \in Nat : h = HourOf(r.slot) /\ s < h * Hour + Hour
  BY <1>2, HourBounds DEF HourOf
<1>4. PICK x \in Nat : x = h * Hour
  BY <1>3, Bounds
<1>5. PICK y \in Nat : y = (h + 2) * Hour /\ y = x + Hour + Hour
  <2>1. \A a, b \in Nat : (a + 2) * b = a * b + b + b
    OBVIOUS
  <2>. QED
    BY <1>4, <2>1, Bounds
<1>6. now >= x + Hour + Hour - Early
  <2>1. now >= y - Early
    BY <1>3, <1>5 DEF Timing
  <2>. QED
    BY <1>5, <2>1, Bounds
<1>7. now <= r.arrival + SaveDelay
  BY DEF Timing
<1>8. SUFFICES ASSUME r.arrival < s + Limit PROVE FALSE
  BY <1>2 DEF Fast
<1>9. now \in Nat
  BY DEF TypeOK
<1>. QED
  BY <1>1, <1>3, <1>4, <1>6, <1>7, <1>8, <1>9, Bounds

\* One step preserves the invariant.
LEMMA RollupStep == RollupInv /\ [Next]_vars => RollupInv'
<1>. SUFFICES ASSUME RollupInv, [Next]_vars PROVE RollupInv'
  OBVIOUS
<1>. USE Bounds
<1>0. TypeOK /\ Timing /\ EachHourOnce /\ NoRowTooLate
  BY DEF RollupInv
<1>1. CASE Tick
  <2>1. TypeOK'
    BY <1>0, <1>1 DEF TypeOK, Tick
  <2>2. Timing'
    <3>1. PICK x \in Nat : x = due * Hour
      BY <1>0 DEF TypeOK
    <3>2. now' <= x + Late
      BY <1>0, <1>1, <3>1 DEF TypeOK, Tick
    <3>3. \A r \in pending : now' <= r.arrival + SaveDelay
      BY <1>0, <1>1 DEF TypeOK, Tick
    <3>4. \A h \in DOMAIN rollup : now' >= (h + 2) * Hour - Early
      <4>1. ASSUME NEW h \in DOMAIN rollup
            PROVE  now' >= (h + 2) * Hour - Early
        <5>1. PICK y \in Int : y = (h + 2) * Hour
          BY <1>0 DEF TypeOK
        <5>. QED
          BY <1>0, <1>1, <5>1 DEF TypeOK, Timing, Tick
      <4>. QED
        BY <4>1
    <3>. QED
      BY <1>0, <1>1, <3>1, <3>2, <3>3, <3>4 DEF Timing, Tick
  <2>3. EachHourOnce' /\ NoRowTooLate'
    BY <1>0, <1>1 DEF EachHourOnce, NoRowTooLate, Tick
  <2>. QED
    BY <2>1, <2>2, <2>3 DEF RollupInv
<1>2. CASE Refresh
  <2>1. window = due - 2 /\ window \in Int
    BY <1>0, <1>2, Selection DEF TypeOK
  <2>2. DOMAIN rollup' \subseteq DOMAIN rollup \cup {window}
    BY <1>2 DEF Refresh
  <2>3. \A h \in DOMAIN rollup' :
          \/ h \in DOMAIN rollup /\ h # window /\ rollup'[h] = rollup[h]
          \/ /\ h = window
             /\ rollup'[h] = {r \in rows : HourOf(r.slot) = window /\ r.fast}
          \/ rollup' = rollup
    BY <1>2 DEF Refresh
  <2>4. TypeOK'
    <3>1. selected' \in Seq(Int) /\ due' \in Nat \ {0}
      <4>1. selected \in Seq(Int) /\ due \in Nat \ {0}
        BY <1>0 DEF TypeOK
      <4>2. selected' = Append(selected, window) /\ due' = due + 1
        BY <1>2 DEF Refresh
      <4>. QED
        BY <2>1, <4>1, <4>2
    <3>2. \A h \in DOMAIN rollup' : rollup'[h] \subseteq rows
      BY <1>0, <2>3 DEF TypeOK
    <3>. QED
      BY <1>0, <1>2, <2>1, <2>2, <3>1, <3>2, Zenon DEF TypeOK, Refresh
  <2>5. EachHourOnce' /\ Len(selected') = due' - 1
    <3>1. selected \in Seq(Int) /\ due \in Nat \ {0} /\ Len(selected) = due - 1
      BY <1>0 DEF TypeOK, Timing
    <3>2. selected' = Append(selected, due - 2) /\ due' = due + 1
      BY <1>2, <2>1 DEF Refresh
    <3>3. \A k \in 1..Len(selected) : selected[k] = k - 2
      BY <1>0, <3>1 DEF EachHourOnce
    <3>4. \A k \in 1..Len(selected') : selected'[k] = k - 2
      BY <3>1, <3>2, <3>3
    <3>. QED
      BY <3>1, <3>2, <3>4 DEF EachHourOnce
  <2>6. Timing'
    <3>1. PICK x \in Nat : x = due * Hour
      BY <1>0 DEF TypeOK
    <3>2. (due + 1) * Hour = x + Hour
      <4>1. \A a, b \in Nat : (a + 1) * b = a * b + b
        OBVIOUS
      <4>2. due \in Nat
        BY <1>0 DEF TypeOK
      <4>. QED
        BY <3>1, <4>1, <4>2
    <3>3. now <= (due + 1) * Hour + Late
      <4>1. now \in Nat /\ now <= x + Late
        BY <1>0, <3>1 DEF TypeOK, Timing
      <4>2. now <= (x + Hour) + Late
        BY <4>1, Bounds
      <4>. QED
        BY <3>2, <4>2
    <3>4. \A h \in DOMAIN rollup' : now >= (h + 2) * Hour - Early
      <4>1. (window + 2) * Hour = x
        BY <1>0, <2>1, <3>1 DEF TypeOK
      <4>2. now >= (window + 2) * Hour - Early
        BY <1>2, <3>1, <4>1 DEF Refresh
      <4>. QED
        BY <1>0, <2>2, <4>2 DEF Timing
    <3>. QED
      BY <1>0, <1>2, <2>5, <3>3, <3>4 DEF Timing, Refresh
  <2>7. NoRowTooLate'
    BY <1>0, <1>2, <2>2, <2>3 DEF NoRowTooLate, Refresh, HourOf, StartTime
  <2>. QED
    BY <2>4, <2>5, <2>6, <2>7 DEF RollupInv
<1>3. ASSUME NEW slot \in Slots, Arrive(slot)
      PROVE  RollupInv'
  <2>1. TypeOK'
    BY <1>0, <1>3 DEF TypeOK, Arrive
  <2>2. Timing'
    BY <1>0, <1>3 DEF TypeOK, Timing, Arrive
  <2>. QED
    BY <1>0, <1>3, <2>1, <2>2
    DEF RollupInv, EachHourOnce, NoRowTooLate, Arrive
<1>4. ASSUME NEW slot \in Slots, Save(slot)
      PROVE  RollupInv'
  <2>1. \A r \in rows' \ rows : \E p \in pending :
          p.slot = r.slot /\ r.fast = Fast(p) /\ r.slot = slot
    BY <1>4 DEF Save
  <2>2. rows \subseteq rows' /\ pending' \subseteq pending
    BY <1>4 DEF Save
  <2>3. TypeOK'
    <3>1. rows' \subseteq [slot : Slots, fast : BOOLEAN]
      <4>1. \A p \in pending : Fast(p) \in BOOLEAN
        BY DEF Fast
      <4>. QED
        BY <1>0, <1>4, <4>1 DEF TypeOK, Save
    <3>. QED
      BY <1>0, <1>4, <2>2, <3>1 DEF TypeOK, Save
  <2>4. Timing'
    BY <1>0, <1>4, <2>2 DEF Timing, Save
  <2>5. NoRowTooLate'
    <3>. SUFFICES ASSUME NEW r \in rows', r.fast,
                         HourOf(r.slot) \in DOMAIN rollup
                  PROVE  r \in rollup[HourOf(r.slot)]
      BY <1>4 DEF NoRowTooLate, Save, HourOf, StartTime
    <3>1. CASE r \in rows
      BY <1>0, <3>1 DEF NoRowTooLate
    <3>2. CASE r \notin rows
      <4>1. PICK p \in pending : p.slot = r.slot /\ r.fast = Fast(p)
        BY <2>1, <3>2, Zenon
      <4>2. ~ Fast(p)
        BY <1>0, <4>1, TooSlow
      <4>. QED
        BY <4>1, <4>2
    <3>. QED
      BY <3>1, <3>2
  <2>. QED
    BY <1>0, <1>4, <2>3, <2>4, <2>5 DEF RollupInv, EachHourOnce, Save
<1>5. ASSUME NEW slot \in Slots, SaveFails(slot)
      PROVE  RollupInv'
  <2>1. pending' \subseteq pending
    BY <1>5 DEF SaveFails
  <2>. QED
    BY <1>0, <1>5, <2>1
    DEF RollupInv, TypeOK, Timing, EachHourOnce, NoRowTooLate, SaveFails
<1>6. CASE UNCHANGED vars
  BY <1>0, <1>6
  DEF RollupInv, TypeOK, Timing, EachHourOnce, NoRowTooLate, vars
<1>. QED
  BY <1>1, <1>2, <1>3, <1>4, <1>5, <1>6 DEF Next

\* The invariant.
THEOREM RollupInvariant == Spec => []RollupInv
<1>1. Init => RollupInv
  BY Bounds
  DEF Init, RollupInv, TypeOK, Timing, EachHourOnce, NoRowTooLate
<1>. QED
  BY <1>1, RollupStep, PTL DEF Spec

\* Every hour is selected by exactly one refresh.
THEOREM HoursOnce == Spec => []EachHourOnce
<1>1. RollupInv => EachHourOnce
  BY DEF RollupInv
<1>. QED
  BY <1>1, RollupInvariant, PTL

\* No row that counts is saved after its hour was rolled up.
THEOREM RowsInTime == Spec => []NoRowTooLate
<1>1. RollupInv => NoRowTooLate
  BY DEF RollupInv
<1>. QED
  BY <1>1, RollupInvariant, PTL
-----------------------------------------------------------------------------
\* Multiples of the slot's length are in the order of their factors.
LEMMA SlotOrder ==
  ASSUME NEW a \in Int, NEW b \in Int, a * SlotTime < b * SlotTime
  PROVE  a < b
<1>1. \A m \in Nat, d \in Nat : d * m >= 0
  OBVIOUS
<1>2. SUFFICES ASSUME b <= a PROVE FALSE
  OBVIOUS
<1>3. (a - b) * SlotTime >= 0
  BY <1>1, <1>2, Bounds
<1>4. (a - b) * SlotTime = a * SlotTime - b * SlotTime
  BY Bounds
<1>. QED
  BY <1>3, <1>4, Bounds

\* Slots start at different times.
LEMMA StartTimesDiffer ==
  ASSUME NEW a \in Nat, NEW b \in Nat, StartTime(a) = StartTime(b)
  PROVE  a = b
<1>1. PICK x \in Int : x = a * SlotTime
  BY Bounds
<1>2. PICK y \in Int : y = b * SlotTime
  BY Bounds
<1>3. x = y
  BY <1>1, <1>2, Bounds DEF StartTime
<1>4. \A m \in Nat \ {0}, d \in Nat \ {0} : d * m > 0
  OBVIOUS
<1>5. SlotTime \in Nat \ {0}
  BY RollupAssumption
<1>6. (a - b) * SlotTime = x - y /\ (b - a) * SlotTime = y - x
  BY <1>1, <1>2, Bounds
<1>. QED
  BY <1>3, <1>4, <1>5, <1>6

\* The slots that start in an hour are at most SlotsPerHour in a row,
\* wherever in a slot the hour begins.
LEMMA SlotsOfHour ==
  ASSUME NEW h \in Int
  PROVE  \E a \in Int : \A slot \in Nat :
           HourOf(slot) = h => slot \in a .. a + SlotsPerHour - 1
<1>. DEFINE c == h * Hour - GenesisTime
<1>0. SlotTime \in Nat \ {0} /\ SlotsPerHour \in Nat
      /\ Hour = SlotsPerHour * SlotTime
  BY RollupAssumption
<1>1. c \in Int
  BY Bounds
<1>. HIDE DEF c
<1>2. PICK q \in Int : q * SlotTime <= c - 1 /\ c - 1 < q * SlotTime + SlotTime
  <2>1. \A m \in Nat \ {0}, x \in Int : /\ x \div m \in Int
                                        /\ (x \div m) * m <= x
                                        /\ x < (x \div m) * m + m
    OBVIOUS
  <2>2. c - 1 \in Int
    BY <1>1
  <2>3. /\ (c - 1) \div SlotTime \in Int
        /\ ((c - 1) \div SlotTime) * SlotTime <= c - 1
        /\ c - 1 < ((c - 1) \div SlotTime) * SlotTime + SlotTime
    BY <1>0, <2>1, <2>2, Zenon
  <2>. QED
    BY <2>3, Zenon
<1>3. ASSUME NEW slot \in Nat, HourOf(slot) = h
      PROVE  slot \in q + 1 .. q + 1 + SlotsPerHour - 1
  <2>1. PICK x \in Int : x = slot * SlotTime
    BY Bounds
  <2>2. c <= x /\ x < c + Hour
    <3>1. StartTime(slot) \in Nat
      BY Bounds DEF StartTime
    <3>2. h * Hour <= StartTime(slot) /\ StartTime(slot) < h * Hour + Hour
      BY <1>3, <3>1, HourBounds DEF HourOf
    <3>3. PICK y \in Int : y = h * Hour
      BY Bounds
    <3>. QED
      BY <2>1, <3>2, <3>3, Bounds DEF StartTime, c
  <2>3. PICK z \in Int : z = q * SlotTime
    BY Bounds
  <2>4. (q + 1 + SlotsPerHour) * SlotTime = z + SlotTime + Hour
    BY <1>0, <2>3
  <2>5. q < slot
    BY <1>1, <1>2, <2>1, <2>2, <2>3, SlotOrder
  <2>6. slot < q + 1 + SlotsPerHour
    <3>1. x < z + SlotTime + Hour
      BY <1>0, <1>1, <1>2, <2>2, <2>3, Bounds
    <3>. QED
      BY <1>0, <2>1, <2>4, <3>1, SlotOrder
  <2>. QED
    BY <1>0, <2>5, <2>6
<1>. QED
  BY <1>3

\* When the view counts SlotsPerHour start times in an hour, it has a row for
\* every slot that starts in it: so many are there, and no more.
LEMMA CountMeansWhole ==
  ASSUME TypeOK, NEW h \in Int, slot_count(h) = SlotsPerHour,
         NEW slot \in Slots, HourOf(slot) = h
  PROVE  \E r \in rows : r.slot = slot
<1>0. SlotsPerHour \in Nat /\ Slots \subseteq Nat
  BY RollupAssumption
<1>1. PICK a \in Int : \A s \in Nat :
        HourOf(s) = h => s \in a .. a + SlotsPerHour - 1
  BY SlotsOfHour
<1>. DEFINE I == a .. a + SlotsPerHour - 1
            T == {StartTime(s) : s \in I}
            D == {StartTime(r.slot) :
                    r \in {r \in rows : HourOf(r.slot) = h}}
<1>2. IsFiniteSet(I) /\ Cardinality(I) = SlotsPerHour
  <2>1. /\ IsFiniteSet(I)
        /\ Cardinality(I) = IF a > a + SlotsPerHour - 1 THEN 0
                            ELSE (a + SlotsPerHour - 1) - a + 1
    BY <1>0, FS_Interval
  <2>. QED
    BY <1>0, <2>1, RollupAssumption
<1>3. IsFiniteSet(T) /\ Cardinality(T) <= SlotsPerHour
  <2>1. [s \in I |-> StartTime(s)] \in Surjection(I, T)
    BY DEF Surjection
  <2>. HIDE DEF I, T
  <2>. QED
    BY <1>2, <2>1, FS_Surjection
<1>4. \A r \in rows : r.slot \in Slots
  BY DEF TypeOK
<1>5. D \subseteq T
  BY <1>0, <1>1, <1>4, Zenon
<1>6. D = T
  <2>1. Cardinality(D) = SlotsPerHour
    BY DEF slot_count
  <2>2. IsFiniteSet(D) /\ Cardinality(D) <= Cardinality(T)
        /\ (Cardinality(D) = Cardinality(T) => D = T)
    BY <1>3, <1>5, FS_Subset, Zenon
  <2>3. Cardinality(T) \in Nat
    BY <1>3, FS_CardinalityType
  <2>. HIDE DEF D, T
  <2>. QED
    BY <1>0, <1>3, <2>1, <2>2, <2>3
<1>7. slot \in Nat /\ slot \in I
  BY <1>0, <1>1
<1>8. StartTime(slot) \in D
  BY <1>6, <1>7
<1>9. PICK r \in rows : StartTime(r.slot) = StartTime(slot)
  BY <1>8
<1>. QED
  BY <1>0, <1>4, <1>7, <1>9, StartTimesDiffer, Zenon

\* One step keeps the rolled-up hours whole: rows are never removed, and an
\* hour is added only when the count is full.
LEMMA WholeHoursStep ==
  TypeOK /\ OnlyWholeHours /\ [Next]_vars => OnlyWholeHours'
<1>. SUFFICES ASSUME TypeOK, OnlyWholeHours, [Next]_vars
              PROVE  OnlyWholeHours'
  OBVIOUS
<1>1. CASE UNCHANGED rollup
  <2>1. rows \subseteq rows'
    BY <1>1 DEF Next, Tick, Refresh, Arrive, Save, SaveFails, vars
  <2>. QED
    BY <1>1, <2>1 DEF OnlyWholeHours, HourOf, StartTime
<1>2. CASE Refresh
  <2>1. window \in Int
    BY Bounds DEF window, current_hour, TypeOK
  <2>2. rows' = rows
    BY <1>2 DEF Refresh
  <2>3. ASSUME NEW h \in DOMAIN rollup'
        PROVE  \/ h \in DOMAIN rollup
               \/ h = window /\ slot_count(window) = SlotsPerHour
    BY <1>2, <2>3 DEF Refresh
  <2>4. ASSUME NEW h \in DOMAIN rollup', NEW slot \in Slots, HourOf(slot) = h
        PROVE  \E r \in rows : r.slot = slot
    BY <2>1, <2>3, <2>4, CountMeansWhole DEF OnlyWholeHours
  <2>. QED
    BY <2>2, <2>4 DEF OnlyWholeHours, HourOf, StartTime
<1>. QED
  BY <1>1, <1>2 DEF Next, Tick, Arrive, Save, SaveFails, vars

\* No hour is rolled up without a row for each of its slots: a node that was
\* down for a part of an hour is not in the rollup of that hour.
THEOREM WholeHoursOnly == Spec => []OnlyWholeHours
<1>1. Init => OnlyWholeHours
  BY DEF Init, OnlyWholeHours
<1>2. RollupInv => TypeOK
  BY DEF RollupInv
<1>. QED
  BY <1>1, <1>2, RollupInvariant, WholeHoursStep, PTL DEF Spec
=============================================================================
