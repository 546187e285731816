------------------------------- MODULE Rollup -------------------------------
(***************************************************************************)
(* The hourly rollup of one watcher node's rows: the materialized view of  *)
(* migrations/002_define_mv.sql over the table slot_message_stats, which   *)
(* the flush loop of processor/beacon_message_processor.go fills.          *)
(*                                                                         *)
(* ClickHouse refreshes the view once an hour, not exactly on the hour.    *)
(* The query groups by node, so other nodes' rows do not matter.           *)
(***************************************************************************)
EXTENDS Integers, FiniteSets, Sequences

CONSTANTS
  Hour,          \* the length of an hour
  SlotTime,      \* the length of a slot
  SlotsPerHour,  \* 300, the count the view asks for
  GenesisTime,   \* start of slot 0; hours are counted from time 0
  Margin,        \* the minute added to now()
  Limit,         \* 768 s: rows with this latency or more are filtered out
  Early, Late,   \* how far off the hour a refresh may be
  SaveDelay,     \* bound on the time from arrival to the saved row: one
                 \* flush interval and one save
  Slots,         \* the slots messages carry
  MaxTime        \* bound: the clock stops here

ASSUME RollupAssumption ==
  /\ Hour \in Nat \ {0}
  /\ SlotTime \in Nat \ {0}
  /\ SlotsPerHour \in Nat \ {0}
  /\ Hour = SlotsPerHour * SlotTime
  /\ GenesisTime \in Nat
  /\ Margin \in Nat
  /\ Limit \in Nat
  /\ Early \in Nat /\ Early <= Margin
  /\ Late \in Nat /\ Late + Margin < Hour
  /\ SaveDelay \in Nat
  /\ Limit + SaveDelay + Early <= Hour
  /\ Slots \subseteq Nat
  /\ MaxTime \in Nat

VARIABLES
  now,
  pending,   \* records not yet saved: [slot, arrival]
  rows,      \* rows of slot_message_stats: [slot, fast], where fast says that
             \* latency_ms < 768000
  due,       \* the hour of the next refresh
  selected,  \* the hours that the refreshes so far selected
  rollup     \* the rows each hour of the rollup was made from

vars == <<now, pending, rows, due, selected, rollup>>

StartTime(slot) == GenesisTime + slot * SlotTime

HourOf(slot) == StartTime(slot) \div Hour

\* The latency of an early message wraps to a large one (see Latency).
Fast(r) == /\ r.arrival >= StartTime(r.slot)
           /\ r.arrival < StartTime(r.slot) + Limit

Init ==
  /\ now = 0
  /\ pending = {}
  /\ rows = {}
  /\ due = 1
  /\ selected = << >>
  /\ rollup = << >>

Arrive(slot) ==
  /\ pending' = pending \cup {[slot |-> slot, arrival |-> now]}
  /\ UNCHANGED <<now, rows, due, selected, rollup>>

\* flushCompletedSlots saves the batch of a slot.
Save(slot) ==
  LET batch == {r \in pending : r.slot = slot} IN
  /\ batch # {}
  /\ pending' = pending \ batch
  /\ rows' = rows \cup {[slot |-> r.slot, fast |-> Fast(r)] : r \in batch}
  /\ UNCHANGED <<now, due, selected, rollup>>

\* The insert fails, and the batch is given up.
SaveFails(slot) ==
  LET batch == {r \in pending : r.slot = slot} IN
  /\ batch # {}
  /\ pending' = pending \ batch
  /\ UNCHANGED <<now, rows, due, selected, rollup>>

\* Mutant: no safety margin.
HourStarted == now \div Hour

\* toStartOfHour(now() + INTERVAL 1 MINUTE)
current_hour == (now + Margin) \div Hour

\* Mutant: the hour that has just ended.
LastHour == current_hour - 1

\* slot_start_time >= current_hour - 2 h AND < current_hour - 1 h
window == current_hour - 2

\* Mutant: rows are counted instead of their start times.
RowCount(h) == Cardinality({r \in rows : HourOf(r.slot) = h})

\* count(DISTINCT slot_start_time) of one hour.
slot_count(h) == Cardinality({StartTime(r.slot) :
                                r \in {r \in rows : HourOf(r.slot) = h}})

\* One refresh appends the selected hour, if the node has it whole.
Refresh ==
  /\ now >= due * Hour - Early
  /\ due' = due + 1
  /\ selected' = Append(selected, window)
  /\ rollup' =
       IF slot_count(window) = SlotsPerHour
       THEN [h \in DOMAIN rollup \cup {window} |->
               IF h = window
               THEN {r \in rows : HourOf(r.slot) = window /\ r.fast}
               ELSE rollup[h]]
       ELSE rollup
  /\ UNCHANGED <<now, pending, rows>>

\* Time passes.  No refresh is later than Late, and no record waits longer
\* than SaveDelay.
Tick ==
  /\ now < MaxTime
  /\ now < due * Hour + Late
  /\ \A r \in pending : now < r.arrival + SaveDelay
  /\ now' = now + 1
  /\ UNCHANGED <<pending, rows, due, selected, rollup>>

Next ==
  \/ Tick
  \/ Refresh
  \/ \E slot \in Slots : Arrive(slot) \/ Save(slot) \/ SaveFails(slot)

Spec == Init /\ [][Next]_vars
-----------------------------------------------------------------------------
TypeOK ==
  /\ now \in Nat
  /\ pending \subseteq [slot : Slots, arrival : 0..now]
  /\ rows \subseteq [slot : Slots, fast : BOOLEAN]
  /\ due \in Nat \ {0}
  /\ selected \in Seq(Int)
  /\ DOMAIN rollup \subseteq Int
  /\ \A h \in DOMAIN rollup : rollup[h] \subseteq rows

\* However early or late the refreshes come, each hour is selected by one of
\* them and none by two (lines 29 and 47-48 of the view).
EachHourOnce == \A k \in DOMAIN selected : selected[k] = k - 2

\* An hour is rolled up from all of its rows that count: no row that passes
\* the filter is saved after the refresh that selected its hour (lines 47-64
\* of the view, with the delays of the flush loop).
NoRowTooLate ==
  \A r \in rows :
    r.fast /\ HourOf(r.slot) \in DOMAIN rollup => r \in rollup[HourOf(r.slot)]

\* A node that was down for a part of an hour has no row for that hour in
\* the rollup: every slot that starts in a rolled-up hour has a row (lines
\* 49-62 of the view).
OnlyWholeHours ==
  \A h \in DOMAIN rollup : \A slot \in Slots :
    HourOf(slot) = h => \E r \in rows : r.slot = slot
=============================================================================
