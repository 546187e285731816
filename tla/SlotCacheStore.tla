--------------------------- MODULE SlotCacheStore ---------------------------
(***************************************************************************)
(* The slot cache of the beacon message processor                          *)
(* (processor/slot_cache.go): a Go map from slot numbers to the statistics *)
(* records cached for that slot, keyed by message ID.  Every method runs   *)
(* under the store's mutex, so each operator below is one atomic step of   *)
(* the modules that use it.                                                *)
(*                                                                         *)
(* A record is represented by its message ID: the ID is a hash of the      *)
(* topic and the payload, so it determines the record's other fields.  A   *)
(* store is a function whose domain is the set of slots present in the     *)
(* map.                                                                    *)
(***************************************************************************)
EXTENDS Integers, Functions

NewSlotCacheStore == [slot \in {} |-> {}]

\* The IDs cached for a slot, none when the map has no entry for it.
MessageStats(caches, slot) ==
  IF slot \in DOMAIN caches THEN caches[slot] ELSE {}

\* Mutant: Add reports every record as new.
AddIsNewAlways(caches, slot, msgID) == TRUE

\* The result Add returns: FALSE for an ID the slot already holds.
AddIsNew(caches, slot, msgID) == msgID \notin MessageStats(caches, slot)

\* The store after Add.  The entry of the slot is created on demand, and
\* adding an ID twice leaves the first record in place.
Add(caches, slot, msgID) ==
  [s \in DOMAIN caches \cup {slot} |->
     IF s = slot THEN MessageStats(caches, slot) \cup {msgID} ELSE caches[s]]

\* currentSlot - 1 in uint64 arithmetic, which wraps around at zero.
\* maxUint64 is the largest value of the type.
PreviousSlot(currentSlot, maxUint64) ==
  IF currentSlot = 0 THEN maxUint64 ELSE currentSlot - 1

\* Mutant: one slot more is held back.
CompletedSlotsOffByOne(caches, currentSlot, maxUint64) ==
  {s \in DOMAIN caches : s + 1 < PreviousSlot(currentSlot, maxUint64)}

CompletedSlots(caches, currentSlot, maxUint64) ==
  {s \in DOMAIN caches : s < PreviousSlot(currentSlot, maxUint64)}

\* The store after DrainSlot has removed the slot; the method returns
\* MessageStats(caches, slot).
DrainSlot(caches, slot) == Restrict(caches, DOMAIN caches \ {slot})
=============================================================================
