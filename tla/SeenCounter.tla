---------------------------- MODULE SeenCounter -----------------------------
(***************************************************************************)
(* The seen counter (processor/seen_counter.go): a Go map from message IDs *)
(* to the number of copies received.  Every method runs under the          *)
(* counter's mutex.  An entry leaves the map only through Pop.  The        *)
(* counter is a uint32; no model comes near its limit, so its width is not *)
(* modelled.                                                               *)
(***************************************************************************)
EXTENDS Integers, Functions

NewSeenCounter == [msgID \in {} |-> 0]

\* The count of an ID, zero for one that has no entry: the value the map
\* reads in IncreaseByRawID, and the value Pop returns.
SeenCount(counts, msgID) ==
  IF msgID \in DOMAIN counts THEN counts[msgID] ELSE 0

\* Mutant: the count restarts at 1 with every copy.
IncreaseByRawIDResets(counts, msgID) ==
  [id \in DOMAIN counts \cup {msgID} |->
     IF id = msgID THEN 1 ELSE counts[id]]

IncreaseByRawID(counts, msgID) ==
  [id \in DOMAIN counts \cup {msgID} |->
     SeenCount(counts, id) + (IF id = msgID THEN 1 ELSE 0)]

\* Mutants: Pop leaves the entry in place, or empties the whole map.
PopKeepsEntry(counts, msgID) == counts
PopClearsMap(counts, msgID) == NewSeenCounter

\* Pop's second result, and the map Pop leaves.
PopFound(counts, msgID) == msgID \in DOMAIN counts

Pop(counts, msgID) == Restrict(counts, DOMAIN counts \ {msgID})
=============================================================================
