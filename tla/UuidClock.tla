----------------------------- MODULE UuidClock -----------------------------
(***************************************************************************)
(* The clock inside uuidv7 (libs/shared-types/src/uuid.ts): the last       *)
(* millisecond used and a counter of Size values, 4096 in the code.  Both  *)
(* are module state of one running copy of the app; the counter exists so  *)
(* that the ids this copy issues sort in the order they were issued.       *)
(*                                                                         *)
(* The wall clock is external: it moves forward, and backwards when it is  *)
(* corrected or when the user sets the date.  The 62 random bits that      *)
(* follow the counter do not decide the order and are left out.            *)
(***************************************************************************)
EXTENDS Integers

CONSTANTS
  Size,       \* values of the counter
  StartSize,  \* values the counter of a fresh millisecond starts at, 256
  MaxTime     \* bound: the wall clock

ASSUME SizeAssumption == Size \in Nat /\ StartSize \in 1..Size

ASSUME TimeAssumption == MaxTime \in Nat

VARIABLES
  clock,    \* Date.now()
  lastMs,   \* the last millisecond an id was stamped with, -1 at first
  counter,
  id,       \* the id issued last: its millisecond and its counter
  burst     \* history: ids issued since the wall clock last passed lastMs,
            \* counted up to Size

vars == <<clock, lastMs, counter, id, burst>>

Id == [ms : Int, count : 0..Size - 1]

\* The order of the strings: the milliseconds come first, then the counter.
Before(a, b) == a.ms < b.ms \/ (a.ms = b.ms /\ a.count < b.count)

\* Types; the counter stays below Size.
TypeOK ==
  /\ clock \in Nat
  /\ lastMs \in Int
  /\ counter \in 0..Size - 1
  /\ id \in Id
  /\ burst \in 0..Size

\* No id has been issued yet: the one of Init precedes them all.
Init ==
  /\ clock \in 0..MaxTime
  /\ lastMs = -1
  /\ counter = 0
  /\ id = [ms |-> -1, count |-> 0]
  /\ burst = 0

Advance ==
  /\ clock < MaxTime
  /\ clock' = clock + 1
  /\ UNCHANGED <<lastMs, counter, id, burst>>

\* The date is set back: an NTP correction, or the user.
SetBack ==
  /\ \E t \in 0..MaxTime : t < clock /\ clock' = t
  /\ UNCHANGED <<lastMs, counter, id, burst>>

Stamp(ms, count) ==
  /\ lastMs' = ms
  /\ counter' = count
  /\ id' = [ms |-> ms, count |-> count]
  /\ UNCHANGED clock

\* Variant: without the mask.
BumpedUnmasked == counter + 1

Bumped == (counter + 1) % Size

CountOne == burst' = IF burst < Size THEN burst + 1 ELSE burst

\* The millisecond of the last id: count up, and step into the next one when
\* the counter wraps.
IssueSameMs ==
  /\ clock = lastMs
  /\ Stamp(IF Bumped = 0 THEN lastMs + 1 ELSE lastMs, Bumped)
  /\ CountOne

\* Variant: the counter starts at any of its values.
IssueNewMsAnywhere ==
  /\ clock > lastMs
  /\ \E start \in 0..Size - 1 : Stamp(clock, start)
  /\ burst' = 1

\* A fresh millisecond: start low, leave room to climb.
IssueNewMs ==
  /\ clock > lastMs
  /\ \E start \in 0..StartSize - 1 : Stamp(clock, start)
  /\ burst' = 1

\* The wall clock is behind lastMs, set back or overtaken by IssueSameMs: count
\* up, and let the counter wrap.
IssueBehind ==
  /\ clock < lastMs
  /\ Stamp(lastMs, Bumped)
  /\ CountOne

Issue == IssueSameMs \/ IssueNewMs \/ IssueBehind

Next == Advance \/ SetBack \/ Issue

Spec == Init /\ [][Next]_vars

-----------------------------------------------------------------------------
\* Ids sort in the order they were issued while the wall clock is not behind,
\* however many are issued in a millisecond; and while it is behind, for the
\* first Size - StartSize + 1 ids since it last passed lastMs: the room that
\* starting low leaves to climb (uuidv7, all three branches).
OrderKeptInBurst ==
  [][Issue /\ (clock >= lastMs \/ burst <= Size - StartSize) => Before(id, id')]_vars

\* uuid.ts:49-50: when the clock moves backwards, keep issuing from the last
\* known millisecond so IDs stay monotonic.
IdsStayMonotonic == [][Issue => Before(id, id')]_vars
=============================================================================
