-------------------------- MODULE VersionedStore --------------------------
(***************************************************************************)
(* What the server promises about transactions, whatever the devices, the  *)
(* network and the clocks do.  Every batch has a key.  A key is answered   *)
(* once, and the whole batch takes effect in that step.  A record the      *)
(* batch is accepted for moves to the next version; version 1 creates it.  *)
(* A record never disappears, and a deleted one stays deleted.             *)
(*                                                                         *)
(* The promise ends for a record that a batch writes over a change it had  *)
(* not read: two batches overlapped on it, and one of them may be lost.    *)
(***************************************************************************)
EXTENDS Naturals

CONSTANTS Records, Keys

VARIABLES
  version,   \* version[r]: 0 before the record exists
  deleted,   \* the records that carry a tombstone
  answered,  \* the keys that have been answered
  contested  \* the records on which two batches have overlapped

vars == <<version, deleted, answered, contested>>

Init ==
  /\ version = [r \in Records |-> 0]
  /\ deleted = {}
  /\ answered = {}
  /\ contested = {}

\* Batch k is accepted for the records of S, and refused for its others; over those of O
\* another batch was accepted since this one was begun.
Answer(k, S, O) ==
  /\ k \notin answered
  /\ answered' = answered \cup {k}
  /\ contested' = contested \cup O
  /\ \A r \in Records :
       version'[r] \in IF r \notin S THEN {version[r]}
                      ELSE IF r \in contested' THEN Nat \ {0} ELSE {version[r] + 1}
  /\ deleted \ (S \cap contested') \subseteq deleted' /\ deleted' \subseteq deleted \cup S

Next ==
  \E k \in Keys, S \in SUBSET Records : \E O \in SUBSET S : Answer(k, S, O)

Spec == Init /\ [][Next]_vars
=============================================================================
