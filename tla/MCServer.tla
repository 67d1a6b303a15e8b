------------------------------ MODULE MCServer ------------------------------
(***************************************************************************)
(* The server's requests beside the sync protocol, on small instances.     *)
(* The four components share nothing but the user's id, so a behaviour     *)
(* plays one of them, the scene, and leaves the others as they begin: the  *)
(* states of the run are the sum of theirs.                                *)
(***************************************************************************)
EXTENDS Sessions, PushTx, OtpCodes, Identities, TLC

VARIABLE scene

serverVars == <<scene, sessionVars, pushVars, otpVars, idVars>>

ServerInit ==
  /\ scene \in {"sessions", "push", "codes", "identities"}
  /\ SessionsInit /\ PushTxInit /\ OtpInit /\ IdentitiesInit

ServerNext ==
  \/ scene = "sessions" /\ SessionsNext
     /\ UNCHANGED <<scene, pushVars, otpVars, idVars>>
  \/ scene = "push" /\ PushTxNext
     /\ UNCHANGED <<scene, sessionVars, otpVars, idVars>>
  \/ scene = "codes" /\ OtpNext
     /\ UNCHANGED <<scene, sessionVars, pushVars, idVars>>
  \/ scene = "identities" /\ IdentitiesNext
     /\ UNCHANGED <<scene, sessionVars, pushVars, otpVars>>

ServerSpec == ServerInit /\ [][ServerNext]_serverVars

\* Every table, request and client has values of its type.
ServerTypeOK ==
  /\ SessionsTypeOK /\ PushTxTypeOK /\ OtpTypeOK /\ IdentitiesTypeOK

\* An account that was deleted leaves nothing behind, whatever was in flight: no session of
\* it is found and no identity opens it (auth.controller.ts:217-252).
DeletedAccountLeavesNothing == NoSessionOfDeletedAccount /\ ErasedStaysErased

\* One scene alone.
PushSpec       == ServerInit /\ scene = "push" /\ [][ServerNext]_serverVars
IdentitySpec   == ServerInit /\ scene = "identities" /\ [][ServerNext]_serverVars

\* Requests are alike, and so are browsers; the scenes share their model values.
ServerSymmetry == Permutations(Calls) \cup Permutations(Browsers)

\* A transaction entered, entered elsewhere with another date and amount, and deleted.
SomeChanges ==
  {[day |-> "monday", amount |-> 5, stamp |-> 1, deleted |-> FALSE],
   [day |-> "friday", amount |-> 6, stamp |-> 2, deleted |-> FALSE],
   [day |-> "monday", amount |-> 5, stamp |-> 2, deleted |-> TRUE]}

\* One code to a number at a time, two from an address.
TwoLimits == <<1, 2>>

\* Two identities of one provider and one of another.
SomeProviders == ("g1" :> "google" @@ "g2" :> "google" @@ "p1" :> "phone")
=============================================================================
