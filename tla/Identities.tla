----------------------------- MODULE Identities -----------------------------
(***************************************************************************)
(* Who a sign-in is: IdentityService over the tables users and identities. *)
(* A sign-in calls auth_register_identity, whose statements each see what  *)
(* is committed when they start; link and unlink run in a transaction of   *)
(* the user.                                                               *)
(***************************************************************************)
EXTENDS Naturals, FiniteSets

CONSTANTS
  Subjects,     \* identities at their providers
  ProviderOf,   \* the provider of each subject
  Emails,       \* addresses that a provider may assert as verified
  SignIns,      \* requests that may be in flight together
  MaxUsers      \* bound: rows of users ever inserted

ASSUME IdentitiesAssumption == IsFiniteSet(Subjects) /\ MaxUsers \in Nat

VARIABLES
  users,          \* users rows ever inserted
  deletedUsers,   \* those erased again
  identities,     \* the identities table, by subject
  signIns,        \* the requests
  idOverlapped    \* history: two requests have been open at once

idVars == <<users, deletedUsers, identities, signIns, idOverlapped>>

Unlinked == [user |-> 0, email |-> "none"]
NoSignIn    == [pc |-> "idle", kind |-> "none", subject |-> "none", email |-> "none", user |-> 0]
Users    == (1 .. users) \ deletedUsers
LinksOf(u) == {s \in Subjects : identities[s].user = u}

IdentitiesInit ==
  /\ users = 0 /\ deletedUsers = {}
  /\ identities = [s \in Subjects |-> Unlinked]
  /\ signIns = [r \in SignIns |-> NoSignIn]
  /\ idOverlapped = FALSE

InFlight == \E q \in SignIns : signIns[q].pc # "idle"
SignInStep(r, t) == signIns' = [signIns EXCEPT ![r] = t]
Start(r, kind, pc, s, email, u) ==
  /\ signIns[r].pc = "idle"
  /\ SignInStep(r, [pc |-> pc, kind |-> kind, subject |-> s, email |-> email, user |-> u])
  /\ idOverlapped' = (idOverlapped \/ InFlight)
  /\ UNCHANGED <<users, deletedUsers, identities>>

(***************************************************************************)
(* resolve: an address counts only when the provider has verified it.      *)
(***************************************************************************)
BeginSignIn(r, s, email) == Start(r, "signin", "identity", s, email, 0)

\* Variant: only the address is looked up.
FindNoIdentity(r) ==
  /\ signIns[r].pc = "identity"
  /\ SignInStep(r, [signIns[r] EXCEPT
       !.pc = IF signIns[r].email # "none" THEN "email" ELSE "register"])
  /\ UNCHANGED <<users, deletedUsers, identities, idOverlapped>>

FindIdentity(r) ==
  /\ signIns[r].pc = "identity"
  /\ LET u == identities[signIns[r].subject].user
     IN SignInStep(r, [signIns[r] EXCEPT !.user = u,
                         !.pc = IF u = 0 /\ signIns[r].email # "none" THEN "email" ELSE "register"])
  /\ UNCHANGED <<users, deletedUsers, identities, idOverlapped>>

Mailable(s) == ProviderOf[s] \in {"google", "apple", "email"}

FindByEmail(r) ==
  /\ signIns[r].pc = "email"
  /\ LET mine == {s \in Subjects : Mailable(s) /\ identities[s].email = signIns[r].email}
     IN \/ /\ mine = {}
           /\ SignInStep(r, [signIns[r] EXCEPT !.pc = "register"])
        \/ \E s \in mine :
             SignInStep(r, [signIns[r] EXCEPT !.pc = "register", !.user = identities[s].user])
  /\ UNCHANGED <<users, deletedUsers, identities, idOverlapped>>

\* Variant: the conflict takes the identity over.
UpsertedOver(row, u, email) == [user |-> u, email |-> email]

Upserted(row, u, email) == [user |-> IF row.user = 0 THEN u ELSE row.user, email |-> email]

\* The unique index: a user has one identity of a provider.
Crowded(u, s) == \E t \in LinksOf(u) \ {s} : ProviderOf[t] = ProviderOf[s]

\* An insert that fails, on that index or on the foreign key of a user erased meanwhile.
Barred(u, s) == identities[s].user = 0 /\ (u \in deletedUsers \/ Crowded(u, s))

\* The user is inserted when none was found, then the identity, ON CONFLICT DO UPDATE;
\* when that fails nothing is committed.
Register(r) ==
  /\ signIns[r].pc = "register"
  /\ signIns[r].user = 0 => users < MaxUsers
  /\ LET s == signIns[r].subject
         u == IF signIns[r].user = 0 THEN users + 1 ELSE signIns[r].user
     IN IF Barred(u, s) THEN UNCHANGED <<users, identities>>
        ELSE /\ users' = IF u > users THEN u ELSE users
             /\ identities' = [identities EXCEPT ![s] = Upserted(@, u, signIns[r].email)]
  /\ SignInStep(r, NoSignIn)
  /\ UNCHANGED <<deletedUsers, idOverlapped>>

\* The user that the answer of Register names.
AnsweredUser(r) == IF signIns[r].user = 0 THEN users + 1 ELSE signIns[r].user

(***************************************************************************)
(* link, unlink and app_delete_account.                                    *)
(***************************************************************************)
\* An address is stored whether or not it was verified.
Link(u, s, email) ==
  /\ u \in Users /\ ~ Barred(u, s)
  /\ identities' = [identities EXCEPT ![s] =
       IF @.user = 0 THEN [user |-> u, email |-> email] ELSE @]
  /\ idOverlapped' = (idOverlapped \/ InFlight)
  /\ UNCHANGED <<users, deletedUsers, signIns>>

\* Variant: off by one.
HasSpareAlways(u) == Cardinality(LinksOf(u)) >= 1

HasSpare(u) == Cardinality(LinksOf(u)) > 1

CountIdentities(r, u, s) ==
  /\ u \in Users /\ HasSpare(u)
  /\ Start(r, "unlink", "delete", s, "none", u)

\* DELETE ... WHERE user_id = $1 AND provider = $2.
DeleteIdentities(r) ==
  /\ signIns[r].pc = "delete"
  /\ identities' = [s \in Subjects |->
       IF /\ identities[s].user = signIns[r].user
          /\ ProviderOf[s] = ProviderOf[signIns[r].subject]
       THEN Unlinked ELSE identities[s]]
  /\ SignInStep(r, NoSignIn)
  /\ UNCHANGED <<users, deletedUsers, idOverlapped>>

\* Variant: the identities of the user stay behind.
EraseUserAlone(u) ==
  /\ u \in Users
  /\ deletedUsers' = deletedUsers \cup {u}
  /\ idOverlapped' = (idOverlapped \/ InFlight)
  /\ UNCHANGED <<users, identities, signIns>>

EraseUser(u) ==
  /\ u \in Users
  /\ deletedUsers' = deletedUsers \cup {u}
  /\ identities' = [s \in Subjects |-> IF identities[s].user = u THEN Unlinked ELSE identities[s]]
  /\ idOverlapped' = (idOverlapped \/ InFlight)
  /\ UNCHANGED <<users, signIns>>

IdentitiesNext ==
  \/ \E r \in SignIns, s \in Subjects :
       \/ \E email \in Emails \cup {"none"} : BeginSignIn(r, s, email)
       \/ \E u \in Users : CountIdentities(r, u, s)
  \/ \E r \in SignIns :
       FindIdentity(r) \/ FindByEmail(r) \/ Register(r) \/ DeleteIdentities(r)
  \/ \E u \in Users :
       \/ EraseUser(u)
       \/ \E s \in Subjects, email \in Emails \cup {"none"} : Link(u, s, email)

IdentitiesSpec == IdentitiesInit /\ [][IdentitiesNext]_idVars

(***************************************************************************)
(* Properties.                                                             *)
(***************************************************************************)
\* The table names users that were inserted, each with one identity of a provider at most.
IdentitiesTypeOK ==
  /\ users \in 0 .. MaxUsers /\ deletedUsers \subseteq 1 .. users
  /\ identities \in [Subjects -> [user : 0 .. users, email : Emails \cup {"none"}]]
  /\ \A u \in Users : \A s \in LinksOf(u) : ~ Crowded(u, s)
  /\ \A r \in SignIns :
       /\ signIns[r].pc \in {"idle", "identity", "email", "register", "delete"}
       /\ signIns[r].user \in 0 .. users
  /\ idOverlapped \in BOOLEAN

\* An identity opens the account it was first registered for until it is unlinked or
\* that account erased: no sign-in, with whatever address, and no link moves it
\* (identity.service.ts:52-85, migrations/003:95-100).
IdentityNeverMoves ==
  [][\A s \in Subjects :
       identities[s].user # 0 => identities'[s].user \in {0, identities[s].user}]_idVars

\* No identity opens an account that was erased: signing in again creates a fresh one
\* (auth.controller.ts:217-226, migrations/005:1-8), whatever was in flight.
ErasedStaysErased == \A s \in Subjects : identities[s].user \notin deletedUsers

\* The account a sign-in answers is the one the identity opens from then on, so that
\* signing in again finds the same data (identity.service.ts:44-73, migrations/003:53-110).
AnswersItsAccount(r) ==
  LET s == signIns[r].subject
  IN Register(r) /\ ~ Barred(AnsweredUser(r), s) => identities'[s].user = AnsweredUser(r)

\* Unlinking leaves its user a way in (identity.service.ts:102-107).
LeavesAWayIn(r) ==
  DeleteIdentities(r) => \E s \in Subjects : identities'[s].user = signIns[r].user

\* When requests are served one at a time, a sign-in answers the account that its identity
\* opens, and unlinking leaves a way in.
SerialIdentities ==
  [][~ idOverlapped => \A r \in SignIns : AnswersItsAccount(r) /\ LeavesAWayIn(r)]_idVars

\* Violated: the same of any schedule of the requests.
SignInIsKept ==
  [][\A r \in SignIns :
       LET s == signIns[r].subject
       IN Register(r) /\ ~ Barred(AnsweredUser(r), s)
            => identities'[s].user = AnsweredUser(r) \/ AnsweredUser(r) \in deletedUsers]_idVars

\* Violated: the same of any schedule, as long as there was a way in to keep.
LastWayIn ==
  [][\A r \in SignIns :
       DeleteIdentities(r) /\ LinksOf(signIns[r].user) # {}
         => \E s \in Subjects : identities'[s].user = signIns[r].user]_idVars
=============================================================================
