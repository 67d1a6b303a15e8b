------------------------------ MODULE Sessions ------------------------------
(***************************************************************************)
(* Refresh tokens and the sessions behind them: TokenService, its session  *)
(* store, the auth endpoints that use them, and the cookie jar of each     *)
(* client.  A store call is one database transaction and one action here;  *)
(* a request is a sequence of them, so requests interleave between the     *)
(* look-up, the compare-and-set, the revocation of a family and the mint.  *)
(*                                                                         *)
(* A refresh token is the number of the session it opens.  The family of a *)
(* session is the number of the first session of its lineage.              *)
(***************************************************************************)
EXTENDS Naturals, FiniteSets

CONSTANTS
  Browsers,        \* clients, each with a cookie jar (or a key store, when native)
  Calls,           \* requests that may be in flight together
  MaxTokens,       \* bound: refresh tokens minted
  MaxAccounts,     \* bound: successive accounts of the one person
  MaxCallFaults    \* bound: requests or answers lost, handlers that crash

ASSUME SessionsAssumption ==
  /\ IsFiniteSet(Calls)
  /\ MaxTokens \in Nat /\ MaxAccounts \in Nat \ {0} /\ MaxCallFaults \in Nat

VARIABLES
  sessions,    \* the sessions table, by token
  minted,      \* tokens minted so far
  account,     \* the current account of the person: a deleted one is never used again
  cookies,     \* the refresh token each client holds, 0 for none
  access,      \* the account each client has an access token for, 0 for none
  calls,       \* the requests in flight
  callFaults,
  calm         \* history: clients that never lost an answer nor sent two requests at once

sessionVars ==
  <<sessions, minted, account, cookies, access, calls, callFaults, calm>>

Tokens   == 1 .. MaxTokens
Accounts == 1 .. MaxAccounts

Absent == [family |-> 0, owner |-> 0, revoked |-> TRUE, expired |-> FALSE]
Found(n) == n \in Tokens /\ sessions[n] # Absent
Live(n)  == ~ sessions[n].revoked

NoCall == [kind |-> "none", by |-> "none", token |-> 0, family |-> 0, owner |-> 0,
           pc |-> "idle"]
Busy(c) == calls[c].pc # "idle"
\* Room for a mint, beside those the requests in flight may still do.
Room ==
  minted + Cardinality({c \in Calls : calls[c].kind \in {"refresh", "signin"}}) < MaxTokens

SessionsInit ==
  /\ sessions = [n \in Tokens |-> Absent]
  /\ minted = 0 /\ account = 1 /\ callFaults = 0
  /\ cookies = [b \in Browsers |-> 0]
  /\ access = [b \in Browsers |-> 0]
  /\ calls = [c \in Calls |-> NoCall]
  /\ calm = [b \in Browsers |-> TRUE]

(***************************************************************************)
(* Requests: AuthClient.restoreSession, logout, the sign-ins and           *)
(* deleteAccount.  The cookie travels with the request as it is then.      *)
(***************************************************************************)
Send(c, b, kind, pc, owner) ==
  /\ ~ Busy(c)
  /\ calls' = [calls EXCEPT ![c] = [NoCall EXCEPT !.kind = kind, !.by = b, !.pc = pc,
                                      !.token = cookies[b], !.owner = owner]]
  /\ calm' = [calm EXCEPT ![b] = @ /\ \A d \in Calls : Busy(d) => calls[d].by # b]
  /\ UNCHANGED <<sessions, minted, account, cookies, access, callFaults>>

SendRefresh(c, b) == Room /\ Send(c, b, "refresh", "find", 0)
SendLogout(c, b)  == Send(c, b, "logout", "find", 0)
\* The provider or the code has been verified and the person resolved to an account.
SendSignIn(c, b)  == Room /\ Send(c, b, "signin", "minting", account)
\* The guard takes the access token alone: it outlives its session.
\* (Bound: the last account is not deleted.)
SendDelete(c, b)  == access[b] \in 1 .. MaxAccounts - 1 /\ Send(c, b, "delete", "deleting", access[b])

(***************************************************************************)
(* The server: TokenService.rotate, sessionFor, revokeFamily and mint over *)
(* the session store.                                                      *)
(***************************************************************************)
Go(c, pc) == calls' = [calls EXCEPT ![c].pc = pc]

AfterFind(c) ==
  LET t == calls[c].token
  IN CASE t = 0 -> IF calls[c].kind = "logout" THEN "clear" ELSE "keep"
       [] t # 0 /\ ~ Found(t) -> "clear"
       [] Found(t) /\ (calls[c].kind = "logout" \/ sessions[t].revoked) -> "killing"
       [] Found(t) /\ calls[c].kind = "refresh" /\ ~ sessions[t].revoked ->
            IF sessions[t].expired THEN "retiring" ELSE "swapping"

FindByHash(c) ==
  /\ calls[c].pc = "find"
  /\ LET s == IF Found(calls[c].token) THEN sessions[calls[c].token] ELSE Absent
     IN calls' = [calls EXCEPT ![c].pc = AfterFind(c), ![c].family = s.family,
                                ![c].owner = s.owner]
  /\ UNCHANGED <<sessions, minted, account, cookies, access, callFaults, calm>>

\* Variant: the update does not look at revoked_at.
ActiveOrNot(t) == Found(t)

\* UPDATE ... WHERE id = $1 AND revoked_at IS NULL.
Active(t) == Found(t) /\ Live(t)
Revoke(t) == sessions' = [sessions EXCEPT ![t].revoked = TRUE]

\* The expired token is retired whether or not it was still active.
RetireExpired(c) ==
  /\ calls[c].pc = "retiring"
  /\ Revoke(calls[c].token) /\ Go(c, "clear")
  /\ UNCHANGED <<minted, account, cookies, access, callFaults, calm>>

WinSwap(c) ==
  /\ calls[c].pc = "swapping" /\ Active(calls[c].token)
  /\ Revoke(calls[c].token) /\ Go(c, "minting")
  /\ UNCHANGED <<minted, account, cookies, access, callFaults, calm>>

LoseSwap(c) ==
  /\ calls[c].pc = "swapping" /\ ~ Active(calls[c].token)
  /\ Go(c, "killing")
  /\ UNCHANGED <<sessions, minted, account, cookies, access, callFaults, calm>>

\* Variant: every session of the account goes, not those of the family.
RevokeAccount(c) ==
  /\ calls[c].pc = "killing"
  /\ sessions' = [n \in Tokens |->
       IF sessions[n].owner = calls[c].owner THEN [sessions[n] EXCEPT !.revoked = TRUE]
       ELSE sessions[n]]
  /\ Go(c, "clear")
  /\ UNCHANGED <<minted, account, cookies, access, callFaults, calm>>

RevokeFamily(c) ==
  /\ calls[c].pc = "killing"
  /\ sessions' = [n \in Tokens |->
       IF sessions[n].family = calls[c].family THEN [sessions[n] EXCEPT !.revoked = TRUE]
       ELSE sessions[n]]
  /\ Go(c, "clear")
  /\ UNCHANGED <<minted, account, cookies, access, callFaults, calm>>

\* Variant: no foreign key.
OwnerForgotten(c) == TRUE

\* The foreign key of sessions.user_id.
OwnerExists(c) == calls[c].owner = account

\* A new session, first of its family at a sign-in; the account may be gone by now.
Mint(c) ==
  /\ calls[c].pc = "minting"
  /\ IF OwnerExists(c)
     THEN LET n == minted + 1
          IN /\ minted' = n
             /\ sessions' = [sessions EXCEPT ![n] =
                  [family |-> IF calls[c].kind = "signin" THEN n ELSE calls[c].family,
                   owner |-> calls[c].owner, revoked |-> FALSE, expired |-> FALSE]]
             /\ calls' = [calls EXCEPT ![c].pc = "set", ![c].token = n]
     ELSE Go(c, "keep") /\ UNCHANGED <<minted, sessions>>
  /\ UNCHANGED <<account, cookies, access, callFaults, calm>>

\* Variant: a second deletion under an old access token erases the next account.
NextAccountAlways(c) == account + 1

NextAccount(c) == IF calls[c].owner = account THEN account + 1 ELSE account

\* app_delete_account: the sessions of the account go with it.
DeleteAccount(c) ==
  /\ calls[c].pc = "deleting"
  /\ sessions' = [n \in Tokens |->
       IF sessions[n].owner = calls[c].owner THEN Absent ELSE sessions[n]]
  /\ account' = NextAccount(c)
  /\ Go(c, "clear")
  /\ UNCHANGED <<minted, cookies, access, callFaults, calm>>

(***************************************************************************)
(* The answer, with its Set-Cookie, or its loss; and the passing of days.  *)
(***************************************************************************)
SignsOut(c) == calls[c].kind \in {"logout", "delete"}

Deliver(c) ==
  /\ calls[c].pc \in {"set", "clear", "keep"}
  /\ LET b == calls[c].by
     IN /\ cookies' = [cookies EXCEPT ![b] =
             CASE calls[c].pc = "set"   -> calls[c].token
               [] calls[c].pc = "clear" -> 0
               [] calls[c].pc = "keep"  -> @]
        /\ access' = [access EXCEPT ![b] =
             IF calls[c].pc = "set" THEN calls[c].owner ELSE IF SignsOut(c) THEN 0 ELSE @]
  /\ calls' = [calls EXCEPT ![c] = NoCall]
  /\ UNCHANGED <<sessions, minted, account, callFaults, calm>>

\* The request or the answer is lost, or the server stops between two statements.
\* logout clears the tokens of the page all the same.
Lose(c) ==
  /\ Busy(c) /\ callFaults < MaxCallFaults
  /\ callFaults' = callFaults + 1
  /\ access' = IF calls[c].kind = "logout" THEN [access EXCEPT ![calls[c].by] = 0] ELSE access
  /\ calm' = [calm EXCEPT ![calls[c].by] = FALSE]
  /\ calls' = [calls EXCEPT ![c] = NoCall]
  /\ UNCHANGED <<sessions, minted, account, cookies>>

Expire(n) ==
  /\ Found(n) /\ ~ sessions[n].expired
  /\ sessions' = [sessions EXCEPT ![n].expired = TRUE]
  /\ UNCHANGED <<minted, account, cookies, access, calls, callFaults, calm>>

Serve(c) ==
  \/ FindByHash(c) \/ RetireExpired(c) \/ WinSwap(c) \/ LoseSwap(c)
  \/ RevokeFamily(c) \/ Mint(c) \/ DeleteAccount(c)

SessionsNext ==
  \/ \E c \in Calls, b \in Browsers :
       SendRefresh(c, b) \/ SendLogout(c, b) \/ SendSignIn(c, b) \/ SendDelete(c, b)
  \/ \E c \in Calls : Serve(c) \/ Deliver(c) \/ Lose(c)
  \/ \E n \in Tokens : Expire(n)

SessionsSpec == SessionsInit /\ [][SessionsNext]_sessionVars

(***************************************************************************)
(* Properties.                                                             *)
(***************************************************************************)
\* Every variable keeps its type: what the store, the jars and the requests hold.
SessionsTypeOK ==
  /\ sessions \in [Tokens -> [family : 0 .. MaxTokens, owner : 0 .. MaxAccounts,
                              revoked : BOOLEAN, expired : BOOLEAN]]
  /\ minted \in 0 .. MaxTokens /\ account \in Accounts /\ callFaults \in 0 .. MaxCallFaults
  /\ cookies \in [Browsers -> 0 .. MaxTokens] /\ access \in [Browsers -> 0 .. MaxAccounts]
  /\ calls \in [Calls ->
       [kind : {"none", "refresh", "logout", "signin", "delete"},
        by : Browsers \cup {"none"}, token : 0 .. MaxTokens,
        family : 0 .. MaxTokens, owner : 0 .. MaxAccounts,
        pc : {"idle", "find", "retiring", "swapping", "killing", "minting", "deleting",
              "set", "clear", "keep"}]]
  /\ calm \in [Browsers -> BOOLEAN]

Renewing(c, f) == calls[c].pc = "minting" /\ calls[c].kind = "refresh" /\ calls[c].family = f

\* A lineage never forks: of each family at most one token opens a session or is
\* about to be minted, whatever requests present the same token at once
\* (token.service.ts:180-188, the compare-and-set that "only one wins").
OneLivePerFamily ==
  /\ \A m, n \in Tokens :
       Live(m) /\ Live(n) /\ sessions[m].family = sessions[n].family => m = n
  /\ \A c \in Calls, n \in Tokens : Renewing(c, sessions[n].family) => ~ Live(n)
  /\ \A c, d \in Calls :
       Renewing(c, calls[c].family) /\ Renewing(d, calls[c].family) => c = d

Dead(f) ==
  /\ \A n \in Tokens : sessions[n].family = f => ~ Live(n)
  /\ \A c \in Calls : ~ Renewing(c, f)

\* A family whose sessions are all revoked, with no mint in flight, is dead for good:
\* no later request that still holds what it read brings it back to life
\* (token.service.ts:166-188).
DeadStaysDead ==
  [][\A f \in 1 .. minted : Dead(f) => Dead(f)']_sessionVars

\* A client that sends its requests one after the other and loses no answer is never
\* locked out by a sign-out, a theft or a clumsy refresh elsewhere: the session behind
\* its cookie stays live until its account is deleted (token.service.ts:158-205).
CookieWorksWhenCalm ==
  \A b \in Browsers :
    LET t == cookies[b]
    IN calm[b] /\ Found(t) /\ (\A c \in Calls : Busy(c) => calls[c].by # b)
         => Live(t) \/ sessions[t].expired

\* An account that was deleted leaves no session behind, not even one that was
\* being minted while the account went (auth.controller.ts:228-252).
NoSessionOfDeletedAccount ==
  \A n \in Tokens : Found(n) => sessions[n].owner = account
=============================================================================
