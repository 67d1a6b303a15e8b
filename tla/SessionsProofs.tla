--------------------------- MODULE SessionsProofs ---------------------------
(***************************************************************************)
(* Token rotation, for any number of clients, requests, tokens and faults: *)
(* a lineage never forks, and one that is dead stays dead.                 *)
(*                                                                         *)
(* Most steps only take sessions and mints away (Quiet).  Two do not: the  *)
(* compare-and-set that wins, which opens a mint in the family whose one   *)
(* live token it has just revoked, and the mint itself.                    *)
(***************************************************************************)
EXTENDS Sessions, FiniteSetTheorems, TLAPS

Kinds == {"none", "refresh", "logout", "signin", "delete"}
Steps == {"idle", "find", "retiring", "swapping", "killing", "minting", "deleting",
          "set", "clear", "keep"}
Row   == [family : Nat, owner : Nat, revoked : BOOLEAN, expired : BOOLEAN]
Call  == [kind : Kinds, by : Browsers \cup {"none"}, token : Nat, family : Nat,
          owner : Nat, pc : Steps]

\* Which handlers come by which points.
Paths ==
  \A c \in Calls :
    /\ calls[c].pc = "find" => calls[c].kind \in {"refresh", "logout"}
    /\ calls[c].pc = "swapping" => calls[c].kind = "refresh"
    /\ calls[c].pc = "minting" => calls[c].kind \in {"refresh", "signin"}

Shapes ==
  /\ sessions \in [Tokens -> Row]
  /\ minted \in Nat /\ account \in Nat
  /\ cookies \in [Browsers -> Nat] /\ access \in [Browsers -> Nat]
  /\ calls \in [Calls -> Call]
  /\ Paths

\* Families are numbered by tokens that were minted, so the next token starts a new one.
Numbered ==
  /\ \A n \in Tokens : sessions[n].family <= minted
  /\ \A n \in Tokens : n > minted => sessions[n] = Absent
  /\ \A c \in Calls : calls[c].family <= minted

\* A request that is about to swap its token still knows the family of it, unless the
\* session has been deleted meanwhile.
KnowsFamily ==
  \A c \in Calls : calls[c].pc = "swapping" =>
    /\ calls[c].token \in Tokens /\ calls[c].token <= minted
    /\ Found(calls[c].token) => sessions[calls[c].token].family = calls[c].family

Lineage == Shapes /\ Numbered /\ KnowsFamily /\ OneLivePerFamily

\* No token comes to life, and no request starts to renew a family.
Quiet ==
  /\ \A n \in Tokens : Live(n)' => Live(n) /\ sessions'[n].family = sessions[n].family
  /\ \A c \in Calls : calls'[c].pc = "minting" /\ calls'[c].kind = "refresh" =>
       /\ calls[c].pc = "minting" /\ calls[c].kind = "refresh"
       /\ calls'[c].family = calls[c].family

\* Tokens are positive numbers.
LEMMA TokensAreNumbers == Tokens \subseteq Nat /\ 0 \notin Tokens
  BY SessionsAssumption DEF Tokens

\* The place of a session that is not there reads as a revoked one of no family.
LEMMA AbsentIsASession ==
  Absent \in Row /\ Absent.family = 0 /\ Absent.revoked = TRUE
  BY DEF Absent, Row

\* To revoke what is not there changes nothing.
LEMMA AbsentStaysAbsent == [Absent EXCEPT !.revoked = TRUE] = Absent
<1>1. \A s \in Row : s.revoked = TRUE => [s EXCEPT !.revoked = TRUE] = s
  BY DEF Row
<1> QED
  BY <1>1, AbsentIsASession

\* The invariant holds of the empty table.
LEMMA LineageAtFirst == SessionsInit => Lineage
<1> SUFFICES ASSUME SessionsInit PROVE Lineage
  OBVIOUS
<1> USE DEF SessionsInit, NoCall
<1>1. Shapes
  BY AbsentIsASession DEF Shapes, Kinds, Steps, Call, Paths
<1>2. Numbered
  BY AbsentIsASession DEF Numbered
<1>3. KnowsFamily
  BY DEF KnowsFamily
<1>4. OneLivePerFamily
  BY AbsentIsASession DEF OneLivePerFamily, Live, Renewing
<1> QED
  BY <1>1, <1>2, <1>3, <1>4 DEF Lineage

\* A quiet step forks no lineage.
LEMMA QuietKeepsOne ==
  ASSUME OneLivePerFamily, Quiet PROVE OneLivePerFamily'
<1>1. \A m, n \in Tokens :
        Live(m)' /\ Live(n)' /\ sessions'[m].family = sessions'[n].family => m = n
  BY DEF Quiet, OneLivePerFamily
<1>2. \A c \in Calls, n \in Tokens : Renewing(c, sessions[n].family)' => ~ Live(n)'
  BY DEF Quiet, OneLivePerFamily, Renewing
<1>3. \A c, d \in Calls :
        Renewing(c, calls[c].family)' /\ Renewing(d, calls[c].family)' => c = d
  BY DEF Quiet, OneLivePerFamily, Renewing
<1> QED
  BY <1>1, <1>2, <1>3 DEF OneLivePerFamily

\* What Shapes says of one request and of one session.
LEMMA RequestsAndRows ==
  ASSUME Shapes
  PROVE  /\ \A c \in Calls : calls[c] \in Call
         /\ \A n \in Tokens : sessions[n] \in Row
  BY DEF Shapes

\* A request that is sent.
LEMMA SendStep ==
  ASSUME Lineage, NEW c \in Calls, NEW b \in Browsers, NEW kind \in Kinds, NEW pc \in Steps,
         NEW owner \in Nat, Send(c, b, kind, pc, owner),
         pc = "find" => kind \in {"refresh", "logout"},
         pc # "swapping", pc = "minting" => kind = "signin"
  PROVE  Shapes' /\ Numbered' /\ KnowsFamily' /\ Quiet
<1> DEFINE r == [NoCall EXCEPT !.kind = kind, !.by = b, !.pc = pc, !.token = cookies[b],
                              !.owner = owner]
<1> USE DEF Lineage
<1>1. calls' = [calls EXCEPT ![c] = r] /\ UNCHANGED <<sessions, minted, account, cookies, access>>
  BY DEF Send
<1>2. r \in Call /\ r.pc = pc /\ r.kind = kind /\ r.family = 0
  <2>1. NoCall \in Call /\ NoCall.family = 0
    BY DEF NoCall, Call, Kinds, Steps
  <2>2. cookies[b] \in Nat
    BY DEF Shapes
  <2> QED
    BY <2>1, <2>2 DEF Call
<1> HIDE DEF r
<1>3. Shapes'
  BY <1>1, <1>2 DEF Shapes, Paths
<1>4. Numbered'
  BY <1>1, <1>2 DEF Numbered, Shapes
<1>5. KnowsFamily'
  BY <1>1, <1>2 DEF KnowsFamily, Found, Shapes
<1>6. Quiet
  BY <1>1, <1>2 DEF Quiet, Live, Renewing, Shapes
<1> QED
  BY <1>3, <1>4, <1>5, <1>6

\* A request that only moves to another point of its handler.
LEMMA GoStep ==
  ASSUME Lineage, NEW c \in Calls, NEW pc \in Steps \ {"find", "swapping", "minting"},
         Go(c, pc)
  PROVE  /\ calls' \in [Calls -> Call]
         /\ \A d \in Calls : calls'[d].family = calls[d].family
         /\ Paths'
         /\ \A d \in Calls : calls'[d].pc \in {"swapping", "minting"} => calls'[d] = calls[d]
<1>1. [calls[c] EXCEPT !.pc = pc] \in Call
  BY DEF Lineage, Shapes, Call
<1> QED
  BY <1>1 DEF Lineage, Shapes, Go, Call, Paths
\* Sessions that are only revoked, expired or erased.
LEMMA FewerSessions ==
  ASSUME Lineage, sessions' \in [Tokens -> Row], UNCHANGED minted,
         \A n \in Tokens : \/ sessions'[n] = Absent
                           \/ /\ sessions'[n].family = sessions[n].family
                              /\ Found(n)
                              /\ sessions'[n].revoked = sessions[n].revoked \/ sessions'[n].revoked,
         \A c \in Calls : calls'[c].family = calls[c].family,
         \A c \in Calls : calls'[c].pc \in {"swapping", "minting"} => calls'[c] = calls[c]
  PROVE  Numbered' /\ KnowsFamily' /\ Quiet
<1> USE DEF Lineage
<1>1. \A n \in Tokens : n > minted => sessions'[n] = Absent
  BY DEF Numbered, Found
<1>2. \A n \in Tokens : sessions'[n].family <= minted
  BY AbsentIsASession DEF Numbered, Shapes
<1>3. Numbered'
  BY <1>1, <1>2 DEF Numbered
<1>4. KnowsFamily'
  BY DEF KnowsFamily, Found
<1>5. \A n \in Tokens : Live(n)' => Live(n) /\ sessions'[n].family = sessions[n].family
  BY AbsentIsASession DEF Live, Shapes, Row
<1>6. Quiet
  BY <1>5 DEF Quiet
<1> QED
  BY <1>3, <1>4, <1>6

\* The shapes of what a step of a handler writes.
LEMMA ShapesAgain ==
  ASSUME Shapes, calls' \in [Calls -> Call], sessions' \in [Tokens -> Row], account' \in Nat,
         UNCHANGED <<minted, cookies, access>>, Paths'
  PROVE  Shapes'
  BY DEF Shapes

\* The same, by a request that moves on in its handler.
LEMMA FewerAndOn ==
  ASSUME Lineage, NEW c \in Calls, NEW pc \in Steps \ {"find", "swapping", "minting"}, Go(c, pc),
         sessions' \in [Tokens -> Row], account' \in Nat, UNCHANGED <<minted, cookies, access>>,
         \A n \in Tokens : \/ sessions'[n] = Absent
                           \/ /\ sessions'[n].family = sessions[n].family
                              /\ Found(n)
                              /\ sessions'[n].revoked = sessions[n].revoked \/ sessions'[n].revoked
  PROVE  Shapes' /\ Numbered' /\ KnowsFamily' /\ Quiet
<1>1. /\ calls' \in [Calls -> Call]
      /\ \A d \in Calls : calls'[d].family = calls[d].family
      /\ Paths'
      /\ \A d \in Calls : calls'[d].pc \in {"swapping", "minting"} => calls'[d] = calls[d]
  BY GoStep
<1>2. Shapes'
  BY <1>1, ShapesAgain DEF Lineage
<1>3. Numbered' /\ KnowsFamily' /\ Quiet
  BY <1>1, FewerSessions
<1> QED
  BY <1>2, <1>3

\* The look-up reads the family of a session it has found.
LEMMA FindStep ==
  ASSUME Lineage, NEW c \in Calls, FindByHash(c)
  PROVE  Shapes' /\ Numbered' /\ KnowsFamily' /\ Quiet
<1> DEFINE s == IF Found(calls[c].token) THEN sessions[calls[c].token] ELSE Absent
           r == [calls[c] EXCEPT !.pc = AfterFind(c), !.family = s.family, !.owner = s.owner]
<1> USE DEF Lineage
<1>1. calls[c] \in Call /\ calls[c].pc = "find" /\ calls[c].kind \in {"refresh", "logout"}
  BY DEF FindByHash, Shapes, Paths
<1>2. calls' = [calls EXCEPT ![c] = r] /\ UNCHANGED <<sessions, minted, account, cookies, access>>
  BY DEF FindByHash
<1>3. s \in Row /\ s.family <= minted
  BY AbsentIsASession DEF Shapes, Numbered, Found
<1>4. /\ AfterFind(c) \in Steps \ {"find", "minting"}
      /\ AfterFind(c) = "swapping" => Found(calls[c].token) /\ calls[c].kind = "refresh"
  BY <1>1, TokensAreNumbers DEF AfterFind, Steps, Shapes, Found, Row
<1>5. r \in Call /\ r.pc = AfterFind(c) /\ r.family = s.family /\ r.token = calls[c].token
      /\ r.kind = calls[c].kind
  <2> HIDE DEF s
  <2> QED
    BY <1>1, <1>3, <1>4 DEF Call, Row
<1> HIDE DEF r
<1>6. r.pc = "swapping" => Found(r.token) /\ r.token <= minted /\ sessions[r.token].family = r.family
  <2> SUFFICES ASSUME r.pc = "swapping" PROVE Found(r.token) /\ r.token <= minted
                                            /\ sessions[r.token].family = r.family
    OBVIOUS
  <2>1. Found(r.token) /\ s = sessions[r.token]
    BY <1>4, <1>5
  <2>2. r.token \in Nat /\ minted \in Nat
    BY <1>5 DEF Call, Shapes
  <2>3. r.token <= minted
    BY <2>1, <2>2 DEF Numbered, Found
  <2> QED
    BY <2>1, <2>3, <1>5
<1>7. Shapes'
  BY <1>2, <1>4, <1>5 DEF Shapes, Paths
<1>8. Numbered'
  BY <1>2, <1>3, <1>5 DEF Numbered, Shapes
<1>9. KnowsFamily'
  BY <1>2, <1>6 DEF KnowsFamily, Found, Shapes
<1>10. Quiet
  BY <1>2, <1>4, <1>5 DEF Quiet, Live, Shapes
<1> QED
  BY <1>7, <1>8, <1>9, <1>10

\* The token an expired session answers to is retired.
LEMMA RetireStep ==
  ASSUME Lineage, NEW c \in Calls, RetireExpired(c)
  PROVE  Shapes' /\ Numbered' /\ KnowsFamily' /\ Quiet
<1> USE DEF Lineage
<1> DEFINE t == calls[c].token
<1>1. /\ sessions' = [sessions EXCEPT ![t].revoked = TRUE] /\ Go(c, "clear")
      /\ UNCHANGED <<minted, account, cookies, access>>
  BY DEF RetireExpired, Revoke
<1>2. sessions' \in [Tokens -> Row]
  BY <1>1 DEF Shapes, Row
<1>3. \A n \in Tokens : \/ sessions'[n] = Absent
                        \/ /\ sessions'[n].family = sessions[n].family
                           /\ Found(n)
                           /\ sessions'[n].revoked = sessions[n].revoked \/ sessions'[n].revoked
  <2> SUFFICES ASSUME NEW n \in Tokens
               PROVE  \/ sessions'[n] = Absent
                      \/ /\ sessions'[n].family = sessions[n].family
                         /\ Found(n)
                         /\ sessions'[n].revoked = sessions[n].revoked \/ sessions'[n].revoked
    OBVIOUS
  <2>0. sessions[n] \in Row
    BY DEF Shapes
  <2>1. CASE n # t
    BY <1>1, <2>1 DEF Shapes, Found
  <2>2. CASE n = t /\ ~ Found(n)
    BY <1>1, <2>2, AbsentStaysAbsent DEF Shapes, Found
  <2>3. CASE n = t /\ Found(n)
    BY <1>1, <2>0, <2>3 DEF Shapes, Row
  <2> QED
    BY <2>1, <2>2, <2>3
<1> QED
  BY <1>1, <1>2, <1>3, FewerAndOn DEF Shapes, Steps

\* The compare-and-set that loses goes on to the family.
LEMMA LoseSwapStep ==
  ASSUME Lineage, NEW c \in Calls, LoseSwap(c)
  PROVE  Shapes' /\ Numbered' /\ KnowsFamily' /\ Quiet
<1> USE DEF Lineage
<1>1. Go(c, "killing") /\ UNCHANGED <<sessions, minted, account, cookies, access>>
  BY DEF LoseSwap
<1>2. \A n \in Tokens : sessions'[n] = Absent \/ Found(n)
  BY <1>1 DEF Found
<1> QED
  BY <1>1, <1>2, FewerAndOn DEF Shapes, Steps

\* Every session of a family is revoked.
LEMMA RevokeFamilyStep ==
  ASSUME Lineage, NEW c \in Calls, RevokeFamily(c)
  PROVE  Shapes' /\ Numbered' /\ KnowsFamily' /\ Quiet
<1> USE DEF Lineage
<1>1. /\ sessions' = [n \in Tokens |->
           IF sessions[n].family = calls[c].family THEN [sessions[n] EXCEPT !.revoked = TRUE]
           ELSE sessions[n]]
      /\ Go(c, "clear")
      /\ UNCHANGED <<minted, account, cookies, access>>
  BY DEF RevokeFamily
<1>2. sessions' \in [Tokens -> Row]
  BY <1>1 DEF Shapes, Row
<1>3. \A n \in Tokens : \/ sessions'[n] = Absent
                        \/ /\ sessions'[n].family = sessions[n].family
                           /\ Found(n)
                           /\ sessions'[n].revoked = sessions[n].revoked \/ sessions'[n].revoked
  <2> SUFFICES ASSUME NEW n \in Tokens
               PROVE  \/ sessions'[n] = Absent
                      \/ /\ sessions'[n].family = sessions[n].family
                         /\ Found(n)
                         /\ sessions'[n].revoked = sessions[n].revoked \/ sessions'[n].revoked
    OBVIOUS
  <2>1. CASE ~ Found(n)
    BY <1>1, <2>1, AbsentStaysAbsent DEF Found
  <2>2. CASE Found(n)
    BY <1>1, <2>2 DEF Shapes, Row
  <2> QED
    BY <2>1, <2>2
<1> QED
  BY <1>1, <1>2, <1>3, FewerAndOn DEF Shapes, Steps

\* The sessions of an account are erased with it.
LEMMA DeleteStep ==
  ASSUME Lineage, NEW c \in Calls, DeleteAccount(c)
  PROVE  Shapes' /\ Numbered' /\ KnowsFamily' /\ Quiet
<1> USE DEF Lineage
<1>1. /\ sessions' = [n \in Tokens |->
           IF sessions[n].owner = calls[c].owner THEN Absent ELSE sessions[n]]
      /\ account' = NextAccount(c) /\ Go(c, "clear")
      /\ UNCHANGED <<minted, cookies, access>>
  BY DEF DeleteAccount
<1>2. sessions' \in [Tokens -> Row] /\ account' \in Nat
  BY <1>1, AbsentIsASession DEF Shapes, NextAccount
<1>3. \A n \in Tokens : sessions'[n] = Absent \/ (sessions'[n] = sessions[n] /\ Found(n))
  BY <1>1 DEF Shapes, Found
<1> QED
  BY <1>1, <1>2, <1>3, FewerAndOn DEF Shapes, Steps

\* The days of a session are over.
LEMMA ExpireStep ==
  ASSUME Lineage, NEW n \in Tokens, Expire(n)
  PROVE  Shapes' /\ Numbered' /\ KnowsFamily' /\ Quiet
<1> USE DEF Lineage
<1>1. /\ sessions' = [sessions EXCEPT ![n].expired = TRUE] /\ Found(n)
      /\ UNCHANGED <<minted, account, cookies, access, calls>>
  BY DEF Expire
<1>2. sessions' \in [Tokens -> Row]
  BY <1>1 DEF Shapes, Row
<1>3. \A m \in Tokens : \/ sessions'[m] = Absent
                        \/ /\ sessions'[m].family = sessions[m].family
                           /\ Found(m)
                           /\ sessions'[m].revoked = sessions[m].revoked
  BY <1>1 DEF Shapes, Row, Found, Absent
<1> QED
  BY <1>1, <1>2, <1>3, FewerSessions DEF Shapes, Paths

\* A request that is answered, or lost.
LEMMA EndStep ==
  ASSUME Lineage, NEW c \in Calls, Deliver(c) \/ Lose(c)
  PROVE  Shapes' /\ Numbered' /\ KnowsFamily' /\ Quiet
<1> USE DEF Lineage
<1>1. calls' = [calls EXCEPT ![c] = NoCall] /\ UNCHANGED <<sessions, minted, account>>
  BY DEF Deliver, Lose
<1>2. NoCall \in Call /\ NoCall.pc = "idle" /\ NoCall.family = 0
  BY DEF NoCall, Call, Kinds, Steps
<1>3. cookies' \in [Browsers -> Nat] /\ access' \in [Browsers -> Nat]
  <2>1. calls[c] \in Call
    BY DEF Shapes
  <2>2. CASE Deliver(c)
    BY <2>1, <2>2 DEF Deliver, Shapes, Call
  <2>3. CASE Lose(c)
    BY <2>1, <2>3 DEF Lose, Shapes, Call
  <2> QED
    BY <2>2, <2>3
<1>4. Shapes'
  BY <1>1, <1>2, <1>3 DEF Shapes, Paths
<1>5. Numbered'
  BY <1>1, <1>2 DEF Numbered, Shapes
<1>6. KnowsFamily'
  BY <1>1, <1>2 DEF KnowsFamily, Found, Shapes
<1>7. Quiet
  BY <1>1, <1>2 DEF Quiet, Live, Shapes
<1> QED
  BY <1>4, <1>5, <1>6, <1>7

\* The compare-and-set that wins revokes the one live token of its family, and may mint
\* in that family alone.
LEMMA WinSwapStep ==
  ASSUME Lineage, NEW c \in Calls, WinSwap(c)
  PROVE  /\ Lineage'
         /\ \A f \in Nat : Dead(f) => Dead(f)'
<1> USE DEF Lineage
<1> DEFINE t == calls[c].token
           f == calls[c].family
<1>1. /\ sessions' = [sessions EXCEPT ![t].revoked = TRUE]
      /\ calls' = [calls EXCEPT ![c].pc = "minting"]
      /\ UNCHANGED <<minted, account, cookies, access>>
  BY DEF WinSwap, Revoke, Go
<1>2. t \in Tokens /\ Found(t) /\ Live(t) /\ sessions[t].family = f /\ calls[c].kind = "refresh"
  BY DEF WinSwap, Active, Found, KnowsFamily, Shapes, Paths
<1>3. /\ sessions' \in [Tokens -> Row] /\ calls' \in [Calls -> Call]
      /\ \A n \in Tokens \ {t} : sessions'[n] = sessions[n]
      /\ sessions'[t].family = f /\ sessions'[t].revoked = TRUE
      /\ \A d \in Calls \ {c} : calls'[d] = calls[d]
      /\ calls'[c].pc = "minting" /\ calls'[c].kind = calls[c].kind /\ calls'[c].family = f
  BY <1>1, <1>2 DEF Shapes, Row, Call, Steps
<1> HIDE DEF t, f
<1>4. Shapes'
  BY <1>1, <1>2, <1>3 DEF Shapes, Paths
<1>5. f <= minted /\ t \in Nat /\ minted \in Nat /\ t <= minted
  BY <1>2, TokensAreNumbers DEF Numbered, Shapes, Found, f
<1>6. Numbered'
  BY <1>1, <1>3, <1>5 DEF Numbered
<1>7. KnowsFamily'
  BY <1>1, <1>2, <1>3 DEF KnowsFamily, Found
<1>8. \A n \in Tokens : Live(n)' => n # t /\ Live(n) /\ sessions'[n].family = sessions[n].family
  BY <1>3 DEF Live
<1>9. \A d \in Calls : ~ Renewing(d, f)
  BY <1>2 DEF OneLivePerFamily
<1>10. \A n \in Tokens \ {t} : Live(n) => sessions[n].family # f
  BY <1>2 DEF OneLivePerFamily
<1>11. OneLivePerFamily'
  <2>1. \A m, n \in Tokens :
          Live(m)' /\ Live(n)' /\ sessions'[m].family = sessions'[n].family => m = n
    BY <1>8 DEF OneLivePerFamily
  <2>2. \A d \in Calls, n \in Tokens : Renewing(d, sessions[n].family)' => ~ Live(n)'
    BY <1>3, <1>8, <1>10 DEF OneLivePerFamily, Renewing
  <2>3. \A d, e \in Calls :
          Renewing(d, calls[d].family)' /\ Renewing(e, calls[d].family)' => d = e
    BY <1>3, <1>9 DEF OneLivePerFamily, Renewing
  <2> QED
    BY <2>1, <2>2, <2>3 DEF OneLivePerFamily
<1>12. ASSUME NEW g \in Nat, Dead(g) PROVE Dead(g)'
  <2>1. g # f
    BY <1>2, <1>12 DEF Dead
  <2> QED
    BY <1>3, <1>8, <1>12, <2>1 DEF Dead, Renewing
<1> QED
  BY <1>4, <1>6, <1>7, <1>11, <1>12

\* A mint whose account is gone writes nothing.
LEMMA NoMintStep ==
  ASSUME Lineage, NEW c \in Calls, Mint(c), ~ OwnerExists(c)
  PROVE  Shapes' /\ Numbered' /\ KnowsFamily' /\ Quiet
<1> USE DEF Lineage
<1>1. Go(c, "keep") /\ UNCHANGED <<sessions, minted, account, cookies, access>>
  BY DEF Mint
<1>2. \A n \in Tokens : sessions'[n] = Absent \/ Found(n)
  BY <1>1 DEF Found
<1> QED
  BY <1>1, <1>2, FewerAndOn DEF Shapes, Steps

\* A mint: the next token, in a family of its own at a sign-in, or else in the family the
\* request was the only one to renew.
LEMMA MintStep ==
  ASSUME Lineage, NEW c \in Calls, Mint(c), OwnerExists(c)
  PROVE  /\ Lineage'
         /\ \A f \in 1 .. minted : Dead(f) => Dead(f)'
<1> USE DEF Lineage
<1> DEFINE n == minted + 1
           g == IF calls[c].kind = "signin" THEN n ELSE calls[c].family
           s == [family |-> g, owner |-> calls[c].owner, revoked |-> FALSE, expired |-> FALSE]
           r == [calls[c] EXCEPT !.pc = "set", !.token = n]
<1>1. /\ calls[c].pc = "minting" /\ minted' = n
      /\ sessions' = [sessions EXCEPT ![n] = s]
      /\ calls' = [calls EXCEPT ![c] = r]
      /\ UNCHANGED <<account, cookies, access>>
  BY DEF Mint
<1>2. calls[c] \in Call /\ n \in Nat /\ minted \in Nat /\ n > minted
  BY DEF Shapes
<1>3. r \in Call /\ r.pc = "set" /\ r.family = calls[c].family
  BY <1>2 DEF Call, Steps
<1>4. s \in Row /\ s.family = g /\ s.revoked = FALSE /\ g \in Nat /\ g <= n
  BY <1>2 DEF Row, Call, Numbered
<1>5. \A m \in Tokens : sessions'[m] = IF m = n THEN s ELSE sessions[m]
  BY <1>1 DEF Shapes
<1>6. \A d \in Calls : calls'[d] = IF d = c THEN r ELSE calls[d]
  BY <1>1 DEF Shapes
<1>7. \A d \in Calls : calls[d].family \in Nat /\ calls[d].family <= minted
  BY DEF Shapes, Call, Numbered
<1>8. \A m \in Tokens : sessions[m].family \in Nat /\ sessions[m].family <= minted
  BY DEF Shapes, Row, Numbered
<1>9. g = n \/ Renewing(c, g)
  BY <1>1 DEF Renewing, Shapes, Paths
<1> HIDE DEF s, r
<1>10. Shapes'
  BY <1>1, <1>2, <1>3, <1>4 DEF Shapes, Paths
<1>11. Numbered'
  <2>1. \A m \in Tokens : sessions'[m].family <= n
    BY <1>2, <1>4, <1>5, <1>8
  <2>2. \A m \in Tokens : m > n => sessions'[m] = Absent
    BY <1>2, <1>5, TokensAreNumbers DEF Numbered
  <2>3. \A d \in Calls : calls'[d].family <= n
    BY <1>2, <1>3, <1>6, <1>7
  <2> QED
    BY <1>1, <2>1, <2>2, <2>3 DEF Numbered
<1>12. KnowsFamily'
  <2> SUFFICES ASSUME NEW d \in Calls, calls'[d].pc = "swapping"
               PROVE  /\ calls'[d].token \in Tokens /\ calls'[d].token <= minted'
                      /\ sessions'[calls'[d].token] # Absent =>
                           sessions'[calls'[d].token].family = calls'[d].family
    BY DEF KnowsFamily, Found
  <2>1. d # c /\ calls'[d] = calls[d]
    BY <1>3, <1>6
  <2>2. calls[d].token \in Tokens /\ calls[d].token <= minted
    BY <2>1 DEF KnowsFamily
  <2>3. calls[d].token \in Nat /\ calls[d].token # n /\ calls[d].token <= n
    <3> HIDE DEF n
    <3>1. calls[d].token \in Nat
      BY DEF Shapes, Call
    <3> QED
      BY <1>2, <2>2, <3>1
  <2>4. sessions'[calls[d].token] = sessions[calls[d].token]
    BY <1>5, <2>2, <2>3
  <2> QED
    BY <1>1, <2>1, <2>2, <2>3, <2>4 DEF KnowsFamily, Found
<1>13. \A m \in Tokens : m # n /\ Live(m) => sessions[m].family # g
  BY <1>2, <1>8, <1>9 DEF OneLivePerFamily
<1>14. \A d \in Calls : d # c => ~ Renewing(d, g)
  BY <1>2, <1>7, <1>9 DEF OneLivePerFamily, Renewing
<1>15. \A m \in Tokens : m # n => sessions'[m] = sessions[m]
  BY <1>5
<1>16. n \in Tokens => sessions'[n].family = g
  BY <1>4, <1>5
<1>17. \A d \in Calls : calls'[d].pc = "minting" => d # c /\ calls'[d] = calls[d]
  BY <1>3, <1>6
<1> HIDE DEF n, g
<1>18. OneLivePerFamily'
  <2>1. \A m, k \in Tokens :
          Live(m)' /\ Live(k)' /\ sessions'[m].family = sessions'[k].family => m = k
    BY <1>13, <1>15, <1>16 DEF OneLivePerFamily, Live
  <2>2. \A d \in Calls, m \in Tokens : Renewing(d, sessions[m].family)' => ~ Live(m)'
    BY <1>14, <1>15, <1>16, <1>17 DEF OneLivePerFamily, Live, Renewing
  <2>3. \A d, e \in Calls :
          Renewing(d, calls[d].family)' /\ Renewing(e, calls[d].family)' => d = e
    BY <1>17 DEF OneLivePerFamily, Renewing
  <2> QED
    BY <2>1, <2>2, <2>3 DEF OneLivePerFamily
<1>19. ASSUME NEW f \in 1 .. minted, Dead(f) PROVE Dead(f)'
  <2>1. f # g
    BY <1>2, <1>9, <1>19 DEF Dead, n
  <2> QED
    BY <1>15, <1>16, <1>17, <1>19, <2>1 DEF Dead, Live, Renewing
<1> QED
  BY <1>10, <1>11, <1>12, <1>18, <1>19

\* A quiet step brings no lineage back.
LEMMA QuietKeepsDead ==
  ASSUME Quiet, NEW f \in Nat, Dead(f) PROVE Dead(f)'
  BY DEF Quiet, Dead, Renewing

\* Every step of the clients, the handlers and the days keeps the invariant, and the dead
\* lineages dead.
LEMMA LineageStep ==
  ASSUME Lineage, [SessionsNext]_sessionVars
  PROVE  Lineage' /\ \A f \in 1 .. minted : Dead(f) => Dead(f)'
<1>1. ASSUME Shapes', Numbered', KnowsFamily', Quiet
      PROVE  Lineage' /\ \A f \in 1 .. minted : Dead(f) => Dead(f)'
  BY <1>1, QuietKeepsOne, QuietKeepsDead DEF Lineage
<1>2. ASSUME NEW c \in Calls, NEW b \in Browsers, SendRefresh(c, b)
      PROVE  Lineage' /\ \A f \in 1 .. minted : Dead(f) => Dead(f)'
  BY <1>1, <1>2, SendStep DEF SendRefresh, Kinds, Steps
<1>3. ASSUME NEW c \in Calls, NEW b \in Browsers, SendLogout(c, b)
      PROVE  Lineage' /\ \A f \in 1 .. minted : Dead(f) => Dead(f)'
  BY <1>1, <1>3, SendStep DEF SendLogout, Kinds, Steps
<1>4. ASSUME NEW c \in Calls, NEW b \in Browsers, SendSignIn(c, b)
      PROVE  Lineage' /\ \A f \in 1 .. minted : Dead(f) => Dead(f)'
  BY <1>1, <1>4, SendStep DEF SendSignIn, Kinds, Steps, Lineage, Shapes
<1>5. ASSUME NEW c \in Calls, NEW b \in Browsers, SendDelete(c, b)
      PROVE  Lineage' /\ \A f \in 1 .. minted : Dead(f) => Dead(f)'
  BY <1>1, <1>5, SendStep DEF SendDelete, Kinds, Steps, Lineage, Shapes
<1>6. ASSUME NEW c \in Calls, Serve(c)
      PROVE  Lineage' /\ \A f \in 1 .. minted : Dead(f) => Dead(f)'
  <2>1. CASE FindByHash(c)
    BY <1>1, <2>1, FindStep
  <2>2. CASE RetireExpired(c)
    BY <1>1, <2>2, RetireStep
  <2>3. CASE WinSwap(c)
    BY <2>3, WinSwapStep DEF Lineage, Shapes
  <2>4. CASE LoseSwap(c)
    BY <1>1, <2>4, LoseSwapStep
  <2>5. CASE RevokeFamily(c)
    BY <1>1, <2>5, RevokeFamilyStep
  <2>6. CASE Mint(c) /\ OwnerExists(c)
    BY <2>6, MintStep
  <2>7. CASE Mint(c) /\ ~ OwnerExists(c)
    BY <1>1, <2>7, NoMintStep
  <2>8. CASE DeleteAccount(c)
    BY <1>1, <2>8, DeleteStep
  <2> QED
    BY <1>6, <2>1, <2>2, <2>3, <2>4, <2>5, <2>6, <2>7, <2>8 DEF Serve
<1>7. ASSUME NEW c \in Calls, Deliver(c) \/ Lose(c)
      PROVE  Lineage' /\ \A f \in 1 .. minted : Dead(f) => Dead(f)'
  BY <1>1, <1>7, EndStep
<1>8. ASSUME NEW n \in Tokens, Expire(n)
      PROVE  Lineage' /\ \A f \in 1 .. minted : Dead(f) => Dead(f)'
  BY <1>1, <1>8, ExpireStep
<1>9. CASE UNCHANGED sessionVars
  BY <1>9 DEF sessionVars, Lineage, Shapes, Paths, Numbered, KnowsFamily, OneLivePerFamily, Found,
              Live, Renewing, Dead
<1> QED
  BY <1>2, <1>3, <1>4, <1>5, <1>6, <1>7, <1>8, <1>9 DEF SessionsNext

\* The invariant holds of every reachable state.
LEMMA LineageHolds == SessionsSpec => []Lineage
<1>1. Lineage /\ [SessionsNext]_sessionVars => Lineage'
  BY LineageStep
<1> QED
  BY <1>1, LineageAtFirst, PTL DEF SessionsSpec

\* A lineage never forks, however many requests present its token at once and whatever is
\* lost, expires or is deleted meanwhile: the compare-and-set of rotate lets one of them
\* mint (token.service.ts:180-188).
THEOREM LineagesNeverFork == SessionsSpec => []OneLivePerFamily
<1>1. Lineage => OneLivePerFamily
  BY DEF Lineage
<1> QED
  BY <1>1, LineageHolds, PTL

\* A lineage whose sessions are all revoked stays dead: no request that read one of them
\* before can bring it back (token.service.ts:166-188).
THEOREM DeadLineagesStayDead == SessionsSpec => DeadStaysDead
<1>1. Lineage /\ [SessionsNext]_sessionVars
        => [\A f \in 1 .. minted : Dead(f) => Dead(f)']_sessionVars
  BY LineageStep
<1> QED
  BY <1>1, LineageHolds, PTL DEF SessionsSpec, DeadStaysDead

\* The owner of a session is read off its row, and only a mint writes a new one.
LEMMA OwnersStep ==
  ASSUME Shapes, NoSessionOfDeletedAccount, [SessionsNext]_sessionVars
  PROVE  NoSessionOfDeletedAccount'
<1>1. ASSUME UNCHANGED account,
             \A n \in Tokens : sessions'[n] = Absent \/ (Found(n) /\ sessions'[n].owner = sessions[n].owner)
      PROVE  NoSessionOfDeletedAccount'
  BY <1>1 DEF NoSessionOfDeletedAccount, Found
<1>2. ASSUME UNCHANGED <<sessions, account>> PROVE NoSessionOfDeletedAccount'
  BY <1>2 DEF NoSessionOfDeletedAccount, Found
<1>3. ASSUME NEW t, Revoke(t), UNCHANGED account PROVE NoSessionOfDeletedAccount'
  <2> SUFFICES ASSUME NEW n \in Tokens
               PROVE  sessions'[n] = Absent \/ (Found(n) /\ sessions'[n].owner = sessions[n].owner)
    BY <1>1, <1>3
  <2>1. CASE n # t
    BY <1>3, <2>1 DEF Revoke, Shapes, Found
  <2>2. CASE n = t /\ ~ Found(n)
    BY <1>3, <2>2, AbsentStaysAbsent DEF Revoke, Shapes, Found
  <2>3. CASE n = t /\ Found(n)
    BY <1>3, <2>3 DEF Revoke, Shapes, Row
  <2> QED
    BY <2>1, <2>2, <2>3
<1>4. ASSUME NEW c \in Calls, RevokeFamily(c) PROVE NoSessionOfDeletedAccount'
  <2> SUFFICES ASSUME NEW n \in Tokens
               PROVE  sessions'[n] = Absent \/ (Found(n) /\ sessions'[n].owner = sessions[n].owner)
    BY <1>1, <1>4 DEF RevokeFamily
  <2>1. CASE ~ Found(n)
    BY <1>4, <2>1, AbsentStaysAbsent DEF RevokeFamily, Found
  <2>2. CASE Found(n)
    BY <1>4, <2>2 DEF RevokeFamily, Shapes, Row
  <2> QED
    BY <2>1, <2>2
<1>5. ASSUME NEW c \in Calls, Mint(c) PROVE NoSessionOfDeletedAccount'
  <2>1. CASE ~ OwnerExists(c)
    BY <1>2, <1>5, <2>1 DEF Mint
  <2>2. CASE OwnerExists(c)
    BY <1>5, <2>2 DEF Mint, OwnerExists, NoSessionOfDeletedAccount, Found, Shapes
  <2> QED
    BY <2>1, <2>2
<1>6. ASSUME NEW c \in Calls, DeleteAccount(c) PROVE NoSessionOfDeletedAccount'
  BY <1>6 DEF DeleteAccount, NextAccount, NoSessionOfDeletedAccount, Found
<1>7. ASSUME NEW n \in Tokens, Expire(n) PROVE NoSessionOfDeletedAccount'
  BY <1>1, <1>7 DEF Expire, Shapes, Row, Found
<1>8. ASSUME NEW c \in Calls, Serve(c) PROVE NoSessionOfDeletedAccount'
  BY <1>2, <1>3, <1>4, <1>5, <1>6, <1>8
     DEF Serve, FindByHash, RetireExpired, WinSwap, LoseSwap
<1>9. CASE UNCHANGED sessionVars
  BY <1>2, <1>9 DEF sessionVars
<1>10. ASSUME NEW c \in Calls, NEW b \in Browsers,
              SendRefresh(c, b) \/ SendLogout(c, b) \/ SendSignIn(c, b) \/ SendDelete(c, b)
       PROVE  NoSessionOfDeletedAccount'
  BY <1>2, <1>10 DEF SendRefresh, SendLogout, SendSignIn, SendDelete, Send
<1>11. ASSUME NEW c \in Calls, Deliver(c) \/ Lose(c) PROVE NoSessionOfDeletedAccount'
  BY <1>2, <1>11 DEF Deliver, Lose
<1> QED
  BY <1>7, <1>8, <1>9, <1>10, <1>11 DEF SessionsNext

\* No session is found of an account that was deleted, not even one whose mint was under
\* way: the erasure takes the rows and the foreign key refuses new ones
\* (auth.controller.ts:228-252).
THEOREM SessionsGoWithTheirAccount == SessionsSpec => []NoSessionOfDeletedAccount
<1>1. SessionsInit => NoSessionOfDeletedAccount
  BY DEF SessionsInit, NoSessionOfDeletedAccount, Found
<1>2. Lineage /\ NoSessionOfDeletedAccount /\ [SessionsNext]_sessionVars
        => NoSessionOfDeletedAccount'
  BY OwnersStep DEF Lineage
<1> QED
  BY <1>1, <1>2, LineageHolds, PTL DEF SessionsSpec

(***************************************************************************)
(* A calm client is never locked out.  The tokens of a family are all held *)
(* by one client, in its cookie or in a request of its own, so only its    *)
(* own requests can revoke what it holds; and a calm client has one.       *)
(***************************************************************************)
Holds(b, f) ==
  \/ Found(cookies[b]) /\ sessions[cookies[b]].family = f
  \/ \E c \in Calls :
       /\ Busy(c) /\ calls[c].by = b
       /\ \/ calls[c].family = f
          \/ Found(calls[c].token) /\ sessions[calls[c].token].family = f

HoldersApart ==
  \A b1, b2 \in Browsers, f \in Nat \ {0} : Holds(b1, f) /\ Holds(b2, f) => b1 = b2

\* Tokens that travel were minted, and families are numbered from 1.
Jars ==
  /\ calm \in [Browsers -> BOOLEAN]
  /\ \A b \in Browsers : cookies[b] <= minted
  /\ \A c \in Calls : calls[c].token <= minted /\ (Busy(c) => calls[c].by \in Browsers)
  /\ \A n \in Tokens : Found(n) => sessions[n].family # 0
  /\ \A c \in Calls : \/ calls[c].pc = "swapping"
                      \/ calls[c].pc = "minting" /\ calls[c].kind = "refresh"
                      => calls[c].family # 0

Good(t) == Found(t) => Live(t) \/ sessions[t].expired

\* What the one request of a calm client can count on, at each point of its handler.
Standing(c) ==
  LET t == cookies[calls[c].by]
  IN /\ \/ calls[c].pc \in {"find", "swapping", "keep"}
        \/ calls[c].pc = "minting" /\ calls[c].kind = "signin"
        => Good(t)
     /\ calls[c].pc = "find" => calls[c].token = t
     /\ \/ calls[c].pc = "swapping"
        \/ calls[c].pc = "minting" /\ calls[c].kind = "refresh"
        => (Found(t) => sessions[t].owner = calls[c].owner)
     /\ calls[c].pc = "set" => Good(calls[c].token)

Mine(b, c) == Busy(c) /\ calls[c].by = b

Calm(b) ==
  calm[b] => /\ \A c, d \in Calls : Mine(b, c) /\ Mine(b, d) => c = d
             /\ (\A c \in Calls : ~ Mine(b, c)) => Good(cookies[b])
             /\ \A c \in Calls : Mine(b, c) => Standing(c)

CookieInv ==
  /\ Lineage /\ NoSessionOfDeletedAccount
  /\ Jars /\ HoldersApart
  /\ \A b \in Browsers : Calm(b)

\* No session is opened: rows stay, or go.
RowsShrink ==
  \A t \in Tokens :
    Found(t)' => /\ Found(t)
                 /\ sessions'[t].family = sessions[t].family
                 /\ sessions'[t].owner = sessions[t].owner

\* A row that may expire or go, and is not revoked.
RowKept(t) ==
  t \in Tokens /\ sessions'[t] # Absent =>
    /\ Found(t)
    /\ sessions'[t].owner = sessions[t].owner
    /\ sessions'[t].revoked = sessions[t].revoked
    /\ sessions[t].expired => sessions'[t].expired

\* The invariant holds at first.
LEMMA CookieAtFirst == SessionsInit => CookieInv
<1> SUFFICES ASSUME SessionsInit PROVE CookieInv
  OBVIOUS
<1>1. Lineage
  BY LineageAtFirst
<1>2. \A n \in Tokens : ~ Found(n)
  BY DEF SessionsInit, Found
<1>3. \A c \in Calls : ~ Busy(c) /\ calls[c].token = 0 /\ calls[c].pc = "idle"
  BY DEF SessionsInit, NoCall, Busy
<1>4. \A b \in Browsers : cookies[b] = 0 /\ ~ Found(cookies[b])
  BY TokensAreNumbers DEF SessionsInit, Found
<1>5. NoSessionOfDeletedAccount
  BY <1>2 DEF NoSessionOfDeletedAccount
<1>6. Jars
  BY <1>2, <1>3, <1>4 DEF SessionsInit, Jars
<1>7. HoldersApart
  BY <1>3, <1>4 DEF HoldersApart, Holds
<1>8. \A b \in Browsers : Calm(b)
  BY <1>3, <1>4 DEF Calm, Mine, Good
<1> QED
  BY <1>1, <1>5, <1>6, <1>7, <1>8 DEF CookieInv

\* A client that the step does not concern stays as it was.
LEMMA Bystander ==
  ASSUME NEW b \in Browsers, Calm(b), UNCHANGED <<cookies[b], calm[b]>>,
         \A c \in Calls : Mine(b, c) \/ Mine(b, c)' => calls'[c] = calls[c],
         RowKept(cookies[b]),
         \A c \in Calls : Mine(b, c) => RowKept(calls[c].token)
  PROVE  Calm(b)'
<1>1. \A c \in Calls : Mine(b, c)' => Mine(b, c) /\ calls'[c] = calls[c]
  BY DEF Mine, Busy
<1>2. \A c \in Calls : Mine(b, c) => Mine(b, c)'
  BY DEF Mine, Busy
<1>3. Good(cookies[b]) => Good(cookies[b])'
  BY DEF RowKept, Good, Live, Found
<1>4. \A c \in Calls : Mine(b, c)' /\ Good(calls[c].token) => Good(calls[c].token)'
  BY <1>1 DEF RowKept, Good, Live, Found
<1>5. ASSUME NEW c \in Calls, Mine(b, c)', Standing(c) PROVE Standing(c)'
  <2>1. calls'[c] = calls[c] /\ calls[c].by = b
    BY <1>1, <1>5 DEF Mine
  <2>2. Found(cookies[b])' => Found(cookies[b]) /\ sessions'[cookies[b]].owner = sessions[cookies[b]].owner
    BY DEF RowKept, Found
  <2> QED
    BY <1>3, <1>4, <1>5, <2>1, <2>2 DEF Standing, Found
<1> QED
  BY <1>1, <1>2, <1>3, <1>5 DEF Calm

\* When rows only go, and tokens move only between the jar and the requests of one client,
\* nobody holds a family that he did not hold before.
LEMMA HoldsShrink ==
  ASSUME RowsShrink,
         \A b \in Browsers : \/ cookies'[b] = cookies[b]
                             \/ cookies'[b] = 0
                             \/ \E d \in Calls : Mine(b, d) /\ calls[d].token = cookies'[b],
         \A c \in Calls : Busy(c)' =>
           \/ /\ Busy(c) /\ calls'[c].by = calls[c].by /\ calls'[c].token = calls[c].token
              /\ \/ calls'[c].family \in {0, calls[c].family}
                 \/ Found(calls[c].token) /\ calls'[c].family = sessions[calls[c].token].family
           \/ calls'[c].token = cookies[calls'[c].by] /\ calls'[c].family = 0,
         HoldersApart
  PROVE  HoldersApart'
<1>2. ASSUME NEW b \in Browsers, NEW f \in Nat \ {0},
             Found(cookies[b])', sessions'[cookies'[b]].family = f
      PROVE  Holds(b, f)
  <2>1. cookies'[b] # 0
    BY <1>2, TokensAreNumbers DEF Found
  <2>2. /\ cookies'[b] \in Tokens /\ sessions[cookies'[b]] # Absent
        /\ sessions[cookies'[b]].family = f
    BY <1>2 DEF RowsShrink, Found
  <2> QED
    BY <2>1, <2>2 DEF Holds, Found, Mine
<1>3. ASSUME NEW b \in Browsers, NEW f \in Nat \ {0}, NEW c \in Calls,
             Busy(c)', calls'[c].by = b,
             \/ calls'[c].family = f
             \/ Found(calls[c].token)' /\ sessions'[calls'[c].token].family = f
      PROVE  Holds(b, f)
  <2>1. Found(calls[c].token)' /\ sessions'[calls'[c].token].family = f =>
          Found(calls'[c].token) /\ sessions[calls'[c].token].family = f
    BY DEF RowsShrink, Found
  <2> QED
    BY <1>3, <2>1 DEF Holds
<1>4. \A b \in Browsers, f \in Nat \ {0} : Holds(b, f)' => Holds(b, f)
  BY <1>2, <1>3 DEF Holds
<1> QED
  BY <1>4 DEF HoldersApart

\* A step of the handler of one request.
Served(c) ==
  /\ Busy(c) /\ Busy(c)'
  /\ calls'[c].by = calls[c].by
  /\ \A d \in Calls \ {c} : calls'[d] = calls[d]
  /\ UNCHANGED <<cookies, calm>>

\* The rows of a family that the request has in hand.
InHand(c, t) ==
  \/ calls[c].family = sessions[t].family
  \/ Found(calls[c].token) /\ sessions[calls[c].token].family = sessions[t].family

\* No other client holds a row of a family that the request has in hand.
LEMMA HandsOff ==
  ASSUME CookieInv, NEW c \in Calls, Busy(c), NEW b \in Browsers, b # calls[c].by,
         NEW t \in Tokens, Found(t), t = cookies[b] \/ \E d \in Calls : Mine(b, d) /\ calls[d].token = t
  PROVE  ~ InHand(c, t)
<1>1. sessions[t].family \in Nat \ {0} /\ calls[c].by \in Browsers
  BY DEF CookieInv, Jars, Lineage, Shapes, Row
<1>2. Holds(b, sessions[t].family)
  BY DEF Holds, Mine
<1>3. InHand(c, t) => Holds(calls[c].by, sessions[t].family)
  BY DEF Holds, InHand
<1> QED
  BY <1>1, <1>2, <1>3 DEF CookieInv, HoldersApart

\* A step of a handler keeps what clients count on, when it touches rows in its hand only
\* and leaves its own client what that one counts on.
LEMMA ServeKeeps ==
  ASSUME CookieInv, NEW c \in Calls, Served(c), UNCHANGED minted, RowsShrink,
         calls'[c].token = calls[c].token,
         \/ calls'[c].family \in {0, calls[c].family}
         \/ Found(calls[c].token) /\ calls'[c].family = sessions[calls[c].token].family,
         \A t \in Tokens : RowKept(t) \/ InHand(c, t),
         calm[calls[c].by] /\ Standing(c) => Standing(c)',
         \/ calls'[c].pc = "swapping"
         \/ calls'[c].pc = "minting" /\ calls'[c].kind = "refresh"
         => calls'[c].family # 0
  PROVE  Jars' /\ HoldersApart' /\ \A b \in Browsers : Calm(b)'
<1>1. Jars'
  <2>1. \A n \in Tokens : Found(n)' => sessions'[n].family # 0
    BY DEF CookieInv, Jars, RowsShrink
  <2> QED
    BY <2>1 DEF CookieInv, Jars, Served, Busy
<1>2. HoldersApart'
  <2>1. \A d \in Calls : Busy(d)' =>
          \/ /\ Busy(d) /\ calls'[d].by = calls[d].by /\ calls'[d].token = calls[d].token
             /\ \/ calls'[d].family \in {0, calls[d].family}
                \/ Found(calls[d].token) /\ calls'[d].family = sessions[calls[d].token].family
          \/ calls'[d].token = cookies[calls'[d].by] /\ calls'[d].family = 0
    BY DEF Served, Busy
  <2>2. UNCHANGED cookies /\ HoldersApart
    BY DEF Served, CookieInv
  <2> QED
    BY <2>1, <2>2, HoldsShrink
<1>3. ASSUME NEW b \in Browsers, b # calls[c].by PROVE Calm(b)'
  <2>1. ASSUME NEW t, t = cookies[b] \/ \E d \in Calls : Mine(b, d) /\ calls[d].token = t
        PROVE  RowKept(t)
    <3>1. CASE t \in Tokens /\ Found(t)
      BY <1>3, <2>1, <3>1, HandsOff DEF Served
    <3>2. CASE ~ (t \in Tokens /\ Found(t))
      BY <3>2 DEF RowKept, RowsShrink, Found
    <3> QED
      BY <3>1, <3>2
  <2>2. \A d \in Calls : Mine(b, d) \/ Mine(b, d)' => calls'[d] = calls[d]
    BY <1>3 DEF Served, Mine
  <2>3. \A d \in Calls : Mine(b, d) => RowKept(calls[d].token)
    BY <2>1 DEF RowKept
  <2>4. RowKept(cookies[b])
    BY <2>1 DEF RowKept
  <2> QED
    BY <2>2, <2>3, <2>4, Bystander DEF CookieInv, Served
<1>4. ASSUME NEW b \in Browsers, b = calls[c].by PROVE Calm(b)'
  <2> SUFFICES ASSUME calm[b] PROVE Calm(b)'
    BY DEF Calm, Served
  <2>1. \A d \in Calls : Mine(b, d)' => Mine(b, d)
    BY <1>4 DEF Mine, Busy, Served
  <2>2. Mine(b, c) /\ Mine(b, c)'
    BY <1>4 DEF Mine, Served
  <2>3. \A d \in Calls : Mine(b, d) => d = c
    BY <2>2 DEF CookieInv, Calm
  <2>4. Standing(c)
    BY <2>2 DEF CookieInv, Calm
  <2>5. Standing(c)'
    BY <1>4, <2>4
  <2> QED
    BY <2>1, <2>2, <2>3, <2>5 DEF Calm
<1> QED
  BY <1>1, <1>2, <1>3, <1>4

\* The look-up: what it goes on with is what the cookie names.
LEMMA FindKeeps ==
  ASSUME CookieInv, NEW c \in Calls, FindByHash(c)
  PROVE  Jars' /\ HoldersApart' /\ \A b \in Browsers : Calm(b)'
<1> DEFINE s == IF Found(calls[c].token) THEN sessions[calls[c].token] ELSE Absent
           r == [calls[c] EXCEPT !.pc = AfterFind(c), !.family = s.family, !.owner = s.owner]
<1>1. /\ calls[c] \in Call /\ calls[c].pc = "find" /\ calls[c].kind \in {"refresh", "logout"}
      /\ Shapes
  BY DEF FindByHash, CookieInv, Lineage, Shapes, Paths
<1>2. calls' = [calls EXCEPT ![c] = r]
      /\ UNCHANGED <<sessions, minted, account, cookies, access, callFaults, calm>>
  BY DEF FindByHash
<1>3. s \in Row
  BY <1>1, AbsentIsASession DEF Shapes, Found
<1>4. /\ AfterFind(c) \in Steps \ {"find", "minting", "idle", "set"}
      /\ AfterFind(c) = "swapping" => Found(calls[c].token)
  BY <1>1, TokensAreNumbers DEF AfterFind, Steps, Shapes, Found, Row
<1>5. /\ r.pc = AfterFind(c) /\ r.family = s.family /\ r.token = calls[c].token
      /\ r.owner = s.owner /\ r.by = calls[c].by
  <2> HIDE DEF s
  <2> QED
    BY <1>1, <1>3, <1>4 DEF Call, Row
<1> HIDE DEF r
<1>6. calls'[c] = r /\ \A d \in Calls \ {c} : calls'[d] = calls[d]
  BY <1>1, <1>2 DEF Shapes
<1>7. Served(c)
  BY <1>1, <1>2, <1>4, <1>5, <1>6 DEF Served, Busy
<1>8. RowsShrink /\ \A t \in Tokens : RowKept(t)
  BY <1>2 DEF RowsShrink, RowKept, Found
<1>9. ASSUME Standing(c) PROVE Standing(c)'
  <2>1. Good(calls[c].token) /\ calls[c].token = cookies[calls[c].by]
    BY <1>1, <1>9 DEF Standing
  <2>2. Good(calls[c].token)'
    BY <1>2, <1>5, <1>6, <2>1 DEF Good, Found, Live
  <2>3. r.pc = "swapping" => sessions[calls[c].token].owner = r.owner
    BY <1>4, <1>5
  <2>4. r.pc \in Steps \ {"find", "minting", "set"}
    BY <1>4, <1>5
  <2>5. cookies'[calls'[c].by] = calls[c].token /\ calls'[c].token = calls[c].token
    BY <1>2, <1>5, <1>6, <2>1
  <2> QED
    BY <1>2, <1>6, <2>2, <2>3, <2>4, <2>5 DEF Standing, Good, Found
<1>10. r.pc = "swapping" => r.family # 0
  BY <1>4, <1>5, TokensAreNumbers DEF CookieInv, Jars, Found
<1>11. \/ calls'[c].family \in {0, calls[c].family}
       \/ Found(calls[c].token) /\ calls'[c].family = sessions[calls[c].token].family
  BY <1>5, <1>6, AbsentIsASession
<1>12. r.pc # "minting"
  BY <1>4, <1>5
<1>13. UNCHANGED minted /\ calls'[c].token = calls[c].token
  BY <1>2, <1>5, <1>6
<1> QED
  BY <1>6, <1>7, <1>8, <1>9, <1>10, <1>11, <1>12, <1>13, ServeKeeps

\* What moving on in a handler changes of a request.
LEMMA GoServes ==
  ASSUME CookieInv, NEW c \in Calls, Busy(c), NEW pc \in Steps \ {"idle"}, Go(c, pc),
         UNCHANGED <<cookies, calm>>
  PROVE  /\ Served(c)
         /\ calls'[c].pc = pc /\ calls'[c].token = calls[c].token
         /\ calls'[c].family = calls[c].family /\ calls'[c].kind = calls[c].kind
         /\ calls'[c].owner = calls[c].owner
<1>1. calls[c] \in Call /\ calls \in [Calls -> Call]
  BY DEF CookieInv, Lineage, Shapes
<1>2. calls' = [calls EXCEPT ![c] = [calls[c] EXCEPT !.pc = pc]]
  BY DEF Go
<1>3. calls'[c] = [calls[c] EXCEPT !.pc = pc] /\ \A d \in Calls \ {c} : calls'[d] = calls[d]
  BY <1>1, <1>2
<1> QED
  BY <1>1, <1>3 DEF Served, Busy, Call

\* A step to "clear" or "killing" that touches rows in its hand only.
LEMMA EndsInHand ==
  ASSUME CookieInv, NEW c \in Calls, Busy(c), NEW pc \in {"clear", "killing"}, Go(c, pc),
         UNCHANGED <<minted, cookies, calm>>, RowsShrink,
         \A t \in Tokens : RowKept(t) \/ InHand(c, t)
  PROVE  Jars' /\ HoldersApart' /\ \A b \in Browsers : Calm(b)'
<1>1. /\ Served(c)
      /\ calls'[c].pc = pc /\ calls'[c].token = calls[c].token
      /\ calls'[c].family = calls[c].family
  BY GoServes DEF Steps
<1>2. Standing(c)'
  BY <1>1 DEF Standing
<1> QED
  BY <1>1, <1>2, ServeKeeps

\* One row revoked.
LEMMA RevokedRow ==
  ASSUME CookieInv, NEW c \in Calls, Revoke(calls[c].token)
  PROVE  RowsShrink /\ \A t \in Tokens : RowKept(t) \/ InHand(c, t)
<1>1. sessions \in [Tokens -> Row]
  BY DEF CookieInv, Lineage, Shapes
<1> SUFFICES ASSUME NEW t \in Tokens
             PROVE  /\ Found(t)' => /\ Found(t)
                                    /\ sessions'[t].family = sessions[t].family
                                    /\ sessions'[t].owner = sessions[t].owner
                    /\ RowKept(t) \/ InHand(c, t)
  BY DEF RowsShrink
<1>2. CASE t # calls[c].token
  BY <1>1, <1>2 DEF Revoke, Found, RowKept
<1>3. CASE t = calls[c].token /\ ~ Found(t)
  BY <1>1, <1>3, AbsentStaysAbsent DEF Revoke, Found, RowKept
<1>4. CASE t = calls[c].token /\ Found(t)
  BY <1>1, <1>4 DEF Revoke, Row, Found, InHand
<1> QED
  BY <1>2, <1>3, <1>4

\* The retirement of an expired session.
LEMMA RetireKeeps ==
  ASSUME CookieInv, NEW c \in Calls, RetireExpired(c)
  PROVE  Jars' /\ HoldersApart' /\ \A b \in Browsers : Calm(b)'
  BY RevokedRow, EndsInHand DEF RetireExpired, Busy

\* The compare-and-set that loses.
LEMMA LoseSwapKeeps ==
  ASSUME CookieInv, NEW c \in Calls, LoseSwap(c)
  PROVE  Jars' /\ HoldersApart' /\ \A b \in Browsers : Calm(b)'
<1>1. RowsShrink /\ \A t \in Tokens : RowKept(t) \/ InHand(c, t)
  BY DEF LoseSwap, RowsShrink, RowKept, Found
<1> QED
  BY <1>1, EndsInHand DEF LoseSwap, Busy

\* The revocation of a family.
LEMMA RevokeFamilyKeeps ==
  ASSUME CookieInv, NEW c \in Calls, RevokeFamily(c)
  PROVE  Jars' /\ HoldersApart' /\ \A b \in Browsers : Calm(b)'
<1>1. sessions \in [Tokens -> Row]
  BY DEF CookieInv, Lineage, Shapes
<1>2. ASSUME NEW t \in Tokens
      PROVE  /\ Found(t)' => /\ Found(t)
                             /\ sessions'[t].family = sessions[t].family
                             /\ sessions'[t].owner = sessions[t].owner
             /\ RowKept(t) \/ InHand(c, t)
  <2>1. CASE sessions[t].family # calls[c].family
    BY <1>1, <2>1 DEF RevokeFamily, Found, RowKept
  <2>2. CASE sessions[t].family = calls[c].family /\ ~ Found(t)
    BY <1>1, <2>2, AbsentStaysAbsent DEF RevokeFamily, Found, RowKept
  <2>3. CASE sessions[t].family = calls[c].family /\ Found(t)
    BY <1>1, <2>3 DEF RevokeFamily, Row, Found, InHand
  <2> QED
    BY <2>1, <2>2, <2>3
<1>3. RowsShrink /\ \A t \in Tokens : RowKept(t) \/ InHand(c, t)
  BY <1>2 DEF RowsShrink
<1> QED
  BY <1>3, EndsInHand DEF RevokeFamily, Busy

\* The deletion of an account.
LEMMA DeleteKeeps ==
  ASSUME CookieInv, NEW c \in Calls, DeleteAccount(c)
  PROVE  Jars' /\ HoldersApart' /\ \A b \in Browsers : Calm(b)'
<1>1. RowsShrink /\ \A t \in Tokens : RowKept(t) \/ InHand(c, t)
  BY DEF DeleteAccount, RowsShrink, RowKept, Found
<1> QED
  BY <1>1, EndsInHand DEF DeleteAccount, Busy

\* The compare-and-set that wins: the row revoked is the one its client will replace.
LEMMA WinSwapKeeps ==
  ASSUME CookieInv, NEW c \in Calls, WinSwap(c)
  PROVE  Jars' /\ HoldersApart' /\ \A b \in Browsers : Calm(b)'
<1>1. /\ Served(c)
      /\ calls'[c].pc = "minting" /\ calls'[c].token = calls[c].token
      /\ calls'[c].family = calls[c].family /\ calls'[c].kind = calls[c].kind
      /\ calls'[c].owner = calls[c].owner
  BY GoServes DEF WinSwap, Steps, Busy
<1>2. calls[c].pc = "swapping" /\ calls[c].kind = "refresh" /\ calls[c].family # 0
  BY DEF WinSwap, CookieInv, Lineage, Shapes, Paths, Jars
<1>3. RowsShrink /\ \A t \in Tokens : RowKept(t) \/ InHand(c, t)
  BY RevokedRow DEF WinSwap
<1>4. ASSUME Standing(c) PROVE Standing(c)'
  <2>1. cookies'[calls'[c].by] = cookies[calls[c].by]
    BY <1>1 DEF Served
  <2>2. Found(cookies[calls[c].by]) => sessions[cookies[calls[c].by]].owner = calls[c].owner
    BY <1>2, <1>4 DEF Standing
  <2> QED
    BY <1>1, <1>2, <1>3, <2>1, <2>2 DEF Standing, RowsShrink, Found
<1> QED
  BY <1>1, <1>2, <1>3, <1>4, ServeKeeps DEF WinSwap

\* A mint whose account is gone: the session behind the cookie of a refresh is gone too.
LEMMA NoMintKeeps ==
  ASSUME CookieInv, NEW c \in Calls, Mint(c), ~ OwnerExists(c)
  PROVE  Jars' /\ HoldersApart' /\ \A b \in Browsers : Calm(b)'
<1>1. Go(c, "keep") /\ UNCHANGED <<sessions, minted, account, cookies, access, calm>>
  BY DEF Mint
<1>2. /\ Served(c)
      /\ calls'[c].pc = "keep" /\ calls'[c].token = calls[c].token
      /\ calls'[c].family = calls[c].family
  BY <1>1, GoServes DEF Mint, Steps, Busy
<1>3. RowsShrink /\ \A t \in Tokens : RowKept(t) \/ InHand(c, t)
  BY <1>1 DEF RowsShrink, RowKept, Found
<1>4. ASSUME Standing(c) PROVE Standing(c)'
  <2>1. cookies'[calls'[c].by] = cookies[calls[c].by]
    BY <1>2 DEF Served
  <2>2. calls[c].pc = "minting" /\ calls[c].kind \in {"refresh", "signin"}
    BY DEF Mint, CookieInv, Lineage, Shapes, Paths
  <2>3. Good(cookies[calls[c].by])
    BY <1>4, <2>2 DEF Standing, Good, OwnerExists, CookieInv, NoSessionOfDeletedAccount, Found
  <2> QED
    BY <1>1, <1>2, <2>1, <2>3 DEF Standing, Good, Found, Live
<1> QED
  BY <1>1, <1>2, <1>3, <1>4, ServeKeeps

\* A mint: the new token is of the family the request has in hand, or of a new one.
LEMMA MintKeeps ==
  ASSUME CookieInv, NEW c \in Calls, Mint(c), OwnerExists(c)
  PROVE  Jars' /\ HoldersApart' /\ \A b \in Browsers : Calm(b)'
<1> DEFINE n == minted + 1
           g == IF calls[c].kind = "signin" THEN n ELSE calls[c].family
           s == [family |-> g, owner |-> calls[c].owner, revoked |-> FALSE, expired |-> FALSE]
           r == [calls[c] EXCEPT !.pc = "set", !.token = n]
<1> USE DEF CookieInv
<1>1. /\ calls[c].pc = "minting" /\ minted' = n
      /\ sessions' = [sessions EXCEPT ![n] = s]
      /\ calls' = [calls EXCEPT ![c] = r]
      /\ UNCHANGED <<account, cookies, access, calm>>
  BY DEF Mint
<1>2. /\ calls[c] \in Call /\ n \in Nat /\ minted \in Nat /\ n > minted /\ n # 0
      /\ sessions \in [Tokens -> Row] /\ calls \in [Calls -> Call]
  BY DEF Lineage, Shapes
<1>3. r.pc = "set" /\ r.family = calls[c].family /\ r.token = n /\ r.by = calls[c].by
  BY <1>2 DEF Call
<1>4. s.family = g /\ s.revoked = FALSE
  OBVIOUS
<1>5. g = n \/ (g = calls[c].family /\ calls[c].family # 0)
  BY <1>1 DEF Lineage, Shapes, Paths, Jars
<1>6. \A t \in Tokens : sessions'[t] = IF t = n THEN s ELSE sessions[t]
  BY <1>1, <1>2
<1>7. calls'[c] = r /\ \A d \in Calls \ {c} : calls'[d] = calls[d]
  BY <1>1, <1>2
<1>8. /\ \A b \in Browsers : cookies[b] \in Nat /\ cookies[b] <= minted
      /\ \A d \in Calls : calls[d].token \in Nat /\ calls[d].token <= minted
      /\ \A d \in Calls : calls[d].family \in Nat /\ calls[d].family <= minted
      /\ \A t \in Tokens : sessions[t].family \in Nat /\ sessions[t].family <= minted
  BY DEF Jars, Lineage, Shapes, Numbered, Call, Row
<1> HIDE DEF s, r
<1>9. Served(c)
  BY <1>1, <1>3, <1>7 DEF Served, Busy
<1>10. Jars'
  <2>1. \A t \in Tokens : Found(t)' => sessions'[t].family # 0
    BY <1>2, <1>4, <1>5, <1>6 DEF Jars, Found
  <2>2. \A b \in Browsers : cookies'[b] <= minted'
    BY <1>1, <1>2, <1>8
  <2>3. \A d \in Calls : calls'[d].token <= minted' /\ (Busy(d)' => calls'[d].by \in Browsers)
    BY <1>1, <1>2, <1>3, <1>7, <1>8 DEF Jars, Busy
  <2>4. \A d \in Calls : \/ calls'[d].pc = "swapping"
                         \/ calls'[d].pc = "minting" /\ calls'[d].kind = "refresh"
                         => calls'[d].family # 0
    BY <1>3, <1>7 DEF Jars
  <2> QED
    BY <1>1, <2>1, <2>2, <2>3, <2>4 DEF Jars
<1>11. HoldersApart'
  <2> HIDE DEF n, g
  <2>1. \A t \in Tokens : t # n => (sessions'[t] = sessions[t] /\ (Found(t)' <=> Found(t)))
    BY <1>6 DEF Found
  <2>2. \A t : t \in Nat /\ t <= minted => t # n
    BY <1>2
  <2>3. ASSUME NEW b \in Browsers, NEW f \in Nat \ {0}, Holds(b, f)'
        PROVE  Holds(b, f) \/ (b = calls[c].by /\ f = g)
    <3>1. CASE Found(cookies[b])' /\ sessions'[cookies'[b]].family = f
      <4>1. cookies'[b] = cookies[b] /\ cookies[b] \in Tokens /\ cookies[b] # n
        BY <1>1, <1>8, <2>2, <3>1 DEF Found
      <4> QED
        BY <2>1, <3>1, <4>1, <1>6 DEF Holds, Found
    <3>2. ASSUME NEW d \in Calls, Busy(d)', calls'[d].by = b,
                 \/ calls'[d].family = f
                 \/ Found(calls[d].token)' /\ sessions'[calls'[d].token].family = f
          PROVE  Holds(b, f) \/ (b = calls[c].by /\ f = g)
      <4>1. CASE d = c
        <5>1. CASE calls'[c].family = f
          BY <1>1, <1>3, <1>7, <3>2, <4>1, <5>1 DEF Holds, Busy
        <5>2. CASE Found(calls[c].token)' /\ sessions'[calls'[c].token].family = f
          BY <1>3, <1>4, <1>6, <1>7, <3>2, <4>1, <5>2 DEF Found
        <5> QED
          BY <3>2, <4>1, <5>1, <5>2
      <4>2. CASE d # c
        <5>1. calls'[d] = calls[d] /\ calls[d].token # n
          BY <1>7, <1>8, <2>2, <4>2
        <5>2. Found(calls[d].token)' /\ sessions'[calls'[d].token].family = f =>
                Found(calls[d].token) /\ sessions[calls[d].token].family = f
          BY <1>6, <5>1 DEF Found
        <5> QED
          BY <3>2, <5>1, <5>2 DEF Holds, Busy
      <4> QED
        BY <4>1, <4>2
    <3> QED
      BY <2>3, <3>1, <3>2 DEF Holds
  <2>4. g = n => \A b \in Browsers : ~ Holds(b, g)
    BY <1>2, <1>8, <2>2 DEF Holds, Found
  <2>5. g # n => Holds(calls[c].by, g)
    BY <1>1, <1>5 DEF Holds, Busy
  <2> QED
    BY <2>3, <2>4, <2>5 DEF HoldersApart, Jars, Served, Busy
<1>12. ASSUME NEW b \in Browsers, b # calls[c].by PROVE Calm(b)'
  <2>1. \A t : t \in Nat /\ t <= minted => RowKept(t)
    <3> HIDE DEF n
    <3>1. \A t : t \in Nat /\ t <= minted => t # n
      BY <1>2
    <3> QED
      BY <1>6, <3>1 DEF RowKept, Found
  <2>2. \A d \in Calls : Mine(b, d) \/ Mine(b, d)' => calls'[d] = calls[d]
    BY <1>9, <1>12 DEF Served, Mine
  <2>3. RowKept(cookies[b])
    BY <1>8, <2>1, <1>9 DEF Served, RowKept
  <2>4. \A d \in Calls : Mine(b, d) => RowKept(calls[d].token)
    BY <1>8, <2>1, <2>2 DEF Mine, RowKept
  <2> QED
    BY <2>2, <2>3, <2>4, <1>9, Bystander DEF Served
<1>13. ASSUME NEW b \in Browsers, b = calls[c].by PROVE Calm(b)'
  <2> SUFFICES ASSUME calm[b] PROVE Calm(b)'
    BY <1>9 DEF Calm, Served
  <2>1. \A d \in Calls : Mine(b, d)' => Mine(b, d)
    BY <1>9, <1>13 DEF Mine, Busy, Served
  <2>2. Mine(b, c) /\ Mine(b, c)'
    BY <1>9, <1>13 DEF Mine, Served
  <2>3. \A d \in Calls : Mine(b, d) => d = c
    BY <2>2 DEF Calm
  <2>4. Good(calls[c].token)'
    <3> HIDE DEF n
    <3> QED
      BY <1>3, <1>4, <1>6, <1>7 DEF Good, Live, Found
  <2>5. Standing(c)'
    BY <1>3, <1>7, <2>4 DEF Standing
  <2> QED
    BY <2>1, <2>2, <2>3, <2>5 DEF Calm
<1> QED
  BY <1>10, <1>11, <1>12, <1>13

\* An answer: what it puts in the jar is what its client can count on.
LEMMA DeliverKeeps ==
  ASSUME CookieInv, NEW c \in Calls, Deliver(c)
  PROVE  Jars' /\ HoldersApart' /\ \A b \in Browsers : Calm(b)'
<1> USE DEF CookieInv
<1>1. PICK b0 \in Browsers : b0 = calls[c].by
  BY DEF Deliver, Jars, Busy
<1>2. /\ calls[c].pc \in {"set", "clear", "keep"} /\ Mine(b0, c)
      /\ UNCHANGED <<sessions, minted, calm>>
      /\ calls'[c] = NoCall /\ \A d \in Calls \ {c} : calls'[d] = calls[d]
  BY <1>1 DEF Deliver, Lineage, Shapes, Mine, Busy
<1>3. ~ Busy(c)' /\ calls'[c].token = 0 /\ calls'[c].pc = "idle" /\ calls'[c].by = "none"
  BY <1>2 DEF NoCall, Busy
<1>4. /\ \A b \in Browsers \ {b0} : cookies'[b] = cookies[b]
      /\ cookies'[b0] = CASE calls[c].pc = "set"   -> calls[c].token
                          [] calls[c].pc = "clear" -> 0
                          [] calls[c].pc = "keep"  -> cookies[b0]
  BY <1>1 DEF Deliver, Lineage, Shapes
<1>5. RowsShrink /\ \A t : RowKept(t)
  BY <1>2 DEF RowsShrink, RowKept, Found
<1>6. Jars'
  <2>1. minted \in Nat
    BY DEF Lineage, Shapes
  <2>2. \A b \in Browsers : cookies'[b] <= minted
    BY <1>2, <1>4, <2>1 DEF Jars
  <2>3. \A d \in Calls : calls'[d].token <= minted /\ (Busy(d)' => calls'[d].by \in Browsers)
    BY <1>2, <1>3, <2>1 DEF Jars, Busy
  <2>4. \A d \in Calls : \/ calls'[d].pc = "swapping"
                         \/ calls'[d].pc = "minting" /\ calls'[d].kind = "refresh"
                         => calls'[d].family # 0
    BY <1>2, <1>3 DEF Jars
  <2> QED
    BY <1>2, <2>2, <2>3, <2>4 DEF Jars, Found
<1>7. HoldersApart'
  <2>1. \A d \in Calls : Busy(d)' => Busy(d) /\ calls'[d] = calls[d]
    BY <1>2, <1>3 DEF Busy
  <2>2. \A b \in Browsers : \/ cookies'[b] = cookies[b]
                            \/ cookies'[b] = 0
                            \/ \E d \in Calls : Mine(b, d) /\ calls[d].token = cookies'[b]
    BY <1>2, <1>4
  <2> QED
    BY <1>5, <2>1, <2>2, HoldsShrink
<1>8. ASSUME NEW b \in Browsers \ {b0} PROVE Calm(b)'
  <2>1. \A d \in Calls : Mine(b, d) \/ Mine(b, d)' => calls'[d] = calls[d]
    BY <1>1, <1>2, <1>3 DEF Mine
  <2> QED
    BY <1>2, <1>4, <1>5, <2>1, Bystander
<1>9. Calm(b0)'
  <2> SUFFICES ASSUME calm[b0] PROVE Calm(b0)'
    BY <1>2 DEF Calm
  <2>1. \A d \in Calls : Mine(b0, d) => d = c
    BY <1>2 DEF Calm
  <2>2. \A d \in Calls : ~ Mine(b0, d)'
    BY <1>2, <1>3, <2>1 DEF Mine, Busy
  <2>3. Standing(c)
    BY <1>2 DEF Calm
  <2>4. Good(cookies'[b0])
    <3>1. CASE calls[c].pc = "set"
      BY <1>4, <2>3, <3>1 DEF Standing
    <3>2. CASE calls[c].pc = "clear"
      BY <1>4, <3>2, TokensAreNumbers DEF Good, Found
    <3>3. CASE calls[c].pc = "keep"
      BY <1>1, <1>4, <2>3, <3>3 DEF Standing
    <3> QED
      BY <1>2, <3>1, <3>2, <3>3
  <2>5. Good(cookies[b0])'
    BY <1>2, <2>4 DEF Good, Found, Live
  <2> QED
    BY <2>2, <2>5 DEF Calm
<1> QED
  BY <1>6, <1>7, <1>8, <1>9

\* A loss: its client is not calm any more.
LEMMA LoseKeeps ==
  ASSUME CookieInv, NEW c \in Calls, Lose(c)
  PROVE  Jars' /\ HoldersApart' /\ \A b \in Browsers : Calm(b)'
<1> USE DEF CookieInv
<1>1. PICK b0 \in Browsers : b0 = calls[c].by
  BY DEF Lose, Jars, Busy
<1>2. /\ UNCHANGED <<sessions, minted, cookies>>
      /\ calls'[c] = NoCall /\ \A d \in Calls \ {c} : calls'[d] = calls[d]
      /\ calm' = [calm EXCEPT ![b0] = FALSE]
  BY <1>1 DEF Lose, Lineage, Shapes
<1>3. ~ Busy(c)' /\ calls'[c].token = 0 /\ calls'[c].pc = "idle" /\ calls'[c].by = "none"
  BY <1>2 DEF NoCall, Busy
<1>4. calm' \in [Browsers -> BOOLEAN] /\ ~ calm'[b0] /\ \A b \in Browsers \ {b0} : calm'[b] = calm[b]
  BY <1>2 DEF Jars
<1>5. RowsShrink /\ \A t : RowKept(t)
  BY <1>2 DEF RowsShrink, RowKept, Found
<1>6. Jars'
  <2>1. minted \in Nat
    BY DEF Lineage, Shapes
  <2>2. \A d \in Calls : calls'[d].token <= minted /\ (Busy(d)' => calls'[d].by \in Browsers)
    BY <1>2, <1>3, <2>1 DEF Jars, Busy
  <2>3. \A d \in Calls : \/ calls'[d].pc = "swapping"
                         \/ calls'[d].pc = "minting" /\ calls'[d].kind = "refresh"
                         => calls'[d].family # 0
    BY <1>2, <1>3 DEF Jars
  <2> QED
    BY <1>2, <1>4, <2>2, <2>3 DEF Jars, Found
<1>7. HoldersApart'
  <2>1. \A d \in Calls : Busy(d)' => Busy(d) /\ calls'[d] = calls[d]
    BY <1>2, <1>3 DEF Busy
  <2> QED
    BY <1>2, <1>5, <2>1, HoldsShrink
<1>8. ASSUME NEW b \in Browsers \ {b0} PROVE Calm(b)'
  <2>1. \A d \in Calls : Mine(b, d) \/ Mine(b, d)' => calls'[d] = calls[d]
    BY <1>1, <1>2, <1>3 DEF Mine
  <2> QED
    BY <1>2, <1>4, <1>5, <2>1, Bystander
<1>9. Calm(b0)'
  BY <1>4 DEF Calm
<1> QED
  BY <1>6, <1>7, <1>8, <1>9

\* A session expires: nobody is worse off.
LEMMA ExpireKeeps ==
  ASSUME CookieInv, NEW n \in Tokens, Expire(n)
  PROVE  Jars' /\ HoldersApart' /\ \A b \in Browsers : Calm(b)'
<1> USE DEF CookieInv
<1>1. UNCHANGED <<minted, cookies, calls, calm>> /\ sessions' = [sessions EXCEPT ![n].expired = TRUE]
  BY DEF Expire
<1>2. \A t \in Tokens : \/ sessions'[t] = sessions[t]
                        \/ /\ Found(t)
                           /\ sessions'[t].family = sessions[t].family
                           /\ sessions'[t].owner = sessions[t].owner
                           /\ sessions'[t].revoked = sessions[t].revoked
                           /\ sessions'[t].expired
  BY <1>1 DEF Expire, Lineage, Shapes, Row
<1>3. RowsShrink /\ \A t : RowKept(t)
  BY <1>2 DEF RowsShrink, RowKept, Found
<1>4. Jars'
  BY <1>1, <1>3 DEF Jars, RowsShrink, Busy
<1>5. HoldersApart'
  <2>1. \A d \in Calls : Busy(d)' => Busy(d) /\ calls'[d] = calls[d]
    BY <1>1 DEF Busy
  <2> QED
    BY <1>1, <1>3, <2>1, HoldsShrink
<1>6. \A b \in Browsers : Calm(b)'
  BY <1>1, <1>3, Bystander
<1> QED
  BY <1>4, <1>5, <1>6

\* A request that is sent: its client counts on the cookie, when it has no other in flight.
LEMMA SendKeeps ==
  ASSUME CookieInv, NEW c \in Calls, NEW b0 \in Browsers, NEW kind \in Kinds,
         NEW pc \in {"find", "minting", "deleting"}, NEW owner \in Nat,
         Send(c, b0, kind, pc, owner), pc = "minting" => kind = "signin"
  PROVE  Jars' /\ HoldersApart' /\ \A b \in Browsers : Calm(b)'
<1> DEFINE r == [NoCall EXCEPT !.kind = kind, !.by = b0, !.pc = pc, !.token = cookies[b0],
                              !.owner = owner]
<1> USE DEF CookieInv
<1>1. /\ calls' = [calls EXCEPT ![c] = r] /\ UNCHANGED <<sessions, minted, cookies>>
      /\ calm' = [calm EXCEPT ![b0] = @ /\ \A d \in Calls : Busy(d) => calls[d].by # b0]
      /\ ~ Busy(c)
  BY DEF Send
<1>2. /\ r.pc = pc /\ r.kind = kind /\ r.family = 0 /\ r.by = b0 /\ r.token = cookies[b0]
  <2>1. NoCall \in Call /\ NoCall.family = 0
    BY DEF NoCall, Call, Kinds, Steps
  <2>2. cookies[b0] \in Nat
    BY DEF Lineage, Shapes
  <2> QED
    BY <2>1, <2>2 DEF Call
<1> HIDE DEF r
<1>3. calls'[c] = r /\ \A d \in Calls \ {c} : calls'[d] = calls[d]
  BY <1>1 DEF Lineage, Shapes
<1>4. /\ calm' \in [Browsers -> BOOLEAN]
      /\ \A b \in Browsers \ {b0} : calm'[b] = calm[b]
      /\ calm'[b0] => calm[b0] /\ \A d \in Calls : ~ Mine(b0, d)
  <2>1. calm' \in [Browsers -> BOOLEAN] /\ \A b \in Browsers \ {b0} : calm'[b] = calm[b]
    BY <1>1 DEF Jars
  <2>2. calm'[b0] = (calm[b0] /\ \A d \in Calls : Busy(d) => calls[d].by # b0)
    BY <1>1 DEF Jars
  <2> QED
    BY <2>1, <2>2 DEF Mine
<1>5. RowsShrink /\ \A t : RowKept(t)
  BY <1>1 DEF RowsShrink, RowKept, Found
<1>6. Jars'
  <2>1. \A d \in Calls : calls'[d].token <= minted /\ (Busy(d)' => calls'[d].by \in Browsers)
    BY <1>2, <1>3 DEF Jars, Busy
  <2>2. \A d \in Calls : \/ calls'[d].pc = "swapping"
                         \/ calls'[d].pc = "minting" /\ calls'[d].kind = "refresh"
                         => calls'[d].family # 0
    BY <1>2, <1>3 DEF Jars
  <2> QED
    BY <1>1, <1>4, <2>1, <2>2 DEF Jars, Found
<1>7. HoldersApart'
  <2>1. \A d \in Calls : Busy(d)' =>
          \/ Busy(d) /\ calls'[d] = calls[d]
          \/ calls'[d].token = cookies[calls'[d].by] /\ calls'[d].family = 0
    BY <1>2, <1>3 DEF Busy
  <2> QED
    BY <1>1, <1>5, <2>1, HoldsShrink
<1>8. ASSUME NEW b \in Browsers \ {b0} PROVE Calm(b)'
  <2>1. \A d \in Calls : Mine(b, d) \/ Mine(b, d)' => calls'[d] = calls[d]
    BY <1>1, <1>2, <1>3 DEF Mine, Busy
  <2> QED
    BY <1>1, <1>4, <1>5, <2>1, Bystander
<1>9. Calm(b0)'
  <2> SUFFICES ASSUME calm'[b0] PROVE Calm(b0)'
    BY DEF Calm
  <2>1. \A d \in Calls : Mine(b0, d)' => d = c
    BY <1>3, <1>4 DEF Mine, Busy
  <2>2. Mine(b0, c)'
    BY <1>2, <1>3 DEF Mine, Busy
  <2>3. Good(cookies[b0])
    BY <1>4 DEF Calm
  <2>4. Good(cookies[b0])' /\ cookies'[b0] = cookies[b0]
    BY <1>1, <2>3 DEF Good, Found, Live
  <2>5. Standing(c)'
    BY <1>2, <1>3, <2>4 DEF Standing
  <2> QED
    BY <2>1, <2>2, <2>5 DEF Calm
<1> QED
  BY <1>6, <1>7, <1>8, <1>9

\* Every step keeps the invariant.
LEMMA CookieStep ==
  ASSUME CookieInv, [SessionsNext]_sessionVars PROVE CookieInv'
<1>1. Lineage' /\ NoSessionOfDeletedAccount'
  BY LineageStep, OwnersStep DEF CookieInv, Lineage
<1>2. ASSUME Jars' /\ HoldersApart' /\ \A b \in Browsers : Calm(b)' PROVE CookieInv'
  BY <1>1, <1>2 DEF CookieInv
<1>3. account \in Nat /\ access \in [Browsers -> Nat]
  BY DEF CookieInv, Lineage, Shapes
<1>4. ASSUME NEW c \in Calls, NEW b \in Browsers, SendRefresh(c, b) PROVE CookieInv'
  BY <1>2, <1>4, SendKeeps DEF SendRefresh, Kinds
<1>5. ASSUME NEW c \in Calls, NEW b \in Browsers, SendLogout(c, b) PROVE CookieInv'
  BY <1>2, <1>5, SendKeeps DEF SendLogout, Kinds
<1>6. ASSUME NEW c \in Calls, NEW b \in Browsers, SendSignIn(c, b) PROVE CookieInv'
  BY <1>2, <1>3, <1>6, SendKeeps DEF SendSignIn, Kinds
<1>7. ASSUME NEW c \in Calls, NEW b \in Browsers, SendDelete(c, b) PROVE CookieInv'
  BY <1>2, <1>3, <1>7, SendKeeps DEF SendDelete, Kinds
<1>8. ASSUME NEW c \in Calls, Serve(c) PROVE CookieInv'
  <2>1. CASE FindByHash(c)
    BY <1>2, <2>1, FindKeeps
  <2>2. CASE RetireExpired(c)
    BY <1>2, <2>2, RetireKeeps
  <2>3. CASE WinSwap(c)
    BY <1>2, <2>3, WinSwapKeeps
  <2>4. CASE LoseSwap(c)
    BY <1>2, <2>4, LoseSwapKeeps
  <2>5. CASE RevokeFamily(c)
    BY <1>2, <2>5, RevokeFamilyKeeps
  <2>6. CASE Mint(c) /\ OwnerExists(c)
    BY <1>2, <2>6, MintKeeps
  <2>7. CASE Mint(c) /\ ~ OwnerExists(c)
    BY <1>2, <2>7, NoMintKeeps
  <2>8. CASE DeleteAccount(c)
    BY <1>2, <2>8, DeleteKeeps
  <2> QED
    BY <1>8, <2>1, <2>2, <2>3, <2>4, <2>5, <2>6, <2>7, <2>8 DEF Serve
<1>9. ASSUME NEW c \in Calls, Deliver(c) PROVE CookieInv'
  BY <1>2, <1>9, DeliverKeeps
<1>10. ASSUME NEW c \in Calls, Lose(c) PROVE CookieInv'
  BY <1>2, <1>10, LoseKeeps
<1>11. ASSUME NEW n \in Tokens, Expire(n) PROVE CookieInv'
  BY <1>2, <1>11, ExpireKeeps
<1>12. ASSUME UNCHANGED sessionVars PROVE CookieInv'
  <2>1. UNCHANGED <<sessions, minted, cookies, calls, calm>>
    BY <1>12 DEF sessionVars
  <2>2. Jars' /\ HoldersApart'
    BY <2>1 DEF CookieInv, Jars, HoldersApart, Holds, Found, Busy
  <2>3. \A b \in Browsers : Calm(b)'
    BY <2>1 DEF CookieInv, Calm, Mine, Busy, Standing, Good, Found, Live
  <2> QED
    BY <1>2, <2>2, <2>3
<1> QED
  BY <1>4, <1>5, <1>6, <1>7, <1>8, <1>9, <1>10, <1>11, <1>12 DEF SessionsNext

\* The invariant holds of every reachable state.
LEMMA CookieHolds == SessionsSpec => []CookieInv
<1>1. CookieInv /\ [SessionsNext]_sessionVars => CookieInv'
  BY CookieStep
<1> QED
  BY <1>1, CookieAtFirst, PTL DEF SessionsSpec

\* A client that sends one request at a time and loses no answer is never locked out by
\* what other clients, thieves of other families, expiries or deletions do: the session
\* behind its cookie is live until its days are over or its account is deleted
\* (token.service.ts:158-205).
THEOREM CalmClientsStaySignedIn == SessionsSpec => []CookieWorksWhenCalm
<1>1. CookieInv => CookieWorksWhenCalm
  BY DEF CookieInv, CookieWorksWhenCalm, Calm, Mine, Good
<1> QED
  BY <1>1, CookieHolds, PTL

(***************************************************************************)
(* Types.  A request is let in only while its token, beside those that the *)
(* requests in flight still owe, is within the bound.                      *)
(***************************************************************************)
Owing == {c \in Calls : /\ calls[c].kind \in {"refresh", "signin"}
                        /\ calls[c].pc \notin {"set", "clear", "keep"}}

OwnersBounded ==
  /\ account \in Accounts
  /\ \A b \in Browsers : access[b] <= MaxAccounts
  /\ \A c \in Calls : /\ calls[c].owner <= MaxAccounts
                      /\ calls[c].pc = "deleting" => calls[c].owner < MaxAccounts

Bounded ==
  /\ OwnersBounded /\ callFaults \in 0 .. MaxCallFaults
  /\ minted + Cardinality(Owing) <= MaxTokens

\* The bounds hold of the empty tables.
LEMMA BoundedAtFirst == SessionsInit => Bounded
<1> SUFFICES ASSUME SessionsInit PROVE Bounded
  OBVIOUS
<1> USE SessionsAssumption DEF SessionsInit, NoCall
<1>1. Owing = {}
  BY DEF Owing
<1>2. OwnersBounded
  BY DEF OwnersBounded, Accounts
<1> QED
  BY <1>1, <1>2, FS_EmptySet DEF Bounded

\* Fewer requests owe a token.
LEMMA OwingShrinks ==
  ASSUME Lineage, Bounded, UNCHANGED minted, Owing' \subseteq Owing
  PROVE  minted' + Cardinality(Owing') <= MaxTokens
<1>1. IsFiniteSet(Owing) /\ IsFiniteSet(Owing')
  <2>1. Owing \subseteq Calls /\ Owing' \subseteq Calls
    BY DEF Owing
  <2> QED
    BY <2>1, SessionsAssumption, FS_Subset
<1>2. /\ Cardinality(Owing) \in Nat /\ Cardinality(Owing') \in Nat
      /\ Cardinality(Owing') <= Cardinality(Owing)
  BY <1>1, FS_CardinalityType, FS_Subset
<1> QED
  BY <1>2, SessionsAssumption DEF Lineage, Shapes, Bounded

\* A handler that goes on, and mints nothing.
LEMMA GoBounded ==
  ASSUME Lineage, Bounded, NEW c \in Calls, NEW pc \in Steps \ {"deleting"}, Go(c, pc),
         calls[c].pc \notin {"set", "clear", "keep"}, account' \in Accounts,
         UNCHANGED <<minted, access, callFaults>>
  PROVE  Bounded'
<1>1. \A d \in Calls : /\ calls'[d].owner = calls[d].owner /\ calls'[d].kind = calls[d].kind
                       /\ d # c => calls'[d].pc = calls[d].pc
  BY DEF Lineage, Shapes, Call, Go
<1>2. calls'[c].pc = pc
  BY DEF Lineage, Shapes, Call, Go
<1>3. Owing' \subseteq Owing
  BY <1>1 DEF Owing
<1>4. OwnersBounded'
  BY <1>1, <1>2 DEF Bounded, OwnersBounded
<1> QED
  BY <1>3, <1>4, OwingShrinks DEF Bounded

\* The look-up: the account it reads is the one there is.
LEMMA FindBounded ==
  ASSUME CookieInv, Bounded, NEW c \in Calls, FindByHash(c) PROVE Bounded'
<1> DEFINE s == IF Found(calls[c].token) THEN sessions[calls[c].token] ELSE Absent
           k == AfterFind(c)
<1>1. calls[c].pc = "find" /\ calls[c].kind \in {"refresh", "logout"} /\ calls[c] \in Call
  BY DEF FindByHash, CookieInv, Lineage, Shapes, Paths
<1>2. /\ calls' = [calls EXCEPT ![c].pc = k, ![c].family = s.family, ![c].owner = s.owner]
      /\ UNCHANGED <<minted, account, access, callFaults>>
  BY DEF FindByHash
<1>3. k # "deleting"
  BY <1>1 DEF AfterFind
<1>4. s.owner <= MaxAccounts
  <2>1. account <= MaxAccounts
    BY SessionsAssumption DEF Bounded, OwnersBounded, Accounts
  <2>2. Found(calls[c].token) => s.owner = account
    BY DEF CookieInv, NoSessionOfDeletedAccount, Found
  <2>3. ~ Found(calls[c].token) => s.owner = 0
    BY DEF Absent
  <2> QED
    BY <2>1, <2>2, <2>3, SessionsAssumption
<1> HIDE DEF s, k
<1>5. \A d \in Calls : /\ calls'[d].kind = calls[d].kind
                       /\ d # c => calls'[d] = calls[d]
  BY <1>1, <1>2 DEF CookieInv, Lineage, Shapes, Call
<1>6. calls'[c].owner = s.owner /\ calls'[c].pc = k
  BY <1>1, <1>2 DEF CookieInv, Lineage, Shapes, Call
<1>7. Owing' \subseteq Owing
  BY <1>1, <1>5 DEF Owing
<1>8. OwnersBounded'
  BY <1>2, <1>3, <1>4, <1>5, <1>6 DEF Bounded, OwnersBounded
<1> QED
  BY <1>2, <1>7, <1>8, OwingShrinks DEF Bounded, CookieInv

\* The mint: the request that owed a token has it.
LEMMA MintBounded ==
  ASSUME CookieInv, Bounded, NEW c \in Calls, Mint(c), OwnerExists(c) PROVE Bounded'
<1>1. /\ calls[c].pc = "minting" /\ calls[c].kind \in {"refresh", "signin"}
      /\ minted' = minted + 1 /\ minted \in Nat
      /\ calls' = [calls EXCEPT ![c].pc = "set", ![c].token = minted + 1]
      /\ UNCHANGED <<account, access, callFaults>>
      /\ calls \in [Calls -> Call]
  BY DEF Mint, CookieInv, Lineage, Shapes, Paths
<1>2. \A d \in Calls : /\ calls'[d].owner = calls[d].owner
                       /\ d # c => calls'[d] = calls[d]
  BY <1>1 DEF Call
<1>3. calls'[c].pc = "set"
  BY <1>1 DEF Call
<1>4. OwnersBounded'
  BY <1>1, <1>2, <1>3 DEF Bounded, OwnersBounded
<1>5. c \in Owing /\ Owing' = Owing \ {c}
  BY <1>1, <1>2, <1>3 DEF Owing
<1>6. Owing \subseteq Calls /\ IsFiniteSet(Calls)
  BY SessionsAssumption DEF Owing
<1>7. Cardinality(Owing') = Cardinality(Owing) - 1 /\ Cardinality(Owing) \in Nat
  BY <1>5, <1>6, FS_Subset, FS_RemoveElement, FS_CardinalityType
<1> QED
  BY <1>1, <1>4, <1>7, SessionsAssumption DEF Bounded

\* An answer that arrives, or a request that is lost.
LEMMA EndBounded ==
  ASSUME CookieInv, Bounded, NEW c \in Calls, Deliver(c) \/ Lose(c) PROVE Bounded'
<1>1. /\ calls' = [calls EXCEPT ![c] = NoCall]
      /\ UNCHANGED <<minted, account>> /\ callFaults' \in 0 .. MaxCallFaults
      /\ \A b \in Browsers : access'[b] \in {0, access[b], calls[c].owner}
      /\ calls \in [Calls -> Call]
  BY SessionsAssumption DEF Deliver, Lose, Bounded, CookieInv, Lineage, Shapes
<1>2. /\ calls'[c].owner = 0 /\ calls'[c].kind = "none" /\ calls'[c].pc = "idle"
      /\ \A d \in Calls : d # c => calls'[d] = calls[d]
  BY <1>1 DEF NoCall
<1>3. Owing' \subseteq Owing
  BY <1>2 DEF Owing
<1>4. OwnersBounded'
  BY <1>1, <1>2, SessionsAssumption DEF Bounded, OwnersBounded
<1> QED
  BY <1>1, <1>3, <1>4, OwingShrinks DEF Bounded, CookieInv

\* A request that is let in.
LEMMA SendBounded ==
  ASSUME CookieInv, Bounded, NEW c \in Calls, NEW b \in Browsers, NEW kind \in Kinds,
         NEW pc \in {"find", "minting", "deleting"}, NEW owner \in Nat,
         Send(c, b, kind, pc, owner),
         owner <= MaxAccounts, pc = "deleting" => owner < MaxAccounts,
         kind \in {"refresh", "signin"} => Room
  PROVE  Bounded'
<1> DEFINE r == [NoCall EXCEPT !.kind = kind, !.by = b, !.pc = pc, !.token = cookies[b],
                               !.owner = owner]
<1>1. /\ calls' = [calls EXCEPT ![c] = r] /\ calls \in [Calls -> Call] /\ minted \in Nat
      /\ UNCHANGED <<minted, account, access, callFaults>>
  BY DEF Send, CookieInv, Lineage, Shapes
<1>2. r.kind = kind /\ r.pc = pc /\ r.owner = owner
  BY DEF NoCall
<1> HIDE DEF r
<1>3. calls'[c] = r /\ \A d \in Calls : d # c => calls'[d] = calls[d]
  BY <1>1
<1>4. OwnersBounded'
  BY <1>1, <1>2, <1>3 DEF Bounded, OwnersBounded
<1>5. CASE kind \notin {"refresh", "signin"}
  <2>1. Owing' \subseteq Owing
    BY <1>2, <1>3, <1>5 DEF Owing
  <2> QED
    BY <1>1, <1>4, <2>1, OwingShrinks DEF Bounded, CookieInv
<1>6. CASE kind \in {"refresh", "signin"}
  <2> DEFINE M == {d \in Calls : calls[d].kind \in {"refresh", "signin"}}
  <2>1. minted + Cardinality(M) < MaxTokens
    BY <1>6 DEF Room
  <2>2. Owing' \subseteq M \cup {c}
    BY <1>3 DEF Owing
  <2>3. IsFiniteSet(M)
    BY SessionsAssumption, FS_Subset
  <2> HIDE DEF M
  <2>4. IsFiniteSet(M \cup {c}) /\ Cardinality(M \cup {c}) <= Cardinality(M) + 1
    <3>1. Cardinality(M) \in Nat
      BY <2>3, FS_CardinalityType
    <3>2. CASE c \in M
      <4>1. M \cup {c} = M
        BY <3>2
      <4> QED
        BY <2>3, <3>1, <4>1
    <3>3. CASE c \notin M
      BY <2>3, <3>1, <3>3, FS_AddElement
    <3> QED
      BY <3>2, <3>3
  <2>5. /\ Cardinality(Owing') <= Cardinality(M \cup {c}) /\ Cardinality(Owing') \in Nat
        /\ Cardinality(M) \in Nat /\ Cardinality(M \cup {c}) \in Nat
    BY <2>2, <2>3, <2>4, FS_Subset, FS_CardinalityType
  <2>6. minted' + Cardinality(Owing') <= MaxTokens
    BY <1>1, <2>1, <2>4, <2>5, SessionsAssumption
  <2> QED
    BY <1>1, <1>4, <2>6 DEF Bounded
<1> QED
  BY <1>5, <1>6

\* Every step keeps the bounds.
LEMMA BoundedStep ==
  ASSUME CookieInv, Bounded, [SessionsNext]_sessionVars PROVE Bounded'
<1>1. /\ Lineage /\ account \in Nat /\ account <= MaxAccounts /\ access \in [Browsers -> Nat]
      /\ MaxAccounts \in Nat \ {0} /\ account >= 1
  BY SessionsAssumption DEF CookieInv, Lineage, Shapes, Bounded, OwnersBounded, Accounts
<1>2. account \in Accounts
  BY DEF Bounded, OwnersBounded
<1>3. ASSUME NEW c \in Calls, NEW b \in Browsers, SendRefresh(c, b) PROVE Bounded'
  BY <1>1, <1>3, SendBounded DEF SendRefresh, Kinds
<1>4. ASSUME NEW c \in Calls, NEW b \in Browsers, SendLogout(c, b) PROVE Bounded'
  BY <1>1, <1>4, SendBounded DEF SendLogout, Kinds
<1>5. ASSUME NEW c \in Calls, NEW b \in Browsers, SendSignIn(c, b) PROVE Bounded'
  BY <1>1, <1>5, SendBounded DEF SendSignIn, Kinds
<1>6. ASSUME NEW c \in Calls, NEW b \in Browsers, SendDelete(c, b) PROVE Bounded'
  <2>1. access[b] \in Nat /\ access[b] <= MaxAccounts - 1
    BY <1>1, <1>6 DEF SendDelete
  <2>2. access[b] <= MaxAccounts /\ access[b] < MaxAccounts
    BY <1>1, <2>1
  <2>3. Send(c, b, "delete", "deleting", access[b])
    BY <1>6 DEF SendDelete
  <2> QED
    BY <2>1, <2>2, <2>3, SendBounded DEF Kinds
<1>7. ASSUME NEW c \in Calls, RetireExpired(c) \/ WinSwap(c) \/ LoseSwap(c) \/ RevokeFamily(c)
      PROVE  Bounded'
  BY <1>1, <1>2, <1>7, GoBounded DEF RetireExpired, WinSwap, LoseSwap, RevokeFamily, Steps
<1>8. ASSUME NEW c \in Calls, Mint(c), ~ OwnerExists(c) PROVE Bounded'
  BY <1>1, <1>2, <1>8, GoBounded DEF Mint, Steps
<1>9. ASSUME NEW c \in Calls, DeleteAccount(c) PROVE Bounded'
  <2>1. /\ calls[c].pc = "deleting" /\ Go(c, "clear") /\ account' = NextAccount(c)
        /\ UNCHANGED <<minted, access, callFaults>>
    BY <1>9 DEF DeleteAccount
  <2>2. calls[c].owner < MaxAccounts
    BY <2>1 DEF Bounded, OwnersBounded
  <2>3. account' \in Accounts
    BY <1>1, <1>2, <2>1, <2>2 DEF NextAccount, Accounts
  <2> QED
    BY <1>1, <2>1, <2>3, GoBounded DEF Steps
<1>10. ASSUME UNCHANGED <<minted, account, access, calls, callFaults>> PROVE Bounded'
  <2>1. UNCHANGED Owing
    BY <1>10 DEF Owing
  <2> QED
    BY <1>10, <2>1 DEF Bounded, OwnersBounded
<1>11. ASSUME NEW n \in Tokens, Expire(n) PROVE Bounded'
  BY <1>10, <1>11 DEF Expire
<1>12. CASE UNCHANGED sessionVars
  BY <1>10, <1>12 DEF sessionVars
<1> QED
  BY <1>3, <1>4, <1>5, <1>6, <1>7, <1>8, <1>9, <1>11, <1>12, FindBounded, MintBounded, EndBounded
     DEF SessionsNext, Serve

\* The store, the jars and the requests hold values of their types: tokens and accounts
\* that exist, within the bounds.
THEOREM SessionsKeepTheirTypes == SessionsSpec => []SessionsTypeOK
<1>1. CookieInv /\ Bounded => SessionsTypeOK
  <2> SUFFICES ASSUME CookieInv, Bounded PROVE SessionsTypeOK
    OBVIOUS
  <2>1. /\ minted \in Nat /\ minted <= MaxTokens /\ account \in Accounts
        /\ account \in Nat /\ account <= MaxAccounts
        /\ MaxTokens \in Nat /\ MaxAccounts \in Nat
    <3>1. Owing \subseteq Calls
      BY DEF Owing
    <3>2. Cardinality(Owing) \in Nat
      BY <3>1, SessionsAssumption, FS_Subset, FS_CardinalityType
    <3> QED
      BY <3>2, SessionsAssumption
         DEF CookieInv, Lineage, Shapes, Bounded, OwnersBounded, Accounts
  <2>2. \A n \in Tokens : /\ sessions[n].family \in 0 .. MaxTokens
                          /\ sessions[n].owner \in 0 .. MaxAccounts
    <3> SUFFICES ASSUME NEW n \in Tokens
                 PROVE  /\ sessions[n].family \in 0 .. MaxTokens
                        /\ sessions[n].owner \in 0 .. MaxAccounts
      OBVIOUS
    <3>1. sessions[n] \in Row /\ sessions[n].family <= minted
      BY DEF CookieInv, Lineage, Shapes, Numbered
    <3>2. sessions[n].family \in Nat /\ sessions[n].owner \in Nat
      BY <3>1 DEF Row
    <3>3. sessions[n].owner \in {0, account}
      BY DEF CookieInv, NoSessionOfDeletedAccount, Found, Absent
    <3> QED
      BY <2>1, <3>1, <3>2, <3>3
  <2>3. sessions \in [Tokens -> [family : 0 .. MaxTokens, owner : 0 .. MaxAccounts,
                                 revoked : BOOLEAN, expired : BOOLEAN]]
    BY <2>2 DEF CookieInv, Lineage, Shapes, Row
  <2>4. cookies \in [Browsers -> 0 .. MaxTokens]
    BY <2>1 DEF CookieInv, Lineage, Shapes, Jars
  <2>5. access \in [Browsers -> 0 .. MaxAccounts]
    BY <2>1 DEF CookieInv, Lineage, Shapes, Bounded, OwnersBounded
  <2>6. \A c \in Calls : calls[c] \in
          [kind : Kinds, by : Browsers \cup {"none"}, token : 0 .. MaxTokens,
           family : 0 .. MaxTokens, owner : 0 .. MaxAccounts, pc : Steps]
    <3> SUFFICES ASSUME NEW c \in Calls
                 PROVE  calls[c] \in
                          [kind : Kinds, by : Browsers \cup {"none"}, token : 0 .. MaxTokens,
                           family : 0 .. MaxTokens, owner : 0 .. MaxAccounts, pc : Steps]
      OBVIOUS
    <3>1. calls[c] \in Call /\ calls[c].token <= minted /\ calls[c].family <= minted
      BY DEF CookieInv, Lineage, Shapes, Jars, Numbered
    <3>2. calls[c].owner <= MaxAccounts
      BY DEF Bounded, OwnersBounded
    <3>3. /\ calls[c].token \in 0 .. MaxTokens /\ calls[c].family \in 0 .. MaxTokens
          /\ calls[c].owner \in 0 .. MaxAccounts
      BY <2>1, <3>1, <3>2 DEF Call
    <3> QED
      BY <3>1, <3>3 DEF Call
  <2>7. calls \in [Calls ->
          [kind : Kinds, by : Browsers \cup {"none"}, token : 0 .. MaxTokens,
           family : 0 .. MaxTokens, owner : 0 .. MaxAccounts, pc : Steps]]
    <3>1. calls \in [Calls -> Call]
      BY DEF CookieInv, Lineage, Shapes
    <3> QED
      BY <2>6, <3>1
  <2>8. minted \in 0 .. MaxTokens /\ calm \in [Browsers -> BOOLEAN]
    BY <2>1 DEF CookieInv, Jars
  <2> QED
    BY <2>1, <2>3, <2>4, <2>5, <2>7, <2>8 DEF SessionsTypeOK, Bounded, Kinds, Steps
<1>2. (CookieInv /\ Bounded) /\ [SessionsNext]_sessionVars => (CookieInv /\ Bounded)'
  BY CookieStep, BoundedStep
<1>3. SessionsInit => CookieInv /\ Bounded
  BY CookieAtFirst, BoundedAtFirst
<1> QED
  BY <1>1, <1>2, <1>3, PTL DEF SessionsSpec

=============================================================================
