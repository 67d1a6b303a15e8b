---------------------------- MODULE ClientProofs ----------------------------
(***************************************************************************)
(* The forms of the client, the wages it records by itself, and the clock  *)
(* its ids are made with: that a sign-in stays in order, that what is      *)
(* entered is what was meant, that every payday is paid, that setup is     *)
(* told of and written whole, and that ids are issued in order.            *)
(* Each is proved of its own specification, for every bound; the shell     *)
(* they are played beside is the subject of ShellProofs.                   *)
(***************************************************************************)
EXTENDS MCApp, FiniteSetTheorems, WellFoundedInduction, TLAPS

-----------------------------------------------------------------------------
(***************************************************************************)
(* The sign-in screen.                                                     *)
(***************************************************************************)
Screens == [stage : {"choose", "phone", "code"}, accepted : BOOLEAN, busy : BOOLEAN,
            challenge : 0..MaxSent, digits : 0..MaxSent, cooling : BOOLEAN]

FormTypes ==
  /\ screen \in Screens /\ requests \subseteq Requests /\ texted \in 0..MaxSent
  /\ google \in {"button", "opening", "chooser", "fallback", "gone"}
  /\ outcome \in [signedIn : 0..MaxRequests, consent : BOOLEAN]
  /\ ticks \in 0..MaxTicks /\ barged \in BOOLEAN
  /\ screen.stage = "code" => screen.challenge # 0
  /\ screen.challenge <= texted
  /\ \A r \in requests : r.challenge <= texted

\* Unless a request barged in, the one under way shows as busy, and is about no older code.
OneAtOnce ==
  ~ barged => /\ \A r, q \in requests : r = q
              /\ requests # {} => screen.busy
              /\ \A r \in requests : r.challenge # 0 => r.challenge >= screen.challenge

\* Before the box is ticked nothing has happened.
Untouched ==
  ticks = 0 => /\ requests = {} /\ google = "button"
               /\ screen.stage = "choose" /\ ~ screen.accepted
               /\ outcome.signedIn = 0 /\ ~ outcome.consent

SignInInv == FormTypes /\ OneAtOnce /\ Untouched

\* The invariant holds of the screen as it is first shown.
LEMMA SignInAtFirst == SignInInit => SignInInv
<1> SUFFICES ASSUME SignInInit PROVE SignInInv
  OBVIOUS
<1>1. screen \in Screens /\ screen.stage = "choose" /\ screen.challenge = 0 /\ ~ screen.accepted
  BY SignInAssumption DEF SignInInit, Screens
<1>2. outcome \in [signedIn : 0..MaxRequests, consent : BOOLEAN]
  BY SignInAssumption DEF SignInInit
<1>3. /\ requests = {} /\ texted = 0 /\ google = "button" /\ ticks = 0 /\ barged = FALSE
      /\ outcome.signedIn = 0 /\ outcome.consent = FALSE
  BY DEF SignInInit
<1>4. FormTypes
  <2>1. 0 \in 0..MaxSent /\ 0 \in 0..MaxTicks /\ 0 <= 0
    BY SignInAssumption
  <2> QED
    BY <1>1, <1>2, <1>3, <2>1 DEF FormTypes
<1> QED
  BY <1>1, <1>3, <1>4 DEF SignInInv, OneAtOnce, Untouched

\* A step that makes no request and answers none.
LEMMA FormKeeps ==
  ASSUME SignInInv, UNCHANGED <<requests, texted, outcome, barged>>,
         screen' \in Screens, google' \in {"button", "opening", "chooser", "fallback", "gone"},
         screen'.busy = screen.busy, screen'.challenge = screen.challenge,
         screen'.stage = "code" => screen.stage = "code",
         ticks' \in 0..MaxTicks, ticks' >= ticks,
         ticks' = 0 => UNCHANGED <<screen, google>>
  PROVE  SignInInv' /\ ChallengeNeverGoesBack
<1>1. screen.challenge \in Nat /\ ticks \in Nat
  BY SignInAssumption DEF SignInInv, FormTypes, Screens
<1>2. FormTypes'
  BY <1>1 DEF SignInInv, FormTypes
<1>3. OneAtOnce'
  BY DEF SignInInv, OneAtOnce
<1>4. Untouched'
  BY <1>1, SignInAssumption DEF SignInInv, FormTypes, Untouched
<1> QED
  BY <1>1, <1>2, <1>3, <1>4 DEF SignInInv, ChallengeNeverGoesBack

\* A request that is made: nobody else's is under way, or it barged in.
LEMMA RequestKeeps ==
  ASSUME SignInInv, NEW kind \in {"send", "verify", "google"}, NEW typed \in 0..MaxSent,
         NEW code \in {0, screen.challenge}, Requested(kind, code, typed),
         screen' \in Screens, screen'.busy, screen'.challenge = screen.challenge,
         screen'.stage = screen.stage, screen'.accepted = screen.accepted,
         barged' = (barged \/ screen.busy), ticks # 0,
         UNCHANGED <<texted, google, outcome, ticks>>
  PROVE  SignInInv' /\ ChallengeNeverGoesBack
<1>1. screen.challenge \in 0..MaxSent
  BY DEF SignInInv, FormTypes, Screens
<1>2. PICK n \in 1..MaxRequests : requests' = requests \cup
        {[kind |-> kind, challenge |-> code, typed |-> typed, id |-> n]}
  BY DEF Requested
<1> DEFINE q == [kind |-> kind, challenge |-> code, typed |-> typed, id |-> n]
<1>3. q \in Requests /\ q.challenge = code
  BY <1>1, SignInAssumption DEF Requests
<1>4. requests' = requests \cup {q}
  BY <1>2
<1> HIDE DEF q
<1>5. FormTypes'
  BY <1>3, <1>4 DEF SignInInv, FormTypes
<1>6. OneAtOnce'
  <2> SUFFICES ASSUME ~ barged' PROVE OneAtOnce'
    BY DEF OneAtOnce
  <2>1. requests = {}
    BY DEF SignInInv, OneAtOnce
  <2> QED
    BY <1>1, <1>3, <1>4, <2>1, SignInAssumption DEF OneAtOnce
<1> QED
  BY <1>1, <1>5, <1>6, SignInAssumption DEF SignInInv, Untouched, ChallengeNeverGoesBack

\* A request that ends: no other was under way, or one had barged in.
LEMMA AnswerKeeps ==
  ASSUME SignInInv, NEW r \in requests, requests' = requests \ {r},
         screen' \in Screens, screen'.challenge \in {screen.challenge, r.challenge},
         screen'.stage = "code" => screen'.challenge # 0,
         screen'.challenge # screen.challenge => r.challenge # 0 /\ r.challenge <= texted,
         outcome' \in [signedIn : 0..MaxRequests, consent : BOOLEAN],
         UNCHANGED <<texted, google, ticks, barged>>
  PROVE  SignInInv' /\ ChallengeNeverGoesBack
<1>1. /\ screen.challenge \in 0..MaxSent /\ r.challenge \in 0..MaxSent
      /\ screen.challenge <= texted
  BY DEF SignInInv, FormTypes, Screens, Requests
<1>2. FormTypes'
  BY <1>1 DEF SignInInv, FormTypes
<1>3. OneAtOnce'
  BY DEF SignInInv, OneAtOnce
<1>4. ticks # 0
  BY DEF SignInInv, Untouched
<1>5. ChallengeNeverGoesBack
  BY <1>1, SignInAssumption DEF SignInInv, OneAtOnce, ChallengeNeverGoesBack
<1> QED
  BY <1>2, <1>3, <1>4, <1>5 DEF SignInInv, Untouched

\* The steps of the form, of the number and of Google's chooser.
LEMMA FormSteps ==
  ASSUME SignInInv, Tick \/ OpenPhone \/ GoBack \/ CooledDown \/ StartGoogle \/ Prompted
  PROVE  SignInInv' /\ ChallengeNeverGoesBack
<1>1. screen \in Screens /\ ticks \in Nat /\ ticks <= MaxTicks
  BY SignInAssumption DEF SignInInv, FormTypes
<1>2. CASE Tick
  <2>1. screen' = [screen EXCEPT !.accepted = ~ @] /\ ticks' = ticks + 1 /\ ticks' \in 0..MaxTicks
    BY <1>1, <1>2, SignInAssumption DEF Tick
  <2>2. /\ screen' \in Screens /\ screen'.busy = screen.busy
        /\ screen'.challenge = screen.challenge /\ screen'.stage = screen.stage
    BY <1>1, <2>1 DEF Screens
  <2> QED
    BY <1>1, <1>2, <2>1, <2>2, FormKeeps DEF Tick, SignInInv, FormTypes
<1>3. CASE OpenPhone
  <2>1. /\ screen' = [screen EXCEPT !.stage = "phone"] /\ screen.accepted
        /\ google' \in {google, "gone"}
    BY <1>3 DEF OpenPhone, Gate
  <2>2. /\ screen' \in Screens /\ screen'.busy = screen.busy
        /\ screen'.challenge = screen.challenge /\ screen'.stage = "phone"
    BY <1>1, <2>1 DEF Screens
  <2>3. ticks # 0
    BY <2>1 DEF SignInInv, Untouched
  <2> QED
    BY <1>1, <1>3, <2>1, <2>2, <2>3, FormKeeps DEF OpenPhone, SignInInv, FormTypes
<1>4. CASE GoBack
  <2> DEFINE stage == IF screen.stage = "code" THEN "phone" ELSE "choose"
  <2>1. screen' = [screen EXCEPT !.stage = stage] /\ screen.stage # "choose"
    BY <1>4 DEF GoBack
  <2>2. /\ screen' \in Screens /\ screen'.busy = screen.busy
        /\ screen'.challenge = screen.challenge /\ screen'.stage = stage
    BY <1>1, <2>1 DEF Screens
  <2>3. ticks # 0
    BY <2>1 DEF SignInInv, Untouched
  <2> QED
    BY <1>1, <1>4, <2>2, <2>3, FormKeeps DEF GoBack, SignInInv, FormTypes
<1>5. CASE CooledDown
  <2>1. screen' = [screen EXCEPT !.cooling = FALSE] /\ screen.cooling
    BY <1>5 DEF CooledDown
  <2>2. /\ screen' \in Screens /\ screen'.busy = screen.busy
        /\ screen'.challenge = screen.challenge /\ screen'.stage = screen.stage
        /\ screen'.accepted = screen.accepted
    BY <1>1, <2>1 DEF Screens
  <2>3. FormTypes'
    BY <1>5, <2>2 DEF CooledDown, SignInInv, FormTypes
  <2>4. OneAtOnce' /\ Untouched'
    BY <1>5, <2>2 DEF CooledDown, SignInInv, OneAtOnce, Untouched
  <2> QED
    BY <1>1, <2>2, <2>3, <2>4 DEF SignInInv, ChallengeNeverGoesBack, Screens
<1>6. CASE StartGoogle
  <2>1. ticks # 0
    BY <1>6 DEF StartGoogle, Gate, SignInInv, Untouched
  <2> QED
    BY <1>1, <1>6, <2>1, FormKeeps DEF StartGoogle, SignInInv, FormTypes
<1>7. CASE Prompted
  <2>1. ticks # 0
    BY <1>7 DEF Prompted, SignInInv, Untouched
  <2>2. google' \in {"chooser", "fallback", "gone"}
    BY <1>7 DEF Prompted
  <2> QED
    BY <1>1, <1>7, <2>1, <2>2, FormKeeps DEF Prompted, SignInInv, FormTypes
<1> QED
  BY <1>2, <1>3, <1>4, <1>5, <1>6, <1>7

\* The steps that make a request.
LEMMA RequestSteps ==
  ASSUME SignInInv, \/ SendTap \/ SendByEnter \/ GoogleToken
                    \/ \E code \in 1..texted : TypeCode(code)
  PROVE  SignInInv' /\ ChallengeNeverGoesBack
<1>1. screen \in Screens /\ texted \in 0..MaxSent /\ 0 \in 0..MaxSent
  BY SignInAssumption DEF SignInInv, FormTypes
<1>2. CASE SendTap \/ SendByEnter \/ GoogleToken
  <2>1. /\ screen' = [screen EXCEPT !.busy = TRUE]
        /\ \E kind \in {"send", "google"} : Requested(kind, 0, 0)
        /\ barged' = (barged \/ screen.busy)
        /\ UNCHANGED <<texted, google, outcome, ticks>>
    BY <1>2 DEF SendTap, SendByEnter, GoogleToken, Sending, SignInInv, FormTypes
  <2>2. /\ screen' \in Screens /\ screen'.busy /\ screen'.challenge = screen.challenge
        /\ screen'.stage = screen.stage /\ screen'.accepted = screen.accepted
    BY <1>1, <2>1 DEF Screens
  <2>3. ticks # 0
    BY <1>2 DEF SendTap, SendByEnter, GoogleToken, Sending, Gate, SignInInv, Untouched
  <2> QED
    BY <1>1, <2>1, <2>2, <2>3, RequestKeeps
<1>3. ASSUME NEW code \in 1..texted, TypeCode(code) PROVE SignInInv' /\ ChallengeNeverGoesBack
  <2>1. /\ screen' = [screen EXCEPT !.digits = code, !.busy = TRUE] /\ code \in 0..MaxSent
        /\ UNCHANGED <<texted, google, outcome, ticks, barged>>
        /\ screen.stage = "code"
    <3>1. code \in 0..MaxSent
      BY <1>1, SignInAssumption
    <3> QED
      BY <1>3, <3>1 DEF TypeCode, Verify
  <2>2. /\ screen' \in Screens /\ screen'.busy /\ screen'.challenge = screen.challenge
        /\ screen'.stage = screen.stage /\ screen'.accepted = screen.accepted
    <3> DEFINE t == [screen EXCEPT !.digits = code, !.busy = TRUE]
    <3>1. /\ t \in Screens /\ t.busy /\ t.challenge = screen.challenge
          /\ t.stage = screen.stage /\ t.accepted = screen.accepted
      BY <1>1, <2>1 DEF Screens
    <3>2. screen' = t
      BY <2>1
    <3> HIDE DEF t
    <3> QED
      BY <3>1, <3>2
  <2>3. ticks # 0
    BY <2>1 DEF SignInInv, Untouched
  <2>4. CASE ~ screen.busy
    <3>1. Requested("verify", screen.challenge, code) /\ barged' = (barged \/ screen.busy)
      BY <1>3, <2>1, <2>4 DEF TypeCode, Verify, SignInInv, FormTypes
    <3> QED
      BY <2>1, <2>2, <2>3, <3>1, RequestKeeps
  <2>5. CASE screen.busy
    <3>1. UNCHANGED requests
      BY <1>3, <2>5 DEF TypeCode, Verify
    <3>2. FormTypes'
      BY <2>1, <2>2, <3>1 DEF SignInInv, FormTypes
    <3>3. OneAtOnce' /\ Untouched'
      BY <2>1, <2>2, <2>3, <3>1 DEF SignInInv, OneAtOnce, Untouched
    <3> QED
      BY <1>1, <2>2, <3>2, <3>3 DEF SignInInv, ChallengeNeverGoesBack, Screens
  <2> QED
    BY <2>4, <2>5
<1> QED
  BY <1>2, <1>3

\* A code is sent: its challenge is the newest.
LEMMA TextedStep ==
  ASSUME SignInInv, NEW r \in requests, Texted(r)
  PROVE  SignInInv' /\ ChallengeNeverGoesBack
<1> DEFINE q == [r EXCEPT !.challenge = texted + 1]
<1>1. /\ requests' = (requests \ {r}) \cup {q} /\ texted' = texted + 1 /\ texted < MaxSent
      /\ UNCHANGED <<screen, google, outcome, ticks, barged>>
  BY DEF Texted
<1>2. r \in Requests /\ texted \in 0..MaxSent /\ screen.challenge \in 0..MaxSent
      /\ screen.challenge <= texted
  BY DEF SignInInv, FormTypes, Screens
<1>3. q \in Requests /\ q.challenge = texted + 1
  BY <1>1, <1>2, SignInAssumption DEF Requests
<1> HIDE DEF q
<1>4. FormTypes'
  <2>1. texted' \in 0..MaxSent /\ screen.challenge <= texted'
    BY <1>1, <1>2, SignInAssumption
  <2>2. requests' \subseteq Requests
    BY <1>1, <1>3 DEF SignInInv, FormTypes
  <2>3. \A p \in requests : p.challenge <= texted + 1
    <3>1. \A p \in requests : p.challenge \in 0..MaxSent /\ p.challenge <= texted
      BY DEF SignInInv, FormTypes, Requests
    <3> QED
      BY <1>2, <3>1, SignInAssumption
  <2>4. \A p \in requests' : p.challenge <= texted'
    BY <1>1, <1>2, <1>3, <2>3, SignInAssumption
  <2> QED
    BY <1>1, <2>1, <2>2, <2>4 DEF SignInInv, FormTypes
<1>5. OneAtOnce'
  BY <1>1, <1>2, <1>3, SignInAssumption DEF SignInInv, OneAtOnce
<1>6. Untouched'
  BY <1>1 DEF SignInInv, Untouched
<1> QED
  BY <1>1, <1>2, <1>4, <1>5, <1>6, SignInAssumption DEF SignInInv, ChallengeNeverGoesBack

\* The answers.
LEMMA AnswerSteps ==
  ASSUME SignInInv, NEW r \in requests,
         \/ SendAnswered(r) \/ SendFailed(r) \/ VerifyAnswered(r) \/ VerifyFailed(r)
         \/ GoogleAnswered(r) \/ GoogleFailed(r)
  PROVE  SignInInv' /\ ChallengeNeverGoesBack
<1>1. /\ screen \in Screens /\ r \in Requests /\ 0 \in 0..MaxSent
      /\ outcome \in [signedIn : 0..MaxRequests, consent : BOOLEAN]
  BY SignInAssumption DEF SignInInv, FormTypes
<1>2. requests' = requests \ {r} /\ UNCHANGED <<texted, google, ticks, barged>>
  BY DEF SendAnswered, SendFailed, VerifyAnswered, VerifyFailed, GoogleAnswered, GoogleFailed
<1>3. outcome' \in [signedIn : 0..MaxRequests, consent : BOOLEAN]
  <2>1. outcome' = outcome \/ (outcome.signedIn < MaxRequests /\ Reported)
    BY DEF SendAnswered, SendFailed, VerifyAnswered, VerifyFailed, GoogleAnswered, GoogleFailed
  <2>2. outcome.signedIn \in 0..MaxRequests
    BY <1>1
  <2>3. outcome.signedIn < MaxRequests => outcome.signedIn + 1 \in 0..MaxRequests
    BY <2>2, SignInAssumption
  <2>4. \A n \in 0..MaxRequests :
          [signedIn |-> n, consent |-> TRUE] \in [signedIn : 0..MaxRequests, consent : BOOLEAN]
    OBVIOUS
  <2> QED
    BY <1>1, <2>1, <2>3, <2>4 DEF Reported
<1>4. CASE SendAnswered(r)
  <2> DEFINE t == [screen EXCEPT !.challenge = r.challenge, !.digits = 0, !.cooling = TRUE,
                                 !.stage = "code", !.busy = FALSE]
  <2>1. screen' = t /\ r.kind = "send" /\ r.challenge # 0
    BY <1>4 DEF SendAnswered
  <2>2. t \in Screens /\ t.challenge = r.challenge
    BY <1>1 DEF Screens, Requests
  <2>3. r.challenge <= texted
    BY DEF SignInInv, FormTypes
  <2> HIDE DEF t
  <2> QED
    BY <1>2, <1>3, <2>1, <2>2, <2>3, AnswerKeeps
<1>5. ASSUME screen' \in Screens, screen'.challenge = screen.challenge,
             screen'.stage = screen.stage
      PROVE  SignInInv' /\ ChallengeNeverGoesBack
  BY <1>2, <1>3, <1>5, AnswerKeeps DEF SignInInv, FormTypes
<1>6. CASE ~ SendAnswered(r)
  <2>1. \/ screen' = screen
        \/ screen' = [screen EXCEPT !.busy = FALSE]
        \/ screen' = [screen EXCEPT !.busy = FALSE, !.digits = 0]
    BY <1>6 DEF SendFailed, VerifyAnswered, VerifyFailed, GoogleAnswered, GoogleFailed
  <2>2. CASE screen' = [screen EXCEPT !.busy = FALSE, !.digits = 0]
    <3> DEFINE t == [screen EXCEPT !.busy = FALSE, !.digits = 0]
    <3>1. t \in Screens /\ t.challenge = screen.challenge /\ t.stage = screen.stage
      BY <1>1 DEF Screens
    <3>2. screen' = t
      BY <2>2
    <3> HIDE DEF t
    <3> QED
      BY <1>5, <3>1, <3>2
  <2>3. CASE screen' = [screen EXCEPT !.busy = FALSE]
    BY <1>1, <1>5, <2>3 DEF Screens
  <2> QED
    BY <1>1, <1>5, <2>1, <2>2, <2>3
<1> QED
  BY <1>4, <1>6

\* Every step keeps the invariant, and no step takes the screen back to an older code.
LEMMA SignInKeeps ==
  ASSUME SignInInv, [SignInNext]_signInVars
  PROVE  SignInInv' /\ [ChallengeNeverGoesBack]_signInVars
<1>1. CASE UNCHANGED signInVars
  BY <1>1 DEF signInVars, SignInInv, FormTypes, OneAtOnce, Untouched
<1> QED
  BY <1>1, FormSteps, RequestSteps, TextedStep, AnswerSteps DEF SignInNext

\* The invariant holds of every reachable state.
LEMMA SignInHolds == SignInSpec => []SignInInv
<1>1. SignInInv /\ [SignInNext]_signInVars => SignInInv'
  BY SignInKeeps
<1> QED
  BY <1>1, SignInAtFirst, PTL DEF SignInSpec

\* What the invariant says of a state.
LEMMA SignInMeans ==
  ASSUME SignInInv PROVE SignInTypeOK /\ ConsentWasTicked /\ OneRequest
<1>1. ConsentWasTicked
  BY DEF SignInInv, Untouched, ConsentWasTicked
<1>2. OneRequest
  <2> SUFFICES ASSUME ~ barged PROVE Cardinality(requests) <= 1
    BY DEF OneRequest
  <2>1. requests = {} \/ \E r : requests = {r}
    BY DEF SignInInv, OneAtOnce
  <2> QED
    BY <2>1, FS_EmptySet, FS_Singleton
<1>3. SignInTypeOK
  BY DEF SignInInv, FormTypes, OneAtOnce, SignInTypeOK, Screens
<1> QED
  BY <1>1, <1>2, <1>3

\* Whatever is tapped, typed and answered, in whatever order: nobody is signed in before the
\* box was ticked, one request is under way unless one barged in, and none brings back an
\* older code (AuthScreen.tsx:60-69, 316, google.ts).
THEOREM SignInStaysOrderly == SignInSpec => SignInIsOrderly
<1>1. SignInInv => ConsentWasTicked /\ OneRequest
  BY SignInMeans
<1>2. SignInInv /\ [SignInNext]_signInVars => [ChallengeNeverGoesBack]_signInVars
  BY SignInKeeps
<1> QED
  BY <1>1, <1>2, SignInHolds, PTL DEF SignInSpec, SignInIsOrderly

\* The screen and what it waits for have values of their types.
THEOREM SignInKeepsItsTypes == SignInSpec => []SignInTypeOK
<1>1. SignInInv => SignInTypeOK
  BY SignInMeans
<1> QED
  BY <1>1, SignInHolds, PTL

(***************************************************************************)
(* The sheets.  What an entry is, before and after it is written; that the *)
(* draft is what was meant; and how many writes may still come, of new     *)
(* entries and of money put aside.                                         *)
(***************************************************************************)
Kept(e) ==
  /\ e \in Entry /\ e.amount # 0 /\ -MaxAmount <= e.amount /\ e.amount <= MaxAmount
  /\ ~ e.transfer => /\ e.amount > 0 <=> e.income
                     /\ e.income => e.cat = NoCat

Writes(s) ==
  /\ s.to \in {0} \cup DOMAIN entries /\ Kept(s.row)
  /\ s.kind \in {"sheet", "aside"} /\ s.as = TRUE
  /\ s.kind = "aside" => s.to = 0 /\ s.row.transfer
  /\ s.kind = "sheet" => s.row.transfer = (s.to # 0 /\ entries[s.to].transfer)

Sheets ==
  /\ sheet \in [open : BOOLEAN, editing : Nat, draft : Drafts]
  /\ sheet.editing \in {0} \cup DOMAIN entries
  /\ meant \in [draft : Drafts, filled : BOOLEAN]
  /\ sheet.open => meant.filled \/ sheet.draft = meant.draft
  /\ refreshes \in 0..MaxRefreshes

Ledger ==
  /\ entries \in Seq(Entry) /\ \A i \in DOMAIN entries : Kept(entries[i])
  /\ IsFiniteSet(saving) /\ \A s \in saving : Writes(s)
  /\ aside \in [open : BOOLEAN, busy : BOOLEAN, openings : 0..MaxEntered]

NewOnes == {s \in saving : s.to = 0}
Asides  == {s \in saving : s.kind = "aside"}
Moved   == {i \in DOMAIN entries : entries[i].transfer}
Spare   == IF aside.open /\ ~ aside.busy THEN 1 ELSE 0

Counted ==
  /\ Len(entries) + Cardinality(NewOnes) <= MaxEntered
  /\ Cardinality(Moved) + Cardinality(Asides) + Spare <= aside.openings

EntriesInv == Sheets /\ Ledger /\ Counted

\* The sets that are counted are finite.
LEMMA CountsAreNumbers ==
  ASSUME Ledger
  PROVE  /\ Len(entries) \in Nat /\ DOMAIN entries = 1 .. Len(entries)
         /\ IsFiniteSet(NewOnes) /\ Cardinality(NewOnes) \in Nat
         /\ IsFiniteSet(Asides) /\ Cardinality(Asides) \in Nat
         /\ IsFiniteSet(Moved) /\ Cardinality(Moved) \in Nat
<1>1. Len(entries) \in Nat /\ DOMAIN entries = 1 .. Len(entries)
  BY DEF Ledger
<1>2. IsFiniteSet(DOMAIN entries)
  BY <1>1, FS_Interval
<1>3. NewOnes \subseteq saving /\ Asides \subseteq saving /\ Moved \subseteq DOMAIN entries
  BY DEF NewOnes, Asides, Moved
<1> QED
  BY <1>1, <1>2, <1>3, FS_Subset, FS_CardinalityType DEF Ledger

\* A draft that is shown of an entry, and a row that is made of a draft.
LEMMA DraftsAndRows ==
  /\ EmptyDraft \in Drafts
  /\ \A e : Kept(e) => DraftOf(e) \in Drafts
  /\ \A d \in Drafts : \A to : CanSave(d) /\ (to # 0 => to \in DOMAIN entries) /\ Ledger =>
       /\ Kept(RowOf(d, to))
       /\ RowOf(d, to).transfer = (to # 0 /\ entries[to].transfer)
  /\ \A n \in 1..MaxAmount : Kept(AsideRow(n)) /\ AsideRow(n).transfer
<1>1. EmptyDraft \in Drafts
  BY EntriesAssumption DEF EmptyDraft, Drafts
<1>2. ASSUME NEW e, Kept(e) PROVE DraftOf(e) \in Drafts
  <2>1. Abs(e.amount) \in 0..MaxAmount
    BY <1>2, EntriesAssumption DEF Kept, Abs, Entry
  <2> QED
    BY <1>2, <2>1 DEF Kept, Entry, DraftOf, Drafts
<1>3. ASSUME NEW d \in Drafts, NEW to, CanSave(d), to # 0 => to \in DOMAIN entries, Ledger
      PROVE  /\ Kept(RowOf(d, to))
             /\ RowOf(d, to).transfer = (to # 0 /\ entries[to].transfer)
  <2>1. /\ d.amount \in 1..MaxAmount /\ d.income \in BOOLEAN /\ d.cat \in Flexible \cup {NoCat}
    BY <1>3, EntriesAssumption DEF Drafts, CanSave
  <2>2. /\ Signed(d) \in Int /\ Signed(d) # 0 /\ -MaxAmount <= Signed(d) /\ Signed(d) <= MaxAmount
        /\ Signed(d) > 0 <=> d.income
    BY <2>1, EntriesAssumption DEF Signed
  <2>3. (to # 0 /\ entries[to].transfer) \in BOOLEAN
    BY <1>3 DEF Ledger, Entry
  <2> DEFINE row == RowOf(d, to)
  <2>4. /\ row.amount = Signed(d) /\ row.income = d.income
        /\ row.cat = IF d.income THEN NoCat ELSE d.cat
        /\ row.transfer = (to # 0 /\ entries[to].transfer)
    BY DEF RowOf
  <2>5. row \in Entry
    BY <2>1, <2>2, <2>3 DEF RowOf, Entry
  <2>6. row.transfer \in BOOLEAN
    BY <2>5 DEF Entry
  <2>7. /\ row.amount # 0 /\ -MaxAmount <= row.amount /\ row.amount <= MaxAmount
        /\ row.amount > 0 <=> row.income
        /\ row.income => row.cat = NoCat
    BY <2>1, <2>2, <2>4
  <2> HIDE DEF row
  <2>8. Kept(row)
    BY <2>5, <2>7 DEF Kept
  <2> QED
    BY <2>4, <2>8 DEF row
<1>4. ASSUME NEW n \in 1..MaxAmount PROVE Kept(AsideRow(n)) /\ AsideRow(n).transfer
  BY EntriesAssumption DEF Kept, AsideRow, Entry
<1> QED
  BY <1>1, <1>2, <1>3, <1>4

\* The invariant holds before anything is entered.
LEMMA EntriesAtFirst == EntriesInit => EntriesInv
<1> SUFFICES ASSUME EntriesInit PROVE EntriesInv
  OBVIOUS
<1>1. entries = <<>> /\ saving = {} /\ entries \in Seq(Entry) /\ DOMAIN entries = {} /\ Len(entries) = 0
  BY DEF EntriesInit
<1>2. Sheets
  BY EntriesAssumption, DraftsAndRows DEF EntriesInit, Sheets
<1>3. Ledger
  BY <1>1, FS_EmptySet, EntriesAssumption DEF EntriesInit, Ledger
<1>4. NewOnes = {} /\ Asides = {} /\ Moved = {} /\ Spare = 0
  BY <1>1 DEF NewOnes, Asides, Moved, Spare, EntriesInit
<1> QED
  BY <1>1, <1>2, <1>3, <1>4, FS_EmptySet, EntriesAssumption DEF EntriesInit, EntriesInv, Counted

\* The sheet is opened, typed in, filled anew and closed: nothing is written.
LEMMA SheetSteps ==
  ASSUME EntriesInv,
         \/ \E i \in {0} \cup DOMAIN entries : OpenSheet(i)
         \/ Close \/ Enter \/ Refill
  PROVE  EntriesInv'
<1>1. UNCHANGED <<entries, aside, saving>>
  BY DEF OpenSheet, Close, Enter, Refill
<1>2. Ledger' /\ Counted'
  BY <1>1 DEF EntriesInv, Ledger, Writes, Counted, NewOnes, Asides, Moved, Spare
<1>3. \A i \in {0} \cup DOMAIN entries : i \in Nat /\ Filled(i) \in Drafts
  <2>1. \A i \in DOMAIN entries : i \in Nat /\ Kept(entries[i])
    BY CountsAreNumbers DEF EntriesInv, Ledger
  <2> QED
    BY <2>1, DraftsAndRows DEF Filled
<1>4. /\ sheet.open \in BOOLEAN /\ sheet.editing \in {0} \cup DOMAIN entries /\ sheet.editing \in Nat
      /\ sheet.draft \in Drafts
      /\ sheet.open => meant.filled \/ sheet.draft = meant.draft
      /\ meant.draft \in Drafts /\ meant.filled \in BOOLEAN
      /\ refreshes \in 0..MaxRefreshes
      /\ sheet \in [open : BOOLEAN, editing : Nat, draft : Drafts]
      /\ meant \in [draft : Drafts, filled : BOOLEAN]
  BY DEF EntriesInv, Sheets
<1>5. ASSUME NEW open \in BOOLEAN, NEW i \in {0} \cup DOMAIN entries, NEW d \in Drafts,
             NEW m \in Drafts, NEW filled \in BOOLEAN, refreshes' \in 0..MaxRefreshes,
             sheet' = [open |-> open, editing |-> i, draft |-> d],
             meant' = [draft |-> m, filled |-> filled],
             open => filled \/ d = m
      PROVE  EntriesInv'
  <2>1. Sheets'
    BY <1>1, <1>3, <1>5 DEF Sheets
  <2> QED
    BY <1>2, <2>1 DEF EntriesInv
<1>6. ASSUME NEW i \in {0} \cup DOMAIN entries, OpenSheet(i) PROVE EntriesInv'
  BY <1>3, <1>4, <1>5, <1>6 DEF OpenSheet
<1>7. CASE Close
  <2>1. sheet' = [open |-> FALSE, editing |-> 0, draft |-> sheet.draft]
    BY <1>4, <1>7 DEF Close
  <2>2. meant' = [draft |-> meant.draft, filled |-> meant.filled]
    BY <1>4, <1>7 DEF Close
  <2> QED
    BY <1>4, <1>5, <1>7, <2>1, <2>2 DEF Close
<1>8. CASE Enter
  <2>1. PICK d \in Drafts : /\ sheet' = [sheet EXCEPT !.draft = d]
                            /\ meant' = [draft |-> d, filled |-> FALSE]
    BY <1>8 DEF Enter
  <2>2. sheet' = [open |-> sheet.open, editing |-> sheet.editing, draft |-> d]
    BY <1>4, <2>1
  <2> QED
    BY <1>4, <1>5, <1>8, <2>1, <2>2 DEF Enter
<1>9. CASE Refill
  <2>1. sheet' = [open |-> sheet.open, editing |-> sheet.editing, draft |-> Filled(sheet.editing)]
    BY <1>4, <1>9 DEF Refill
  <2>2. meant' = [draft |-> meant.draft, filled |-> TRUE]
    BY <1>4, <1>9 DEF Refill
  <2>3. refreshes' \in 0..MaxRefreshes
    BY <1>4, <1>9, EntriesAssumption DEF Refill
  <2> QED
    BY <1>3, <1>4, <1>5, <2>1, <2>2, <2>3
<1> QED
  BY <1>6, <1>7, <1>8, <1>9

\* A set that gains an element, or loses one.
LEMMA OneMore ==
  ASSUME NEW S, NEW T, NEW x, IsFiniteSet(S), T \subseteq S \cup {x}
  PROVE  /\ IsFiniteSet(T) /\ Cardinality(S) \in Nat /\ Cardinality(T) \in Nat
         /\ Cardinality(T) <= Cardinality(S) + 1
<1>1. IsFiniteSet(S \cup {x}) /\ Cardinality(S \cup {x}) <= Cardinality(S) + 1
  <2>1. Cardinality(S) \in Nat
    BY FS_CardinalityType
  <2>2. /\ IsFiniteSet(S \cup {x})
        /\ Cardinality(S \cup {x}) = IF x \in S THEN Cardinality(S) ELSE Cardinality(S) + 1
    BY FS_AddElement
  <2> QED
    BY <2>1, <2>2
<1>2. /\ Cardinality(T) <= Cardinality(S \cup {x}) /\ IsFiniteSet(T)
      /\ Cardinality(T) \in Nat /\ Cardinality(S) \in Nat /\ Cardinality(S \cup {x}) \in Nat
  BY <1>1, FS_Subset, FS_CardinalityType
<1> QED
  BY <1>1, <1>2

\* A write that starts.
LEMMA WriteStarts ==
  ASSUME EntriesInv, NEW kind \in {"sheet", "aside"}, NEW to \in {0} \cup DOMAIN entries, NEW row,
         Saving(kind, to, row, TRUE), Kept(row), to = 0 => Room, UNCHANGED entries,
         kind = "aside" => to = 0 /\ row.transfer,
         kind = "sheet" => row.transfer = (to # 0 /\ entries[to].transfer)
  PROVE  /\ IsFiniteSet(saving') /\ \A s \in saving' : Writes(s)'
         /\ Len(entries) + Cardinality(NewOnes') <= MaxEntered
         /\ Cardinality(Asides') \in Nat /\ Moved' = Moved
         /\ Cardinality(Asides') <= Cardinality(Asides) + IF kind = "aside" THEN 1 ELSE 0
<1>1. PICK n \in 1..MaxEntered :
        saving' = saving \cup {[kind |-> kind, to |-> to, row |-> row, as |-> TRUE, id |-> n]}
  BY DEF Saving
<1> DEFINE new == [kind |-> kind, to |-> to, row |-> row, as |-> TRUE, id |-> n]
<1>2. new.kind = kind /\ new.to = to /\ new.row = row /\ new.as = TRUE
  OBVIOUS
<1>3. saving' = saving \cup {new}
  BY <1>1
<1> HIDE DEF new
<1>4. IsFiniteSet(saving')
  BY <1>3, OneMore DEF EntriesInv, Ledger
<1>5. \A s \in saving' : Writes(s)'
  <2>1. Writes(new)
    BY <1>2 DEF Writes
  <2> QED
    BY <1>3, <2>1 DEF EntriesInv, Ledger, Writes
<1>6. Moved' = Moved
  BY DEF Moved
<1>7. /\ Len(entries) \in Nat /\ IsFiniteSet(NewOnes) /\ Cardinality(NewOnes) \in Nat
      /\ IsFiniteSet(Asides) /\ Cardinality(Asides) \in Nat
  BY CountsAreNumbers DEF EntriesInv
<1>8. Len(entries) + Cardinality(NewOnes') <= MaxEntered
  <2>1. CASE to = 0
    <3>1. NewOnes' \subseteq NewOnes \cup {new}
      BY <1>3 DEF NewOnes
    <3>2. Cardinality(NewOnes') <= Cardinality(NewOnes) + 1 /\ Cardinality(NewOnes') \in Nat
      BY <1>7, <3>1, OneMore
    <3>3. Len(entries) + Cardinality(NewOnes) < MaxEntered
      BY <2>1 DEF Room, NewOnes
    <3> QED
      BY <1>7, <3>2, <3>3, EntriesAssumption
  <2>2. CASE to # 0
    <3>1. NewOnes' = NewOnes
      BY <1>2, <1>3, <2>2 DEF NewOnes
    <3> QED
      BY <3>1 DEF EntriesInv, Counted
  <2> QED
    BY <2>1, <2>2
<1>9. /\ Cardinality(Asides') \in Nat
      /\ Cardinality(Asides') <= Cardinality(Asides) + IF kind = "aside" THEN 1 ELSE 0
  <2>1. CASE kind = "aside"
    <3>1. Asides' \subseteq Asides \cup {new}
      BY <1>3 DEF Asides
    <3> QED
      BY <1>7, <2>1, <3>1, OneMore
  <2>2. CASE kind # "aside"
    <3>1. Asides' = Asides
      BY <1>2, <1>3, <2>2 DEF Asides
    <3> QED
      BY <1>7, <2>2, <3>1
  <2> QED
    BY <2>1, <2>2
<1> QED
  BY <1>4, <1>5, <1>6, <1>8, <1>9

\* What is saved is what was meant, of a draft that can be saved.
LEMMA SaveStep ==
  ASSUME EntriesInv, Save PROVE EntriesInv'
<1> DEFINE d == sheet.draft
           to == sheet.editing
<1>1. /\ CanSave(d) /\ (to = 0 => Room) /\ sheet.open
      /\ Saving("sheet", to, RowOf(d, to), meant.filled \/ d = meant.draft)
      /\ UNCHANGED <<entries, sheet, aside, refreshes, meant>>
  BY DEF Save
<1>2. d \in Drafts /\ to \in {0} \cup DOMAIN entries /\ (meant.filled \/ d = meant.draft) = TRUE
  BY <1>1 DEF EntriesInv, Sheets
<1>3. Kept(RowOf(d, to)) /\ RowOf(d, to).transfer = (to # 0 /\ entries[to].transfer)
  BY <1>1, <1>2, DraftsAndRows DEF EntriesInv
<1> HIDE DEF d, to
<1>4. Saving("sheet", to, RowOf(d, to), TRUE)
  BY <1>1, <1>2
<1>5. /\ IsFiniteSet(saving') /\ \A s \in saving' : Writes(s)'
      /\ Len(entries) + Cardinality(NewOnes') <= MaxEntered
      /\ Cardinality(Asides') \in Nat /\ Moved' = Moved
      /\ Cardinality(Asides') <= Cardinality(Asides)
  <2>1. /\ IsFiniteSet(saving') /\ \A s \in saving' : Writes(s)'
        /\ Len(entries) + Cardinality(NewOnes') <= MaxEntered
        /\ Cardinality(Asides') \in Nat /\ Moved' = Moved
        /\ Cardinality(Asides') <= Cardinality(Asides) + 0
    BY <1>1, <1>2, <1>3, <1>4, WriteStarts
  <2> QED
    BY <2>1, CountsAreNumbers DEF EntriesInv
<1>6. Sheets' /\ Ledger'
  BY <1>1, <1>5 DEF EntriesInv, Sheets, Ledger
<1>7. Counted'
  <2>1. /\ Cardinality(Moved) \in Nat /\ Cardinality(Asides) \in Nat /\ Spare \in Nat
        /\ aside.openings \in Nat /\ Spare' = Spare
    BY <1>1, CountsAreNumbers, EntriesAssumption DEF EntriesInv, Ledger, Spare
  <2> QED
    BY <1>1, <1>5, <2>1 DEF EntriesInv, Counted
<1> QED
  BY <1>6, <1>7 DEF EntriesInv

\* The other sheet is opened, closed, and saves once for every time it was opened.
LEMMA AsideSteps ==
  ASSUME EntriesInv, OpenAside \/ CloseAside \/ \E n \in 1..MaxAmount : PutAside(n)
  PROVE  EntriesInv'
<1>1. /\ Cardinality(Moved) \in Nat /\ Cardinality(Asides) \in Nat
      /\ aside \in [open : BOOLEAN, busy : BOOLEAN, openings : 0..MaxEntered]
      /\ aside.openings \in Nat
      /\ Cardinality(Moved) + Cardinality(Asides) + Spare <= aside.openings
      /\ UNCHANGED <<entries, sheet, refreshes, meant>>
  <2>1. Cardinality(Moved) \in Nat /\ Cardinality(Asides) \in Nat
    BY CountsAreNumbers DEF EntriesInv
  <2>2. /\ aside \in [open : BOOLEAN, busy : BOOLEAN, openings : 0..MaxEntered]
        /\ Cardinality(Moved) + Cardinality(Asides) + Spare <= aside.openings
    BY DEF EntriesInv, Ledger, Counted
  <2>3. aside.openings \in Nat
    BY <2>2, EntriesAssumption
  <2>4. UNCHANGED <<entries, sheet, refreshes, meant>>
    BY DEF OpenAside, CloseAside, PutAside
  <2> QED
    BY <2>1, <2>2, <2>3, <2>4
<1>2. Sheets'
  BY <1>1 DEF EntriesInv, Sheets
<1>3. ASSUME UNCHANGED saving PROVE /\ NewOnes' = NewOnes /\ Asides' = Asides /\ Moved' = Moved
                                    /\ \A s \in saving' : Writes(s)'
  BY <1>1, <1>3 DEF NewOnes, Asides, Moved, Writes, EntriesInv, Ledger
<1>4. CASE OpenAside
  <2>1. /\ ~ aside.open /\ UNCHANGED saving /\ aside.openings < MaxEntered
        /\ aside' = [open |-> TRUE, busy |-> FALSE, openings |-> aside.openings + 1]
    BY <1>4 DEF OpenAside
  <2>2. /\ aside' \in [open : BOOLEAN, busy : BOOLEAN, openings : 0..MaxEntered]
        /\ aside'.openings = aside.openings + 1
    BY <1>1, <2>1, EntriesAssumption
  <2>3. Spare = 0 /\ Spare' = 1
    BY <2>1 DEF Spare
  <2>4. Ledger'
    BY <1>1, <1>3, <2>1, <2>2 DEF EntriesInv, Ledger
  <2>5. Counted'
    BY <1>1, <1>3, <2>1, <2>2, <2>3 DEF EntriesInv, Counted
  <2> QED
    BY <1>2, <2>4, <2>5 DEF EntriesInv
<1>5. CASE CloseAside
  <2> DEFINE t == [aside EXCEPT !.open = FALSE, !.busy = FALSE]
  <2>1. UNCHANGED saving /\ aside' = t
    BY <1>5 DEF CloseAside
  <2>2. /\ t \in [open : BOOLEAN, busy : BOOLEAN, openings : 0..MaxEntered]
        /\ t.openings = aside.openings /\ ~ t.open
    BY <1>1
  <2> HIDE DEF t
  <2>3. Spare' = 0 /\ Spare \in Nat
    BY <2>1, <2>2 DEF Spare
  <2>4. Ledger'
    BY <1>1, <1>3, <2>1, <2>2 DEF EntriesInv, Ledger
  <2>5. Counted'
    BY <1>1, <1>3, <2>1, <2>2, <2>3 DEF EntriesInv, Counted
  <2> QED
    BY <1>2, <2>4, <2>5 DEF EntriesInv
<1>6. ASSUME NEW n \in 1..MaxAmount, PutAside(n) PROVE EntriesInv'
  <2>1. /\ aside.open /\ ~ aside.busy /\ Room /\ Saving("aside", 0, AsideRow(n), TRUE)
        /\ aside' = [aside EXCEPT !.busy = TRUE]
    BY <1>6 DEF PutAside
  <2>2. /\ aside' \in [open : BOOLEAN, busy : BOOLEAN, openings : 0..MaxEntered]
        /\ aside'.openings = aside.openings /\ aside'.busy
    BY <1>1, <2>1
  <2>3. Spare = 1 /\ Spare' = 0
    BY <2>1, <2>2 DEF Spare
  <2>4. /\ IsFiniteSet(saving') /\ \A s \in saving' : Writes(s)'
        /\ Len(entries) + Cardinality(NewOnes') <= MaxEntered
        /\ Cardinality(Asides') \in Nat /\ Moved' = Moved
        /\ Cardinality(Asides') <= Cardinality(Asides) + 1
    BY <1>1, <2>1, DraftsAndRows, WriteStarts
  <2>5. Ledger'
    BY <1>1, <2>2, <2>4 DEF EntriesInv, Ledger
  <2>6. Counted'
    BY <1>1, <2>2, <2>3, <2>4 DEF Counted
  <2> QED
    BY <1>2, <2>5, <2>6 DEF EntriesInv
<1> QED
  BY <1>4, <1>5, <1>6

\* A write is done: the entry is there, or has what was meant for it.
LEMMA SavedStep ==
  ASSUME EntriesInv, NEW s \in saving, Saved(s) PROVE EntriesInv'
<1>1. /\ saving' = saving \ {s} /\ entries' = Written(s) /\ UNCHANGED <<refreshes, meant>>
      /\ Writes(s) /\ Kept(s.row) /\ s.row \in Entry
      /\ entries \in Seq(Entry) /\ DOMAIN entries = 1 .. Len(entries) /\ Len(entries) \in Nat
      /\ \A i \in DOMAIN entries : Kept(entries[i])
  BY CountsAreNumbers DEF Saved, EntriesInv, Ledger, Writes, Kept
<1>2. /\ entries' \in Seq(Entry) /\ DOMAIN entries' = 1 .. Len(entries')
      /\ Len(entries') = Len(entries) + IF s.to = 0 THEN 1 ELSE 0
      /\ \A i \in DOMAIN entries : entries'[i] = IF i = s.to THEN s.row ELSE entries[i]
      /\ s.to = 0 => entries'[Len(entries) + 1] = s.row
  <2>1. CASE s.to = 0
    <3>1. entries' = Append(entries, s.row)
      BY <1>1, <2>1 DEF Written
    <3> QED
      BY <1>1, <2>1, <3>1
  <2>2. CASE s.to # 0
    <3>1. entries' = [entries EXCEPT ![s.to] = s.row] /\ s.to \in DOMAIN entries
      BY <1>1, <2>2 DEF Written, Writes
    <3>2. Len(entries') = Len(entries) /\ entries' \in Seq(Entry)
      BY <1>1, <3>1
    <3> QED
      BY <1>1, <2>2, <3>1, <3>2
  <2> QED
    BY <2>1, <2>2
<1>3. DOMAIN entries' = DOMAIN entries \cup IF s.to = 0 THEN {Len(entries) + 1} ELSE {}
  BY <1>1, <1>2
<1>4. \A i \in DOMAIN entries' : Kept(entries'[i])
  BY <1>1, <1>2, <1>3
<1>5. \A i \in DOMAIN entries : entries'[i].transfer = entries[i].transfer
  <2>1. s.to # 0 => s.row.transfer = entries[s.to].transfer
    <3> SUFFICES ASSUME s.to # 0 PROVE s.row.transfer = entries[s.to].transfer
      OBVIOUS
    <3>1. s.to \in DOMAIN entries /\ s.kind = "sheet"
      BY <1>1 DEF Writes
    <3>2. entries[s.to] \in Entry
      BY <1>1, <3>1 DEF Kept
    <3>3. entries[s.to].transfer \in BOOLEAN
      BY <3>2 DEF Entry
    <3>4. s.row.transfer = (s.to # 0 /\ entries[s.to].transfer)
      BY <1>1, <3>1 DEF Writes
    <3> QED
      BY <3>3, <3>4
  <2>2. \A i \in DOMAIN entries : entries'[i] = IF i = s.to THEN s.row ELSE entries[i]
    BY <1>2
  <2>3. 0 \notin DOMAIN entries
    BY <1>1
  <2> SUFFICES ASSUME NEW i \in DOMAIN entries PROVE entries'[i].transfer = entries[i].transfer
    OBVIOUS
  <2>4. CASE i = s.to
    <3>1. entries'[i] = s.row /\ s.to # 0
      BY <2>2, <2>3, <2>4
    <3> QED
      BY <2>1, <2>4, <3>1
  <2>5. CASE i # s.to
    <3>1. entries'[i] = entries[i]
      BY <2>2, <2>5
    <3> QED
      BY <3>1
  <2> QED
    BY <2>4, <2>5
<1>6. \A w \in saving' : Writes(w)'
  <2> SUFFICES ASSUME NEW w \in saving' PROVE Writes(w)'
    OBVIOUS
  <2>1. Writes(w) /\ (w.to = 0 \/ w.to \in DOMAIN entries)
    BY <1>1 DEF EntriesInv, Ledger, Writes
  <2>2. w.to # 0 => w.to \in DOMAIN entries' /\ entries'[w.to].transfer = entries[w.to].transfer
    BY <1>3, <1>5, <2>1
  <2> QED
    BY <2>1, <2>2 DEF Writes
<1>7. /\ IsFiniteSet(saving') /\ NewOnes' = NewOnes \ {s} /\ Asides' = Asides \ {s}
  <2>1. IsFiniteSet(saving')
    BY <1>1, FS_Subset DEF EntriesInv, Ledger
  <2> QED
    BY <1>1, <2>1 DEF NewOnes, Asides
<1>8. /\ IsFiniteSet(NewOnes) /\ IsFiniteSet(Asides) /\ IsFiniteSet(Moved)
      /\ Cardinality(NewOnes) \in Nat /\ Cardinality(Asides) \in Nat /\ Cardinality(Moved) \in Nat
  BY CountsAreNumbers DEF EntriesInv
<1>9. /\ s.to = 0 => s \in NewOnes
      /\ s.kind = "aside" => s \in Asides /\ s.to = 0
      /\ s.kind # "aside" => s.kind = "sheet"
      /\ s.kind = "sheet" /\ s.to = 0 => s.row.transfer = FALSE
  BY <1>1 DEF NewOnes, Asides, Writes
<1>10. Len(entries') + Cardinality(NewOnes') <= MaxEntered
  <2>1. CASE s.to = 0
    <3>1. Cardinality(NewOnes') = Cardinality(NewOnes) - 1
      BY <1>7, <1>8, <1>9, <2>1, FS_RemoveElement
    <3> QED
      BY <1>1, <1>2, <1>8, <2>1, <3>1, EntriesAssumption DEF EntriesInv, Counted
  <2>2. CASE s.to # 0
    <3>1. NewOnes' = NewOnes
      BY <1>7, <2>2 DEF NewOnes
    <3>2. Len(entries') = Len(entries)
      BY <1>1, <1>2, <2>2
    <3> QED
      BY <3>1, <3>2 DEF EntriesInv, Counted
  <2> QED
    BY <2>1, <2>2
<1>11. /\ Spare' <= Spare /\ Spare \in Nat /\ Spare' \in Nat /\ aside'.openings = aside.openings
       /\ aside' \in [open : BOOLEAN, busy : BOOLEAN, openings : 0..MaxEntered]
  <2>1. aside \in [open : BOOLEAN, busy : BOOLEAN, openings : 0..MaxEntered]
    BY DEF EntriesInv, Ledger
  <2> DEFINE t == [aside EXCEPT !.open = FALSE, !.busy = FALSE]
  <2>2. /\ t \in [open : BOOLEAN, busy : BOOLEAN, openings : 0..MaxEntered]
        /\ t.openings = aside.openings /\ ~ t.open
    BY <2>1
  <2>3. aside' = aside \/ aside' = t
    BY DEF Saved
  <2> HIDE DEF t
  <2> QED
    BY <2>1, <2>2, <2>3 DEF Spare
<1>12. Cardinality(Moved') + Cardinality(Asides') <= Cardinality(Moved) + Cardinality(Asides)
       /\ Cardinality(Moved') \in Nat /\ Cardinality(Asides') \in Nat
  <2>1. CASE s.kind = "aside"
    <3>1. Moved' \subseteq Moved \cup {Len(entries) + 1}
      BY <1>3, <1>5 DEF Moved
    <3>2. Cardinality(Moved') <= Cardinality(Moved) + 1 /\ Cardinality(Moved') \in Nat
      BY <1>8, <3>1, OneMore
    <3>3. Cardinality(Asides') = Cardinality(Asides) - 1 /\ Cardinality(Asides') \in Nat
      BY <1>7, <1>8, <1>9, <2>1, FS_RemoveElement, FS_CardinalityType
    <3> QED
      BY <1>8, <3>2, <3>3
  <2>2. CASE s.kind = "sheet"
    <3>1. Asides' = Asides
      BY <1>7, <2>2 DEF Asides
    <3>2. Moved' = Moved
      <4>1. CASE s.to = 0
        <5>1. ~ entries'[Len(entries) + 1].transfer
          BY <1>2, <1>9, <2>2, <4>1
        <5> QED
          BY <1>1, <1>3, <1>5, <4>1, <5>1 DEF Moved
      <4>2. CASE s.to # 0
        BY <1>3, <1>5, <4>2 DEF Moved
      <4> QED
        BY <4>1, <4>2
    <3> QED
      BY <1>8, <3>1, <3>2
  <2> QED
    BY <1>9, <2>1, <2>2
<1>13. Sheets'
  <2>1. /\ sheet \in [open : BOOLEAN, editing : Nat, draft : Drafts]
        /\ sheet.editing \in {0} \cup DOMAIN entries
    BY DEF EntriesInv, Sheets
  <2> DEFINE t == [sheet EXCEPT !.open = FALSE, !.editing = 0]
  <2>2. t \in [open : BOOLEAN, editing : Nat, draft : Drafts] /\ ~ t.open /\ t.editing = 0
    BY <2>1
  <2>3. sheet' = sheet \/ sheet' = t
    BY DEF Saved
  <2> HIDE DEF t
  <2> QED
    BY <1>1, <1>3, <2>1, <2>2, <2>3 DEF EntriesInv, Sheets
<1>14. Ledger'
  BY <1>2, <1>4, <1>6, <1>7, <1>11 DEF Ledger
<1>15. Counted'
  <2>1. /\ Cardinality(Moved) + Cardinality(Asides) + Spare <= aside.openings
        /\ aside.openings \in Nat
    BY EntriesAssumption DEF EntriesInv, Counted, Ledger
  <2> QED
    BY <1>8, <1>10, <1>11, <1>12, <2>1 DEF Counted
<1> QED
  BY <1>13, <1>14, <1>15 DEF EntriesInv

\* The invariant holds of every reachable state.
LEMMA EntriesHold == EntriesSpec => []EntriesInv
<1>1. EntriesInv /\ [EntriesNext]_entryVars => EntriesInv'
  <2> SUFFICES ASSUME EntriesInv, [EntriesNext]_entryVars PROVE EntriesInv'
    OBVIOUS
  <2>1. CASE UNCHANGED entryVars
    BY <2>1 DEF entryVars, EntriesInv, Sheets, Ledger, Counted, Writes, NewOnes, Asides, Moved, Spare
  <2> QED
    BY <2>1, SheetSteps, SaveStep, SavedStep, AsideSteps DEF EntriesNext
<1> QED
  BY <1>1, EntriesAtFirst, PTL DEF EntriesSpec

\* What is written was entered, or shown and left alone; an edit that changes nothing changes
\* nothing; and however often the buttons are tapped, money is put aside once at most for
\* every time its sheet was opened (AddSheet.tsx:63-79, PutAsideSheet.tsx).
THEOREM EntriesStayMeant == EntriesSpec => []EntriesAreMeant
<1>1. EntriesInv => EntriesAreMeant
  <2> SUFFICES ASSUME EntriesInv PROVE EntriesAreMeant
    OBVIOUS
  <2>1. SavedAsMeant
    BY DEF EntriesInv, Ledger, Writes, SavedAsMeant
  <2>2. UntouchedEditKeeps
    <3> SUFFICES ASSUME sheet.editing # 0, ~ entries[sheet.editing].transfer
                 PROVE  RowOf(DraftOf(entries[sheet.editing]), sheet.editing)
                          = entries[sheet.editing]
      BY DEF UntouchedEditKeeps
    <3> DEFINE e == entries[sheet.editing]
    <3>1. Kept(e) /\ e \in Entry /\ e.transfer = FALSE
      BY DEF EntriesInv, Sheets, Ledger, Kept, Entry
    <3>2. /\ e.amount \in Int /\ e.amount # 0 /\ e.income \in BOOLEAN
          /\ e.amount > 0 <=> e.income
          /\ e.income => e.cat = NoCat
      BY <3>1 DEF Kept, Entry
    <3>3. Signed(DraftOf(e)) = e.amount
      BY <3>2 DEF Signed, DraftOf, Abs
    <3>4. RowOf(DraftOf(e), sheet.editing)
            = [amount |-> e.amount, cat |-> e.cat, income |-> e.income, transfer |-> FALSE]
      BY <3>1, <3>2, <3>3 DEF RowOf, DraftOf
    <3> QED
      BY <3>1, <3>4 DEF Entry
  <2>3. PutAsideOnce
    <3>1. /\ Cardinality(Moved) \in Nat /\ Cardinality(Asides) \in Nat /\ Spare \in Nat
          /\ aside.openings \in Nat
      BY CountsAreNumbers, EntriesAssumption DEF EntriesInv, Ledger, Spare
    <3>2. Cardinality(Moved) + Cardinality(Asides) + Spare <= aside.openings
      BY DEF EntriesInv, Counted
    <3>3. Cardinality(Moved) + Cardinality(Asides) <= aside.openings
      BY <3>1, <3>2
    <3> QED
      BY <3>3 DEF PutAsideOnce, Moved, Asides
  <2> QED
    BY <2>1, <2>2, <2>3 DEF EntriesAreMeant
<1> QED
  BY <1>1, EntriesHold, PTL

\* What the sheets hold is always of its type, and no entry is ever of nothing.
THEOREM EntriesKeepTheirTypes == EntriesSpec => []EntriesTypeOK
<1>1. EntriesInv => EntriesTypeOK
  <2> SUFFICES ASSUME EntriesInv PROVE EntriesTypeOK
    OBVIOUS
  <2>1. \A i \in DOMAIN entries :
          /\ entries[i] \in Entry /\ entries[i].amount # 0
          /\ ~ entries[i].transfer => (entries[i].amount > 0 <=> entries[i].income)
    BY DEF EntriesInv, Ledger, Kept
  <2>2. DOMAIN entries \subseteq 1..MaxEntered
    <3>1. /\ Cardinality(NewOnes) \in Nat /\ Len(entries) \in Nat
          /\ DOMAIN entries = 1..Len(entries)
      BY CountsAreNumbers DEF EntriesInv
    <3>2. Len(entries) <= MaxEntered
      BY <3>1, EntriesAssumption DEF EntriesInv, Counted
    <3> QED
      BY <3>1, <3>2, EntriesAssumption
  <2>3. 0 \in 0..MaxEntered
    BY EntriesAssumption
  <2>4. sheet \in [open : BOOLEAN, editing : 0..MaxEntered, draft : Drafts]
    <3>1. sheet.editing \in 0..MaxEntered
      BY <2>2, <2>3 DEF EntriesInv, Sheets
    <3> QED
      BY <3>1 DEF EntriesInv, Sheets
  <2>5. \A s \in saving : /\ s.to \in 0..MaxEntered /\ s.row \in Entry
                          /\ s.kind \in {"sheet", "aside"} /\ s.as \in BOOLEAN
    <3> SUFFICES ASSUME NEW s \in saving
                 PROVE  /\ s.to \in 0..MaxEntered /\ s.row \in Entry
                        /\ s.kind \in {"sheet", "aside"} /\ s.as \in BOOLEAN
      OBVIOUS
    <3>1. Writes(s)
      BY DEF EntriesInv, Ledger
    <3>2. s.to \in 0..MaxEntered
      <4>1. s.to \in {0} \cup DOMAIN entries
        BY <3>1 DEF Writes
      <4>2. 1..MaxEntered \subseteq 0..MaxEntered
        BY EntriesAssumption
      <4> QED
        BY <2>2, <2>3, <4>1, <4>2
    <3>3. s.row \in Entry /\ s.kind \in {"sheet", "aside"} /\ s.as = TRUE
      BY <3>1 DEF Writes, Kept
    <3> QED
      BY <3>2, <3>3
  <2> QED
    BY <2>1, <2>4, <2>5 DEF EntriesTypeOK, EntriesInv, Sheets, Ledger
<1> QED
  BY <1>1, EntriesHold, PTL

-----------------------------------------------------------------------------
(***************************************************************************)
(* The payday effect.                                                      *)
(*                                                                         *)
(* PaydaysInv says that every payday is paid or owed by a run, and how far *)
(* the runs can repeat one another when nothing comes between them.  A run *)
(* is known by the number of transactions it found.  While a payday is     *)
(* missing, every run owes it and none is past it, so only wages of        *)
(* earlier paydays have started runs: there are no more runs that pay it   *)
(* than one and as many as those wages.                                    *)
(***************************************************************************)
Credited(c) == \E i \in known : i.cycle = c

\* A run has yet to credit the payday, or is writing it.
Owes(l, c) == c \in l.todo \/ \E i \in l.writing : i.cycle = c

\* Every run has a number of transactions to itself, and a row for each payday it credits.
LoopsHold ==
  /\ known \subseteq Incomes /\ IsFiniteSet(known) /\ length \in Nat /\ others \in 0..MaxOthers
  /\ loops \subseteq Loops
  /\ length <= Cardinality(known)
  /\ \A l \in loops : /\ l.todo # {} \/ l.writing # {}
                      /\ l.length <= length
                      /\ \A m \in loops : l.length = m.length => l = m
                      /\ \A i \in l.writing : /\ i.by = "effect" /\ i.nr = l.length
                                              /\ l.writing = {i}
                      /\ \A i \in known \cup l.writing :
                           i.by = "effect" /\ i.nr = l.length => i.cycle \notin l.todo
                      /\ \A i \in known : i \notin l.writing
  /\ \A i \in known : /\ i.by = "effect" => i.nr <= length
                      /\ i.by = "other" => i.nr <= others

\* A payday that is not paid is one that a run owes.
AllOwed == \A c \in Cycles : Credited(c) \/ \E l \in loops : Owes(l, c)

\* The incomes the effect did not record, and those with the wages of the paydays before c.
NotWages == {i \in known : i.by = "other"}
Preceding(c) == {i \in known : i.by = "other" \/ i.cycle < c}

\* The run that found n transactions owes the payday, or has credited it.
Pays(n, c) ==
  \/ \E i \in known : i.by = "effect" /\ i.cycle = c /\ i.nr = n
  \/ \E l \in loops : l.length = n /\ Owes(l, c)

\* As long as no other income comes: a payday that is not paid is owed by every run, and none
\* is past it, so the transactions that a run found are those that were there and the wages
\* of earlier paydays.
Undisturbed ==
  others = 0 =>
    \A c \in Cycles :
      /\ ~ Credited(c) => \A l \in loops : /\ Owes(l, c)
                                           /\ \A i \in l.writing : i.cycle <= c
      /\ ~ Credited(c) => \A i \in known : i.by = "effect" => i.cycle < c
      /\ \A n \in Nat : Pays(n, c) => /\ Cardinality(NotWages) <= n
                                      /\ n <= Cardinality(Preceding(c))
                                      /\ \A i \in NotWages : i.cycle # c

PaydaysInv == LoopsHold /\ AllOwed /\ Undisturbed

\* The incomes that are there are finitely many.
LEMMA PaidAtFirst ==
  ASSUME NEW paid \in SUBSET Cycles
  PROVE  IsFiniteSet({[cycle |-> c, by |-> "other", nr |-> 0] : c \in paid})
<1> DEFINE S == {[cycle |-> c, by |-> "other", nr |-> 0] : c \in paid}
           f == [c \in paid |-> [cycle |-> c, by |-> "other", nr |-> 0]]
<1>0. IsFiniteSet(Cycles)
  BY FS_Interval, PaydaysAssumption DEF Cycles
<1>1. IsFiniteSet(paid)
  BY <1>0, FS_Subset
<1>2. f \in Surjection(paid, S)
  BY DEF Surjection
<1> QED
  BY <1>1, <1>2, FS_Surjection

\* The invariant holds when the app is opened.
LEMMA PaydaysAtFirst == PaydaysInit => PaydaysInv
<1> SUFFICES ASSUME PaydaysInit PROVE PaydaysInv
  OBVIOUS
<1>1. PICK paid \in SUBSET Cycles :
        known = {[cycle |-> c, by |-> "other", nr |-> 0] : c \in paid}
  BY DEF PaydaysInit
<1>2. IsFiniteSet(known) /\ Cardinality(known) \in Nat
  BY <1>1, PaidAtFirst, FS_CardinalityType
<1>3. known \subseteq Incomes /\ \A i \in known : i.by = "other" /\ i.nr = 0
  BY <1>1 DEF Incomes
<1>4. \A l \in loops : l = [length |-> Cardinality(known), todo |-> Missing, writing |-> {}]
                       /\ Missing # {}
  BY DEF PaydaysInit, Runs
<1>5. Missing \subseteq Cycles
  BY DEF Missing
<1>6. \A c \in Cycles : ~ Credited(c) <=> c \in Missing
  BY DEF Missing, Credited
<1>7. LoopsHold
  <2>1. loops \subseteq Loops
    BY <1>2, <1>4, <1>5 DEF Loops
  <2> QED
    <3>1. \A l \in loops : l.todo = Missing /\ l.writing = {} /\ l.length = Cardinality(known)
      BY <1>4
    <3>2. \A i \in known : i.by # "effect"
      BY <1>3
    <3>3. length = Cardinality(known) /\ others = 0 /\ 0 \in 0..MaxOthers
      BY PaydaysAssumption DEF PaydaysInit
    <3>4. \A l \in loops : /\ l.todo # {} \/ l.writing # {}
                           /\ l.length <= length
                           /\ \A m \in loops : l.length = m.length => l = m
      BY <3>1, <3>3, <1>2, <1>4
    <3> QED
      BY <2>1, <1>2, <1>3, <3>1, <3>2, <3>3, <3>4 DEF LoopsHold
<1>8. AllOwed
  <2> SUFFICES ASSUME NEW c \in Cycles, ~ Credited(c) PROVE \E l \in loops : Owes(l, c)
    BY DEF AllOwed
  <2>1. Missing # {} /\ c \in Missing
    BY <1>6
  <2>2. [length |-> Cardinality(known), todo |-> Missing, writing |-> {}] \in loops
    BY <2>1 DEF PaydaysInit, Runs
  <2> QED
    BY <2>1, <2>2 DEF Owes
<1>9. Undisturbed
  <2> SUFFICES ASSUME NEW c \in Cycles
               PROVE  /\ ~ Credited(c) => \A l \in loops : /\ Owes(l, c)
                                       /\ \A i \in l.writing : i.cycle <= c
                      /\ ~ Credited(c) => \A i \in known : i.by = "effect" => i.cycle < c
                      /\ \A n \in Nat : Pays(n, c) => /\ Cardinality(NotWages) <= n
                                                      /\ n <= Cardinality(Preceding(c))
                                                      /\ \A i \in NotWages : i.cycle # c
    BY DEF Undisturbed
  <2>1. NotWages = known /\ Preceding(c) = known
    BY <1>3 DEF NotWages, Preceding
  <2>2. \A l \in loops : Owes(l, c) <=> c \in Missing
    BY <1>4 DEF Owes
  <2>3. ASSUME NEW n \in Nat, Pays(n, c)
        PROVE  n = Cardinality(known) /\ c \in Missing
    BY <2>2, <2>3, <1>3, <1>4 DEF Pays
  <2>4. c \in Missing => \A i \in known : i.cycle # c
    BY DEF Missing
  <2> QED
    BY <2>1, <2>2, <2>3, <2>4, <1>2, <1>3, <1>4, <1>6
<1> QED
  BY <1>7, <1>8, <1>9 DEF PaydaysInv

\* What a step leaves of Undisturbed when no other income comes: what is counted only grows.
LEMMA CountsGrow ==
  ASSUME LoopsHold, known \subseteq known', IsFiniteSet(known'),
         \A i \in known' : i \in known \/ i.by = "effect", NEW c \in Cycles
  PROVE  /\ NotWages' = NotWages
         /\ Cardinality(Preceding(c)) \in Nat /\ Cardinality(Preceding(c)') \in Nat
         /\ Cardinality(Preceding(c)) <= Cardinality(Preceding(c)')
         /\ Cardinality(NotWages) \in Nat
<1>0. \A i \in known' : i.by = "effect" => i.by # "other"
  OBVIOUS
<1>1. NotWages' = NotWages
  BY <1>0 DEF NotWages
<1>2. Preceding(c) \subseteq Preceding(c)' /\ Preceding(c)' \subseteq known' /\ NotWages \subseteq known
  BY DEF Preceding, NotWages
<1>3. IsFiniteSet(Preceding(c)')
  BY <1>2, FS_Subset
<1>4. IsFiniteSet(Preceding(c)) /\ Cardinality(Preceding(c)) <= Cardinality(Preceding(c)')
  BY <1>2, <1>3, FS_Subset
<1>5. IsFiniteSet(NotWages)
  BY <1>2, FS_Subset DEF LoopsHold
<1> QED
  BY <1>1, <1>3, <1>4, <1>5, FS_CardinalityType

\* A new run has a number to itself, and owes all that is missing.
LEMMA RunStep == ASSUME PaydaysInv, RunEffect PROVE PaydaysInv'
<1> USE DEF PaydaysInv
<1> DEFINE N == Cardinality(known)
           new == [length |-> N, todo |-> Missing, writing |-> {}]
<1>1. N \in Nat /\ length < N
  BY FS_CardinalityType DEF LoopsHold, RunEffect
<1>2. \A l \in loops' : l \in loops \/ (l = new /\ Missing # {})
  BY DEF RunEffect, Runs
<1>3. Missing \subseteq Cycles /\ known' = known /\ others' = others /\ length' = N
  BY DEF Missing, RunEffect
<1>4. \A c \in Cycles : ~ Credited(c) <=> c \in Missing
  BY DEF Missing, Credited
<1>5. \A c \in Cycles : Credited(c)' <=> Credited(c)
  BY <1>3 DEF Credited
<1>6. new \in Loops
  BY <1>1, <1>3 DEF Loops
<1>7. LoopsHold'
  <2>1. loops' \subseteq Loops
    BY <1>2, <1>6 DEF LoopsHold
  <2>2. \A l \in loops : l.length < N /\ l.length \in Nat
    BY <1>1 DEF LoopsHold, Loops
  <2>3. \A i \in known : i.by = "effect" => i.nr < N /\ i.nr \in Nat
    BY <1>1 DEF LoopsHold, Incomes
  <2>4. ASSUME NEW l \in loops'
        PROVE  /\ l.todo # {} \/ l.writing # {}
               /\ l.length <= N
               /\ \A i \in l.writing : i.by = "effect" /\ i.nr = l.length /\ l.writing = {i}
               /\ \A i \in known \cup l.writing :
                     i.by = "effect" /\ i.nr = l.length => i.cycle \notin l.todo
               /\ \A i \in known : i \notin l.writing
    <3>1. CASE l \in loops
      BY <3>1, <2>2, <1>1 DEF LoopsHold
    <3>2. CASE l = new /\ Missing # {}
      BY <3>2, <2>3, <1>1
    <3> QED
      BY <3>1, <3>2, <2>4, <1>2
  <2>5. \A l, m \in loops' : l.length = m.length => l = m
    BY <1>1, <1>2, <2>2 DEF LoopsHold
  <2>6. \A i \in known : /\ i.by = "effect" => i.nr <= N
                         /\ i.by = "other" => i.nr <= others
    BY <1>1, <2>3 DEF LoopsHold
  <2> HIDE DEF N, new
  <2> QED
    BY <2>1, <2>4, <2>5, <2>6, <1>1, <1>3 DEF LoopsHold, N
<1>8. \A c \in Cycles : \A l \in loops : l \in loops'
  BY DEF RunEffect
<1>9. AllOwed'
  BY <1>5, <1>8 DEF AllOwed, Owes
<1>10. Undisturbed'
  <2> SUFFICES ASSUME others = 0, NEW c \in Cycles
               PROVE  (/\ ~ Credited(c) => \A l \in loops : /\ Owes(l, c)
                                        /\ \A i \in l.writing : i.cycle <= c
                       /\ ~ Credited(c) => \A i \in known : i.by = "effect" => i.cycle < c
                       /\ \A n \in Nat : Pays(n, c) => /\ Cardinality(NotWages) <= n
                                                       /\ n <= Cardinality(Preceding(c))
                                                       /\ \A i \in NotWages : i.cycle # c)'
    BY <1>3 DEF Undisturbed
  <2>1. \A l \in loops' : l \in loops \/ (l = new /\ (Owes(l, c) <=> c \in Missing))
    BY <1>2 DEF Owes
  <2>2. NotWages' = NotWages /\ Preceding(c)' = Preceding(c)
    BY <1>3 DEF NotWages, Preceding
  <2>3. ASSUME ~ Credited(c)
        PROVE  /\ \A l \in loops' : Owes(l, c) /\ \A i \in l.writing : i.cycle <= c
               /\ \A i \in known : i.by = "effect" => i.cycle < c
    BY <2>1, <2>3, <1>4 DEF Undisturbed
  <2>4. ASSUME NEW n \in Nat, Pays(n, c)'
        PROVE  Pays(n, c) \/ (n = N /\ ~ Credited(c))
    BY <2>1, <2>4, <1>3, <1>4 DEF Pays, Owes
  <2>5. ASSUME ~ Credited(c)
        PROVE  /\ Cardinality(NotWages) <= N
               /\ N <= Cardinality(Preceding(c))
               /\ \A i \in NotWages : i.cycle # c
    <3>1. known = Preceding(c)
      BY <2>3, <2>5 DEF Preceding, LoopsHold, Incomes
    <3>2. Cardinality(NotWages) <= N
      BY FS_Subset DEF NotWages, LoopsHold
    <3> QED
      BY <3>1, <3>2, <2>5, <1>1 DEF NotWages, Credited
  <2>6. \A n \in Nat : Pays(n, c)' => /\ Cardinality(NotWages) <= n
                                      /\ n <= Cardinality(Preceding(c))
                                      /\ \A i \in NotWages : i.cycle # c
    BY <2>4, <2>5 DEF Undisturbed
  <2>7. (~ Credited(c))' => \A l \in loops' : Owes(l, c) /\ \A i \in l.writing : i.cycle <= c
    BY <2>3, <1>5
  <2> QED
    BY <2>2, <2>3, <2>6, <2>7, <1>3, <1>5 DEF Owes
<1> QED
  BY <1>7, <1>9, <1>10

\* One run goes on: what the others owe and write is as before.
LEMMA BeginStep ==
  ASSUME PaydaysInv, NEW l \in loops, BeginCredit(l)
  PROVE  PaydaysInv'
<1> USE DEF PaydaysInv
<1>1. PICK c \in NextOf(l.todo) :
        loops' = (loops \ {l}) \cup
          {[l EXCEPT !.todo = @ \ {c},
                     !.writing = {[cycle |-> c, by |-> "effect", nr |-> l.length]}]}
  BY DEF BeginCredit
<1> DEFINE w == [cycle |-> c, by |-> "effect", nr |-> l.length]
           m == [l EXCEPT !.todo = @ \ {c}, !.writing = {w}]
<1>2. c \in l.todo /\ (\A d \in l.todo : c <= d) /\ c \in Cycles /\ l \in Loops
  BY DEF NextOf, LoopsHold, Loops
<1>3. /\ m \in Loops /\ m.length = l.length /\ m.todo = l.todo \ {c} /\ m.writing = {w}
      /\ w \in Incomes /\ w.cycle = c /\ w.by = "effect" /\ w.nr = l.length
  <2>1. w \in Incomes
    BY <1>2 DEF Loops, Incomes
  <2>2. l.todo \ {c} \in SUBSET Cycles
    BY <1>2 DEF Loops
  <2>3. w.cycle = c /\ w.by = "effect" /\ w.nr = l.length
    OBVIOUS
  <2> HIDE DEF w
  <2>4. {w} \in SUBSET Incomes
    BY <2>1
  <2> DEFINE rest == l.todo \ {c}
             row  == {w}
  <2>5. m = [l EXCEPT !.todo = rest, !.writing = row]
    OBVIOUS
  <2>6. rest \in SUBSET Cycles /\ row \in SUBSET Incomes
    BY <2>2, <2>4
  <2> HIDE DEF rest, row, m
  <2>7. m \in Loops /\ m.length = l.length /\ m.todo = rest /\ m.writing = row
    BY <1>2, <2>5, <2>6 DEF Loops
  <2> QED
    BY <2>1, <2>3, <2>7 DEF rest, row
<1>4. /\ known' = known /\ length' = length /\ others' = others
      /\ l.writing = {} /\ l \notin loops' \ {m}
      /\ m \in loops' /\ \A k \in loops' : k = m \/ (k \in loops /\ k # l)
      /\ \A k \in loops : k = l \/ k \in loops'
  BY <1>1 DEF BeginCredit
<1> HIDE DEF m, w
<1>5. \A d \in Cycles : Owes(m, d) <=> Owes(l, d)
  BY <1>2, <1>3, <1>4 DEF Owes
<1>6. \A d \in Cycles : Credited(d)' <=> Credited(d)
  BY <1>4 DEF Credited
<1>7. LoopsHold'
  <2>1. loops' \subseteq Loops
    BY <1>3, <1>4 DEF LoopsHold
  <2>2. \A i \in known : i # w
    BY <1>2, <1>3 DEF LoopsHold
  <2>3. ASSUME NEW k \in loops'
        PROVE  /\ k.todo # {} \/ k.writing # {}
               /\ k.length <= length
               /\ \A i \in k.writing : i.by = "effect" /\ i.nr = k.length /\ k.writing = {i}
               /\ \A i \in known \cup k.writing :
                     i.by = "effect" /\ i.nr = k.length => i.cycle \notin k.todo
               /\ \A i \in known : i \notin k.writing
    <3>1. CASE k = m
      BY <3>1, <1>3, <2>2 DEF LoopsHold
    <3>2. CASE k \in loops
      BY <3>2 DEF LoopsHold
    <3> QED
      BY <3>1, <3>2, <2>3, <1>4
  <2>4. \A j, k \in loops' : j.length = k.length => j = k
    BY <1>3, <1>4 DEF LoopsHold
  <2> QED
    BY <2>1, <2>3, <2>4, <1>4 DEF LoopsHold
<1>8. AllOwed'
  BY <1>4, <1>5, <1>6 DEF AllOwed
<1>9. Undisturbed'
  <2> SUFFICES ASSUME others = 0, NEW d \in Cycles
               PROVE  (/\ ~ Credited(d) => \A k \in loops : /\ Owes(k, d)
                                        /\ \A i \in k.writing : i.cycle <= d
                       /\ ~ Credited(d) => \A i \in known : i.by = "effect" => i.cycle < d
                       /\ \A n \in Nat : Pays(n, d) => /\ Cardinality(NotWages) <= n
                                                       /\ n <= Cardinality(Preceding(d))
                                                       /\ \A i \in NotWages : i.cycle # d)'
    BY <1>4 DEF Undisturbed
  <2>1. NotWages' = NotWages /\ Preceding(d)' = Preceding(d)
    BY <1>4 DEF NotWages, Preceding
  <2>2. \A n \in Nat : Pays(n, d)' => Pays(n, d)
    BY <1>3, <1>4, <1>5 DEF Pays
  <2>3. ~ Credited(d) => \A i \in m.writing : i.cycle <= d
    <3>1. ~ Credited(d) => Owes(l, d)
      BY DEF Undisturbed
    <3> QED
      BY <3>1, <1>2, <1>3, <1>4 DEF Owes
  <2>4. ~ Credited(d) => \A k \in loops' : Owes(k, d) /\ \A i \in k.writing : i.cycle <= d
    BY <2>3, <1>4, <1>5 DEF Undisturbed
  <2>5. ~ Credited(d) => \A i \in known : i.by = "effect" => i.cycle < d
    BY DEF Undisturbed
  <2>6. \A n \in Nat : Pays(n, d) => /\ Cardinality(NotWages) <= n
                                     /\ n <= Cardinality(Preceding(d))
                                     /\ \A i \in NotWages : i.cycle # d
    BY DEF Undisturbed
  <2> QED
    BY <2>1, <2>2, <2>4, <2>5, <2>6, <1>4, <1>6 DEF Owes
<1> QED
  BY <1>7, <1>8, <1>9

\* The row is in memory, where it pays its cycle: nobody owes what only it owed.
LEMMA EndStep ==
  ASSUME PaydaysInv, NEW l \in loops, EndCredit(l)
  PROVE  PaydaysInv'
<1> USE DEF PaydaysInv
<1> DEFINE m == [l EXCEPT !.writing = {}]
<1>1. /\ loops' = (loops \ {l}) \cup {k \in {m} : k.todo # {}}
      /\ known' = known \cup l.writing
      /\ length' = length /\ others' = others
  BY DEF EndCredit
<1>2. PICK w \in Incomes : /\ l.writing = {w} /\ w.by = "effect" /\ w.nr = l.length
                           /\ w \notin known /\ l \in Loops /\ w.cycle \in Cycles
  BY DEF EndCredit, LoopsHold, Loops, Incomes
<1>3. m \in Loops /\ m.length = l.length /\ m.todo = l.todo /\ m.writing = {}
  BY <1>2 DEF Loops
<1>4. /\ known' = known \cup {w} /\ l \notin loops' \ {m}
      /\ \A k \in loops' : (k = m /\ m.todo # {}) \/ (k \in loops /\ k # l)
      /\ \A k \in loops : k = l \/ k \in loops'
      /\ m.todo # {} => m \in loops'
  BY <1>1, <1>2
<1> HIDE DEF m
<1>5. IsFiniteSet(known') /\ Cardinality(known') = Cardinality(known) + 1
      /\ Cardinality(known) \in Nat
  BY <1>2, <1>4, FS_AddElement, FS_CardinalityType DEF LoopsHold
<1>6. \A d : Owes(l, d) <=> Owes(m, d) \/ d = w.cycle
  BY <1>2, <1>3 DEF Owes
<1>7. \A d : Credited(d)' <=> Credited(d) \/ d = w.cycle
  BY <1>4 DEF Credited
<1>8. LoopsHold'
  <2>1. loops' \subseteq Loops /\ known' \subseteq Incomes
    BY <1>2, <1>3, <1>4 DEF LoopsHold
  <2>2. length' <= Cardinality(known') /\ length' \in Nat
    BY <1>1, <1>5 DEF LoopsHold
  <2>3. \A i \in known' : /\ i.by = "effect" => i.nr <= length'
                          /\ i.by = "other" => i.nr <= others'
    BY <1>1, <1>2, <1>4 DEF LoopsHold
  <2>4. ASSUME NEW k \in loops'
        PROVE  /\ k.todo # {} \/ k.writing # {}
               /\ k.length <= length
               /\ \A i \in k.writing : i.by = "effect" /\ i.nr = k.length /\ k.writing = {i}
               /\ \A i \in known' \cup k.writing :
                     i.by = "effect" /\ i.nr = k.length => i.cycle \notin k.todo
               /\ \A i \in known' : i \notin k.writing
    <3>1. CASE k = m /\ m.todo # {}
      BY <3>1, <1>2, <1>3, <1>4 DEF LoopsHold
    <3>2. CASE k \in loops /\ k # l
      <4>1. k.length # l.length
        BY <3>2 DEF LoopsHold
      <4> QED
        BY <3>2, <4>1, <1>2, <1>4 DEF LoopsHold
    <3> QED
      BY <3>1, <3>2, <2>4, <1>4
  <2>5. \A j, k \in loops' : j.length = k.length => j = k
    BY <1>3, <1>4 DEF LoopsHold
  <2> QED
    BY <2>1, <2>2, <2>3, <2>4, <2>5, <1>1, <1>5 DEF LoopsHold
<1>9. AllOwed'
  <2> SUFFICES ASSUME NEW d \in Cycles, ~ Credited(d)' PROVE \E k \in loops' : Owes(k, d)
    BY <1>7 DEF AllOwed
  <2>1. PICK k \in loops : Owes(k, d)
    BY <1>7 DEF AllOwed
  <2>2. CASE k = l
    <3>1. d \in m.todo
      BY <2>1, <2>2, <1>2, <1>3, <1>7 DEF Owes
    <3> QED
      BY <3>1, <1>4 DEF Owes
  <2> QED
    BY <2>1, <2>2, <1>4
<1>10. Undisturbed'
  <2> SUFFICES ASSUME others = 0, NEW d \in Cycles
               PROVE  (/\ ~ Credited(d) => \A k \in loops : /\ Owes(k, d)
                                        /\ \A i \in k.writing : i.cycle <= d
                       /\ ~ Credited(d) => \A i \in known : i.by = "effect" => i.cycle < d
                       /\ \A n \in Nat : Pays(n, d) => /\ Cardinality(NotWages) <= n
                                                       /\ n <= Cardinality(Preceding(d))
                                                       /\ \A i \in NotWages : i.cycle # d)'
    BY <1>1 DEF Undisturbed
  <2>1. /\ NotWages' = NotWages
        /\ Cardinality(Preceding(d)) \in Nat /\ Cardinality(Preceding(d)') \in Nat
        /\ Cardinality(Preceding(d)) <= Cardinality(Preceding(d)')
    BY <1>2, <1>4, <1>5, CountsGrow
  <2>2. \A n \in Nat : Pays(n, d)' => Pays(n, d)
    BY <1>2, <1>3, <1>4, <1>6 DEF Pays, Owes
  <2>3. ASSUME ~ Credited(d)'
        PROVE  /\ ~ Credited(d) /\ d # w.cycle
               /\ \A k \in loops' : Owes(k, d) /\ \A i \in k.writing : i.cycle <= d
               /\ \A i \in known' : i.by = "effect" => i.cycle < d
    <3>1. ~ Credited(d) /\ d # w.cycle
      BY <2>3, <1>7
    <3>2. w.cycle < d
      BY <3>1, <1>2 DEF Undisturbed, Cycles
    <3>3. \A k \in loops : Owes(k, d) /\ \A i \in k.writing : i.cycle <= d
      BY <3>1 DEF Undisturbed
    <3>4. \A i \in known : i.by = "effect" => i.cycle < d
      BY <3>1 DEF Undisturbed
    <3> QED
      BY <3>1, <3>2, <3>3, <3>4, <1>3, <1>4, <1>6
  <2>4. \A n \in Nat : Pays(n, d) => /\ Cardinality(NotWages) <= n
                                     /\ n <= Cardinality(Preceding(d))
                                     /\ \A i \in NotWages : i.cycle # d
    BY DEF Undisturbed
  <2>5. \A n \in Nat : Pays(n, d)' => n <= Cardinality(Preceding(d)')
    BY <2>1, <2>2, <2>4
  <2> QED
    BY <2>1, <2>2, <2>3, <2>4, <2>5 DEF Owes
<1> QED
  BY <1>8, <1>9, <1>10

\* An income of another kind pays its cycle; the effect is not calm any more.
LEMMA OtherStep ==
  ASSUME PaydaysInv, NEW c \in Cycles, OtherIncome(c)
  PROVE  PaydaysInv'
<1> USE DEF PaydaysInv
<1> DEFINE w == [cycle |-> c, by |-> "other", nr |-> others + 1]
<1>1. /\ others' = others + 1 /\ others < MaxOthers /\ others \in Nat
      /\ known' = known \cup {w} /\ length' = length /\ loops' = loops
  BY PaydaysAssumption DEF OtherIncome, LoopsHold
<1>2. w \in Incomes /\ w.by = "other" /\ w.nr = others + 1
  BY <1>1 DEF Incomes
<1>3. w \notin known
  BY <1>1, <1>2 DEF LoopsHold
<1> HIDE DEF w
<1>4. /\ IsFiniteSet(known') /\ Cardinality(known') = Cardinality(known) + 1
      /\ Cardinality(known) \in Nat
  BY <1>1, <1>3, FS_AddElement, FS_CardinalityType DEF LoopsHold
<1>5. LoopsHold'
  <2>1. others' \in 0..MaxOthers /\ length' <= Cardinality(known')
    BY <1>1, <1>4, PaydaysAssumption DEF LoopsHold
  <2>2. \A i \in known' : /\ i.by = "effect" => i.nr <= length
                          /\ i.by = "other" => i.nr <= others'
    BY <1>1, <1>2 DEF LoopsHold, Incomes
  <2>3. \A l \in loops : /\ \A i \in known' \cup l.writing :
                             i.by = "effect" /\ i.nr = l.length => i.cycle \notin l.todo
                         /\ \A i \in known' : i \notin l.writing
    BY <1>1, <1>2 DEF LoopsHold
  <2> QED
    BY <2>1, <2>2, <2>3, <1>1, <1>2, <1>4 DEF LoopsHold
<1>6. AllOwed'
  BY <1>1 DEF AllOwed, Credited, Owes
<1>7. Undisturbed'
  BY <1>1 DEF Undisturbed
<1> QED
  BY <1>5, <1>6, <1>7

\* The invariant holds of every reachable state.
LEMMA PaydaysHold == PaydaysSpec => []PaydaysInv
<1>1. PaydaysInv /\ [PaydaysNext]_paydayVars => PaydaysInv'
  <2> SUFFICES ASSUME PaydaysInv, [PaydaysNext]_paydayVars PROVE PaydaysInv'
    OBVIOUS
  <2>1. CASE UNCHANGED paydayVars
    BY <2>1
    DEF PaydaysInv, LoopsHold, AllOwed, Undisturbed, Credited, Owes, Pays, NotWages, Preceding, paydayVars
  <2>2. CASE RunEffect
    BY <2>2, RunStep
  <2>3. ASSUME NEW c \in Cycles, OtherIncome(c) PROVE PaydaysInv'
    BY <2>3, OtherStep
  <2>4. ASSUME NEW l \in loops, BeginCredit(l) PROVE PaydaysInv'
    BY <2>4, BeginStep
  <2>5. ASSUME NEW l \in loops, EndCredit(l) PROVE PaydaysInv'
    BY <2>5, EndStep
  <2> QED
    BY <2>1, <2>2, <2>3, <2>4, <2>5 DEF PaydaysNext
<1> QED
  BY <1>1, PaydaysAtFirst, PTL DEF PaydaysSpec

\* A wage is written once, and incomes and runs have values of their types.
THEOREM PaydaysKeepTheirTypes == PaydaysSpec => []PaydaysTypeOK
<1>1. PaydaysInv => PaydaysTypeOK
  BY DEF PaydaysInv, LoopsHold, PaydaysTypeOK
<1> QED
  BY <1>1, PaydaysHold, PTL

\* A set with one more element has twice as many subsets.
LEMMA Doubles ==
  ASSUME NEW n \in Nat
  PROVE  2 ^ n \in Nat /\ 2 ^ (n + 1) = 2 * 2 ^ n
<1> DEFINE S == 1..n
           T == 1..(n + 1)
           W == {s \in SUBSET T : n + 1 \in s}
           f == [s \in SUBSET S |-> s \cup {n + 1}]
<1>1. IsFiniteSet(S) /\ Cardinality(S) = n /\ IsFiniteSet(T) /\ Cardinality(T) = n + 1
  <2>1. IsFiniteSet(S) /\ Cardinality(S) = IF 1 > n THEN 0 ELSE n - 1 + 1
    BY FS_Interval
  <2>2. IsFiniteSet(T) /\ Cardinality(T) = IF 1 > n + 1 THEN 0 ELSE n + 1 - 1 + 1
    BY FS_Interval
  <2> QED
    BY <2>1, <2>2
<1>2. IsFiniteSet(SUBSET S) /\ Cardinality(SUBSET S) = 2 ^ n
  BY <1>1, FS_SUBSET
<1>3. IsFiniteSet(SUBSET T) /\ Cardinality(SUBSET T) = 2 ^ (n + 1)
  BY <1>1, FS_SUBSET
<1>4. Cardinality(SUBSET S) \in Nat
  BY <1>2, FS_CardinalityType
<1>5. T = S \cup {n + 1} /\ n + 1 \notin S
  OBVIOUS
<1> HIDE DEF S, T
<1>6. f \in Bijection(SUBSET S, W)
  <2>1. f \in [SUBSET S -> W]
    BY <1>5
  <2>2. \A a, b \in SUBSET S : f[a] = f[b] => a = b
    BY <1>5
  <2>3. ASSUME NEW w \in W PROVE \E s \in SUBSET S : f[s] = w
    <3>1. w \ {n + 1} \in SUBSET S /\ f[w \ {n + 1}] = w
      BY <1>5
    <3> QED
      BY <3>1
  <2> QED
    BY <2>1, <2>2, <2>3 DEF Bijection, Injection, Surjection, IsInjective
<1>7. IsFiniteSet(W) /\ Cardinality(W) = Cardinality(SUBSET S)
  BY <1>2, <1>6, FS_Bijection DEF ExistsBijection
<1>8. SUBSET T = (SUBSET S) \cup W /\ (SUBSET S) \cap W = {}
  <2>1. \A s \in SUBSET T : s \in SUBSET S \/ s \in W
    BY <1>5
  <2>2. \A s \in SUBSET S : s \in SUBSET T /\ s \notin W
    BY <1>5
  <2> QED
    BY <2>1, <2>2
<1>9. Cardinality(SUBSET T) = Cardinality(SUBSET S) + Cardinality(W) - Cardinality({})
  BY <1>2, <1>7, <1>8, FS_Union
<1> QED
  BY <1>2, <1>3, <1>4, <1>7, <1>9, FS_EmptySet

\* Numbers have a least one among them, in the library's words and in ours.
LEMMA NumbersAreWellFounded ==
  \E R : IsWellFoundedOn(R, Nat) /\ \A x, y \in Nat : x < y => <<x, y>> \in R
<1>1. \A x, y \in Nat : x < y => <<x, y>> \in OpToRel(<, Nat)
  BY DEF OpToRel
<1> QED
  BY <1>1, NatLessThanWellFounded, Zenon

LEMMA LeastNumber ==
  ASSUME NEW T, T \subseteq Nat, T # {}
  PROVE  \E m \in T : \A k \in T : m <= k
<1>1. PICK R : IsWellFoundedOn(R, Nat) /\ \A x, y \in Nat : x < y => <<x, y>> \in R
  BY NumbersAreWellFounded, Zenon
<1>2. PICK m \in T : \A k \in T : ~ (<<k, m>> \in R)
  BY <1>1, WFMin, Zenon
<1>3. \A k \in T : ~ (k < m)
  BY <1>1, <1>2, Zenon
<1>4. \A k \in T : m <= k
  BY <1>3
<1> QED
  BY <1>2, <1>4

\* The incomes of a payday, and of the paydays before it.
DatedIn(c)     == {i \in known : i.cycle = c}
DatedBefore(c) == {i \in known : i.cycle < c}

LEMMA IncomesAreCounted ==
  ASSUME LoopsHold, NEW c \in Cycles
  PROVE  /\ IsFiniteSet(DatedIn(c)) /\ Cardinality(DatedIn(c)) \in Nat
         /\ IsFiniteSet(DatedBefore(c)) /\ Cardinality(DatedBefore(c)) \in Nat
         /\ IsFiniteSet(Preceding(c)) /\ Cardinality(Preceding(c)) \in Nat
         /\ IsFiniteSet(NotWages) /\ Cardinality(NotWages) \in Nat
<1>1. /\ DatedIn(c) \subseteq known /\ DatedBefore(c) \subseteq known /\ Preceding(c) \subseteq known
      /\ NotWages \subseteq known /\ IsFiniteSet(known)
  BY DEF DatedIn, DatedBefore, Preceding, NotWages, LoopsHold
<1> QED
  BY <1>1, FS_Subset, FS_CardinalityType

\* The runs that credit a payday found different numbers of transactions, from those that
\* were there at first to as many as the wages of earlier paydays made of them.
LEMMA OneMoreThanEarlier ==
  ASSUME PaydaysInv, others = 0, NEW c \in Cycles
  PROVE  Cardinality(DatedIn(c)) <= Cardinality(DatedBefore(c)) + 1
<1> USE DEF PaydaysInv
<1> DEFINE a == Cardinality(NotWages)
           b == Cardinality(Preceding(c))
<1>0. a \in Nat /\ b \in Nat /\ Cardinality(DatedBefore(c)) \in Nat
  BY IncomesAreCounted
<1>1. b <= a + Cardinality(DatedBefore(c))
  <2>1. Preceding(c) = NotWages \cup DatedBefore(c)
    BY DEF Preceding, NotWages, DatedBefore
  <2>2. b = a + Cardinality(DatedBefore(c)) - Cardinality(NotWages \cap DatedBefore(c))
    BY <2>1, IncomesAreCounted, FS_Union
  <2>3. Cardinality(NotWages \cap DatedBefore(c)) \in Nat
    BY IncomesAreCounted, FS_Intersection, FS_CardinalityType
  <2> QED
    BY <2>2, <2>3, <1>0
<1>2. CASE \E i \in known : i.by = "other" /\ i.cycle = c
  <2>1. PICK i \in known : i.by = "other" /\ i.cycle = c
    BY <1>2
  <2>2. \A j \in DatedIn(c) : j.by # "effect"
    BY <2>1 DEF DatedIn, Undisturbed, Pays, NotWages, LoopsHold, Incomes
  <2>3. \A j \in DatedIn(c) : j.by = "other" /\ j.nr = 0 /\ j.cycle = c /\ j \in Incomes
    BY <2>2 DEF DatedIn, LoopsHold, Incomes
  <2>4. i.nr = 0 /\ i \in Incomes
    BY <2>1 DEF LoopsHold, Incomes
  <2>5. DatedIn(c) = {i}
    BY <2>1, <2>3, <2>4 DEF Incomes, DatedIn
  <2>6. Cardinality(DatedIn(c)) = 1
    BY <2>5, FS_Singleton
  <2> QED
    BY <2>6, <1>0
<1>3. CASE \A i \in DatedIn(c) : i.by = "effect"
  <2> DEFINE f == [i \in DatedIn(c) |-> i.nr]
  <2>1. \A i \in DatedIn(c) : i.nr \in a..b /\ i \in Incomes /\ i.cycle = c
    <3> SUFFICES ASSUME NEW i \in DatedIn(c) PROVE i.nr \in a..b /\ i \in Incomes /\ i.cycle = c
      OBVIOUS
    <3>1. i \in known /\ i \in Incomes /\ i.nr \in Nat /\ i.cycle = c /\ i.by = "effect"
      BY <1>3 DEF DatedIn, LoopsHold, Incomes
    <3>2. Pays(i.nr, c)
      BY <3>1 DEF Pays
    <3> QED
      BY <3>1, <3>2, <1>0 DEF Undisturbed
  <2>2. f \in Injection(DatedIn(c), a..b)
    <3>1. f \in [DatedIn(c) -> a..b]
      BY <2>1
    <3>2. \A i, j \in DatedIn(c) : f[i] = f[j] => i = j
      BY <2>1, <1>3 DEF Incomes
    <3> QED
      BY <3>1, <3>2 DEF Injection, IsInjective
  <2>3. IsFiniteSet(a..b) /\ Cardinality(a..b) = IF a > b THEN 0 ELSE b - a + 1
    <3> HIDE DEF a, b
    <3>1. a \in Int /\ b \in Int
      BY <1>0
    <3> QED
      BY <3>1, FS_Interval
  <2>4. Cardinality(DatedIn(c)) <= Cardinality(a..b)
    BY <2>2, <2>3, FS_Injection
  <2>5. Cardinality(DatedIn(c)) \in Nat
    BY IncomesAreCounted
  <2> HIDE DEF a, b
  <2> QED
    BY <2>3, <2>4, <2>5, <1>0, <1>1
<1>4. \A i \in DatedIn(c) : i.by = "effect" \/ i.by = "other"
  BY DEF DatedIn, LoopsHold, Incomes
<1> QED
  BY <1>2, <1>3, <1>4 DEF DatedIn

\* Of the first payday at which the bound fails, the one before it kept it.
LEMMA EarlierAreFew ==
  ASSUME PaydaysInv, others = 0, NEW c \in Cycles
  PROVE  Cardinality(DatedBefore(c)) + 1 <= 2 ^ (c - 1)
<1> DEFINE E(d) == Cardinality(DatedBefore(d))
           T == {d \in Cycles : ~ (E(d) + 1 <= 2 ^ (d - 1))}
<1>1. Cycles \subseteq Nat /\ \A d \in Cycles : d >= 1 /\ (d # 1 => d - 1 \in Cycles)
  BY PaydaysAssumption DEF Cycles
<1>2. \A d \in Cycles : /\ E(d) \in Nat /\ IsFiniteSet(DatedBefore(d))
                        /\ Cardinality(DatedIn(d)) \in Nat /\ IsFiniteSet(DatedIn(d))
  BY IncomesAreCounted DEF PaydaysInv
<1> SUFFICES ASSUME T # {} PROVE FALSE
  OBVIOUS
<1>3. PICK d \in T : \A e \in T : d <= e
  <2>1. T \subseteq Nat
    BY <1>1
  <2> HIDE DEF T
  <2> QED
    BY <2>1, LeastNumber
<1>4. d \in Cycles /\ ~ (E(d) + 1 <= 2 ^ (d - 1))
  OBVIOUS
<1>5. d # 1
  <2> SUFFICES ASSUME d = 1 PROVE FALSE
    OBVIOUS
  <2>1. \A i \in known : ~ (i.cycle < 1)
    <3>1. \A i \in known : i.cycle \in Cycles
      BY DEF PaydaysInv, LoopsHold, Incomes
    <3>2. \A n \in Cycles : ~ (n < 1)
      BY <1>1
    <3> QED
      BY <3>1, <3>2, Zenon
  <2>2. E(1) = 0
    BY <2>1, FS_EmptySet DEF DatedBefore
  <2>3. 2 ^ (1 - 1) = 1
    OBVIOUS
  <2> QED
    BY <1>4, <2>2, <2>3
<1>6. d - 1 \in Cycles /\ d - 1 \notin T
  <2>1. d - 1 \in Cycles
    BY <1>1, <1>4, <1>5
  <2> QED
    BY <2>1, <1>1, <1>3, <1>4
<1>7. E(d - 1) + 1 <= 2 ^ ((d - 1) - 1)
  BY <1>6
<1>8. E(d) <= E(d - 1) + Cardinality(DatedIn(d - 1))
  <2>1. DatedBefore(d) = DatedBefore(d - 1) \cup DatedIn(d - 1)
    <3>1. \A i \in known : i.cycle \in Nat
      BY <1>1 DEF PaydaysInv, LoopsHold, Incomes
    <3>2. \A n \in Nat : n < d <=> n < d - 1 \/ n = d - 1
      BY <1>1, <1>4
    <3> QED
      BY <3>1, <3>2 DEF DatedBefore, DatedIn
  <2>2. E(d) = E(d - 1) + Cardinality(DatedIn(d - 1)) - Cardinality(DatedBefore(d - 1) \cap DatedIn(d - 1))
    BY <2>1, <1>2, <1>6, FS_Union
  <2>3. Cardinality(DatedBefore(d - 1) \cap DatedIn(d - 1)) \in Nat
    BY <1>2, <1>6, FS_Intersection, FS_CardinalityType
  <2> QED
    BY <2>2, <2>3, <1>2, <1>4, <1>6
<1>9. Cardinality(DatedIn(d - 1)) <= E(d - 1) + 1
  BY <1>6, OneMoreThanEarlier
<1>10. 2 ^ (d - 1) = 2 * 2 ^ (d - 2) /\ 2 ^ (d - 2) \in Nat
  <2>1. d - 2 \in Nat /\ (d - 2) + 1 = d - 1
    BY <1>1, <1>4, <1>5
  <2> QED
    BY <2>1, Doubles
<1>11. (d - 1) - 1 = d - 2
  BY <1>1, <1>4
<1>12. E(d - 1) \in Nat /\ E(d) \in Nat /\ Cardinality(DatedIn(d - 1)) \in Nat
  BY <1>2, <1>4, <1>6
<1> DEFINE p == 2 ^ (d - 2)
<1>13. E(d - 1) + 1 <= p /\ ~ (E(d) + 1 <= 2 * p) /\ p \in Nat
  BY <1>4, <1>7, <1>10, <1>11
<1> HIDE DEF p, E
<1> QED
  BY <1>8, <1>9, <1>12, <1>13

LEMMA DoublingStaysBounded ==
  ASSUME PaydaysInv PROVE DoublingIsBounded
<1> SUFFICES ASSUME others = 0, NEW c \in Cycles
             PROVE  Cardinality(DatedIn(c)) <= 2 ^ (c - 1)
  BY DEF DoublingIsBounded, DatedIn
<1>1. Cardinality(DatedBefore(c)) \in Nat /\ Cardinality(DatedIn(c)) \in Nat
  BY IncomesAreCounted DEF PaydaysInv
<1>2. c - 1 \in Nat
  BY PaydaysAssumption DEF Cycles
<1>3. 2 ^ (c - 1) \in Nat
  BY <1>2, Doubles
<1> QED
  BY <1>1, <1>3, OneMoreThanEarlier, EarlierAreFew

\* When nothing is under way, every payday has its income, however the runs of the effect and
\* other incomes come between one another; and when none comes between, the wage of the c-th
\* payday is written 2^(c-1) times at most (payday.ts:4-14, App.tsx:436-463).
THEOREM PaydaysStayPaid == PaydaysSpec => []PaydaysArePaid
<1>1. PaydaysInv => EveryPaydayIsPaid
  BY DEF PaydaysInv, AllOwed, EveryPaydayIsPaid, Credited
<1>2. PaydaysInv => PaydaysArePaid
  BY <1>1, DoublingStaysBounded DEF PaydaysArePaid
<1> QED
  BY <1>2, PaydaysHold, PTL

-----------------------------------------------------------------------------
(***************************************************************************)
(* Setting up an account.  A row that is stored and not yet told to the    *)
(* screen is the one a tap is writing; while a hydrate is under way what   *)
(* counts is what it has read, for that is what the screen will show.      *)
(***************************************************************************)
TapRows == [todo : SUBSET Names, asked : SUBSET Names, writing : Names \cup {NoName}]

Pending(c) == c.from \in DOMAIN taps /\ taps[c.from].writing = c.name

\* The screen does not show this row, or will not once the hydrate has ended.
Behind(c) == IF reads = {} THEN c \notin shown ELSE \E read \in reads : c \notin read

\* What was asked for is still to be written, being written, or stored.
OnItsWay(i) == \A n \in taps[i].asked :
                 n \in taps[i].todo \/ n = taps[i].writing \/ [name |-> n, from |-> i] \in stored

Ends(i) == taps[i].todo = {} /\ taps[i].writing = NoName

FormHolds ==
  /\ form \in [step : 0..7, chosen : SUBSET Suggested, bills : SUBSET Bills]
  /\ onboarded \in [page : BOOLEAN, device : BOOLEAN]
  /\ opens \in 1..MaxOpens /\ raced \in BOOLEAN

TapsHold ==
  /\ taps \in Seq(TapRows) /\ Len(taps) <= MaxTaps
  /\ \A i \in DOMAIN taps : OnItsWay(i)
  /\ (\E i \in DOMAIN taps : Ends(i)) => onboarded.page /\ onboarded.device

RowsHold ==
  /\ stored \subseteq Categories /\ IsFiniteSet(Arrived)
  /\ shown \subseteq stored
  /\ reads = {} \/ \E read \in SUBSET stored : reads = {read}

Caught == ~ raced => \A c \in stored : Behind(c) => Pending(c)

SetupInv == FormHolds /\ TapsHold /\ RowsHold /\ Caught

\* The invariant holds when the page is first opened.
LEMMA SetupAtFirst == SetupInit => SetupInv
<1> SUFFICES ASSUME SetupInit PROVE SetupInv
  OBVIOUS
<1>1. FormHolds
  <2>1. form \in [step : 0..7, chosen : SUBSET Suggested, bills : SUBSET Bills]
    BY DEF SetupInit, EmptyForm
  <2>2. opens \in 1..MaxOpens
    BY SetupAssumption DEF SetupInit
  <2> QED
    BY <2>1, <2>2 DEF SetupInit, FormHolds
<1>2. TapsHold
  BY SetupAssumption DEF SetupInit, TapsHold
<1>3. RowsHold /\ Caught
  <2>1. Arrived = {}
    BY DEF SetupInit, Arrived
  <2> QED
    BY <2>1, FS_EmptySet DEF SetupInit, RowsHold, Caught
<1> QED
  BY <1>1, <1>2, <1>3 DEF SetupInv

\* A tap asks for names and has a row of its own.
LEMMA TapsAreRows ==
  ASSUME TapsHold
  PROVE  /\ Len(taps) \in Nat /\ DOMAIN taps = 1 .. Len(taps)
         /\ \A i \in DOMAIN taps : /\ i \in 1..MaxTaps
                                   /\ taps[i].todo \subseteq Names /\ taps[i].asked \subseteq Names
                                   /\ taps[i].writing \in Names \cup {NoName}
<1>1. taps \in Seq(TapRows) /\ Len(taps) <= MaxTaps
  BY DEF TapsHold
<1>2. Len(taps) \in Nat /\ DOMAIN taps = 1 .. Len(taps)
  BY <1>1
<1>3. \A i \in DOMAIN taps : i \in 1..MaxTaps /\ taps[i] \in TapRows
  BY <1>1, <1>2, SetupAssumption
<1>4. \A t \in TapRows : /\ t.todo \subseteq Names /\ t.asked \subseteq Names
                        /\ t.writing \in Names \cup {NoName}
  BY DEF TapRows
<1> QED
  BY <1>2, <1>3, <1>4

\* What the form answers, and skipping it, writes nothing.
LEMMA QuestionSteps ==
  ASSUME SetupInv, Forward \/ Back \/ Answer \/ SkipSetup \/ MarkSetUp
  PROVE  SetupInv'
<1>1. UNCHANGED <<taps, stored, shown, reads, opens, raced>>
  <2>1. CASE Answer
    BY <2>1, Zenon DEF Answer
  <2>2. CASE Forward \/ Back \/ SkipSetup \/ MarkSetUp
    BY <2>2 DEF Forward, Back, SkipSetup, MarkSetUp
  <2> QED
    BY <2>1, <2>2
<1>2. /\ form \in [step : 0..7, chosen : SUBSET Suggested, bills : SUBSET Bills]
      /\ onboarded \in [page : BOOLEAN, device : BOOLEAN]
  BY DEF SetupInv, FormHolds
<1>3. form' \in [step : 0..7, chosen : SUBSET Suggested, bills : SUBSET Bills]
  <2>1. ASSUME NEW n \in 0..7 PROVE [form EXCEPT !.step = n] \in
                 [step : 0..7, chosen : SUBSET Suggested, bills : SUBSET Bills]
    BY <1>2
  <2>2. CASE Forward
    <3>1. form.step + 1 \in 0..7
      BY <1>2, <2>2 DEF Forward
    <3>2. form' = [form EXCEPT !.step = form.step + 1]
      BY <2>2 DEF Forward
    <3> QED
      BY <2>1, <3>1, <3>2
  <2>3. CASE Back
    <3>1. form.step - 1 \in 0..7
      BY <1>2, <2>3 DEF Back
    <3>2. form' = [form EXCEPT !.step = form.step - 1]
      BY <2>3 DEF Back
    <3> QED
      BY <2>1, <3>1, <3>2
  <2>4. CASE Answer
    <3>1. \/ form.step = 5 /\ \E n \in Suggested :
               form' = [form EXCEPT !.chosen = Toggled(form.chosen, n)]
          \/ form.step = 7 /\ \E n \in Bills :
               form' = [form EXCEPT !.bills = Toggled(form.bills, n)]
      BY <2>4 DEF Answer
    <3>2. ASSUME NEW S, NEW T \in SUBSET S, NEW n \in S PROVE Toggled(T, n) \in SUBSET S
      BY DEF Toggled
    <3>3. /\ \A n \in Suggested : Toggled(form.chosen, n) \in SUBSET Suggested
          /\ \A n \in Bills : Toggled(form.bills, n) \in SUBSET Bills
      BY <1>2, <3>2
    <3> QED
      BY <1>2, <3>1, <3>3
  <2>5. CASE SkipSetup \/ MarkSetUp
    <3>1. form' = EmptyForm
      BY <2>5 DEF SkipSetup, MarkSetUp, LeaveForm
    <3> QED
      BY <3>1 DEF EmptyForm
  <2> QED
    BY <2>2, <2>3, <2>4, <2>5
<1>4. /\ onboarded' \in [page : BOOLEAN, device : BOOLEAN]
      /\ onboarded' = onboarded \/ onboarded' = [page |-> TRUE, device |-> TRUE]
  <2>1. onboarded' = onboarded \/ onboarded' = [page |-> TRUE, device |-> TRUE]
    <3>1. CASE Answer
      BY <3>1, Zenon DEF Answer
    <3>2. CASE Forward \/ Back \/ SkipSetup \/ MarkSetUp
      BY <3>2 DEF Forward, Back, SkipSetup, MarkSetUp, LeaveForm
    <3> QED
      BY <3>1, <3>2
  <2>2. [page |-> TRUE, device |-> TRUE] \in [page : BOOLEAN, device : BOOLEAN]
    OBVIOUS
  <2> QED
    BY <1>2, <2>1, <2>2, Zenon
<1>5. FormHolds'
  BY <1>1, <1>3, <1>4 DEF SetupInv, FormHolds
<1>6. TapsHold'
  BY <1>1, <1>4 DEF SetupInv, TapsHold, OnItsWay, Ends
<1>7. RowsHold' /\ Caught'
  BY <1>1 DEF SetupInv, RowsHold, Caught, Behind, Pending, Arrived
<1> QED
  BY <1>5, <1>6, <1>7 DEF SetupInv

\* Finish writes down what is asked for and has not ended.
LEMMA FinishStep == ASSUME SetupInv, Finish PROVE SetupInv'
<1>1. /\ Len(taps) < MaxTaps /\ taps \in Seq(TapRows)
      /\ form \in [step : 0..7, chosen : SUBSET Suggested, bills : SUBSET Bills]
      /\ UNCHANGED <<form, stored, shown, reads, onboarded, opens, raced>>
  BY DEF Finish, SetupInv, TapsHold, FormHolds
<1>2. PICK n \in form.chosen :
         taps' = Append(taps, [todo |-> (form.chosen \cup form.bills) \ {n},
                               asked |-> form.chosen \cup form.bills, writing |-> n])
  BY DEF Finish
<1> DEFINE new == [todo |-> (form.chosen \cup form.bills) \ {n},
                   asked |-> form.chosen \cup form.bills, writing |-> n]
<1>3. /\ new \in TapRows /\ new.writing \in Names /\ new.writing # NoName
      /\ \A m \in new.asked : m \in new.todo \/ m = new.writing
  BY <1>1, SetupAssumption DEF TapRows, Names
<1> HIDE DEF new
<1>4. taps' = Append(taps, new)
  BY <1>2 DEF new
<1>5. /\ taps' \in Seq(TapRows) /\ Len(taps') = Len(taps) + 1 /\ Len(taps) \in Nat
      /\ DOMAIN taps = 1 .. Len(taps) /\ DOMAIN taps' = DOMAIN taps \cup {Len(taps) + 1}
      /\ \A i \in DOMAIN taps : taps'[i] = taps[i]
      /\ taps'[Len(taps) + 1] = new
  BY <1>1, <1>3, <1>4
<1>6. TapsHold'
  <2>1. Len(taps') <= MaxTaps
    BY <1>1, <1>5, SetupAssumption
  <2>2. \A i \in DOMAIN taps' : OnItsWay(i)'
    BY <1>1, <1>3, <1>5 DEF SetupInv, TapsHold, OnItsWay
  <2>3. \A i \in DOMAIN taps' : Ends(i)' => i \in DOMAIN taps /\ Ends(i)
    BY <1>3, <1>5 DEF Ends
  <2> QED
    BY <1>1, <1>5, <2>1, <2>2, <2>3 DEF SetupInv, TapsHold
<1>7. RowsHold' /\ FormHolds'
  BY <1>1 DEF SetupInv, RowsHold, FormHolds, Arrived
<1>8. Caught'
  BY <1>1, <1>5 DEF SetupInv, Caught, Behind, Pending
<1> QED
  BY <1>6, <1>7, <1>8 DEF SetupInv

\* A row written is being told to the screen.
LEMMA StoredStep == ASSUME SetupInv, NEW i \in DOMAIN taps, Stored(i) PROVE SetupInv'
<1> DEFINE row == [name |-> taps[i].writing, from |-> i]
<1>1. /\ taps[i].writing # NoName /\ stored' = stored \cup {row}
      /\ UNCHANGED <<form, taps, shown, reads, onboarded, opens, raced>>
  BY DEF Stored
<1>2. /\ taps[i].writing \in Names \cup {NoName} /\ i \in 1..MaxTaps
  BY TapsAreRows DEF SetupInv
<1>3. row \in Categories /\ ~ row.from > MaxTaps
  <2>1. i \in 0 .. (MaxTaps + MaxArrivals) /\ ~ i > MaxTaps
    BY <1>2, SetupAssumption
  <2> QED
    BY <1>2, <2>1 DEF Categories
<1>4. RowsHold'
  <2>1. Arrived' = Arrived
    BY <1>1, <1>3 DEF Arrived
  <2> QED
    BY <1>1, <1>3, <2>1 DEF SetupInv, RowsHold
<1>5. TapsHold'
  BY <1>1 DEF SetupInv, TapsHold, OnItsWay, Ends
<1>6. Caught'
  <2>1. row.from \in DOMAIN taps /\ taps[row.from].writing = row.name
    OBVIOUS
  <2> QED
    BY <1>1, <2>1 DEF SetupInv, Caught, Behind, Pending
<1>7. FormHolds'
  BY <1>1 DEF SetupInv, FormHolds
<1> QED
  BY <1>4, <1>5, <1>6, <1>7 DEF SetupInv

\* A row is shown, and the next one written; after the last, setup is done.
LEMMA ShownStep == ASSUME SetupInv, NEW i \in DOMAIN taps, Shown(i) PROVE SetupInv'
<1> DEFINE row == [name |-> taps[i].writing, from |-> i]
           left == taps[i].todo
<1>1. /\ row \in stored /\ shown' = shown \cup {row}
      /\ raced' = (raced \/ \E read \in reads : row \notin read)
      /\ UNCHANGED <<stored, reads, opens>>
  BY DEF Shown
<1>2. /\ taps \in Seq(TapRows) /\ taps[i] \in TapRows /\ Len(taps) <= MaxTaps
      /\ stored \subseteq Categories /\ IsFiniteSet(Arrived) /\ shown \subseteq stored
      /\ OnItsWay(i)
  BY DEF SetupInv, TapsHold, RowsHold
<1>3. PICK t \in TapRows :
         /\ taps' = [taps EXCEPT ![i] = t]
         /\ t.asked = taps[i].asked
         /\ \A n \in left : n \in t.todo \/ n = t.writing
         /\ left # {} => t.writing \in left /\ t.writing # NoName
         /\ left = {} => LeaveForm
         /\ left # {} => UNCHANGED <<form, onboarded>>
  <2>1. CASE left = {}
    <3> DEFINE t == [taps[i] EXCEPT !.writing = NoName]
    <3>1. t \in TapRows /\ t.asked = taps[i].asked
      BY <1>2 DEF TapRows
    <3>2. taps' = [taps EXCEPT ![i] = t] /\ LeaveForm
      BY <1>2, <2>1 DEF Shown, TapRows
    <3> HIDE DEF t
    <3> QED
      BY <2>1, <3>1, <3>2
  <2>2. CASE left # {}
    <3>1. PICK n \in left : taps' = [taps EXCEPT ![i].todo = @ \ {n}, ![i].writing = n]
      BY <2>2 DEF Shown
    <3> DEFINE t == [taps[i] EXCEPT !.todo = @ \ {n}, !.writing = n]
    <3>2. /\ t \in TapRows /\ t.asked = taps[i].asked /\ t.writing = n
          /\ \A m \in left : m \in t.todo \/ m = t.writing
      BY <1>2 DEF TapRows
    <3>3. taps' = [taps EXCEPT ![i] = t]
      BY <1>2, <3>1 DEF TapRows
    <3>4. n # NoName
      BY <1>2, SetupAssumption DEF TapRows, Names
    <3>5. UNCHANGED <<form, onboarded>>
      BY <2>2 DEF Shown
    <3> HIDE DEF t
    <3> QED
      BY <2>2, <3>2, <3>3, <3>4, <3>5
  <2> QED
    BY <2>1, <2>2
<1>4. /\ taps' \in Seq(TapRows) /\ Len(taps') = Len(taps) /\ DOMAIN taps' = DOMAIN taps
      /\ \A j \in DOMAIN taps : taps'[j] = IF j = i THEN t ELSE taps[j]
  BY <1>2, <1>3
<1>5. \A j \in DOMAIN taps' : OnItsWay(j)'
  <2> SUFFICES ASSUME NEW j \in DOMAIN taps PROVE OnItsWay(j)'
    BY <1>4
  <2>1. CASE j # i
    BY <1>1, <1>4, <2>1 DEF SetupInv, TapsHold, OnItsWay
  <2>2. CASE j = i
    BY <1>1, <1>2, <1>3, <1>4, <2>2 DEF OnItsWay
  <2> QED
    BY <2>1, <2>2
<1>6. /\ form' \in [step : 0..7, chosen : SUBSET Suggested, bills : SUBSET Bills]
      /\ onboarded' \in [page : BOOLEAN, device : BOOLEAN]
      /\ left = {} => onboarded' = [page |-> TRUE, device |-> TRUE]
      /\ left # {} => onboarded' = onboarded
  <2>1. CASE left = {}
    <3>1. form' = EmptyForm /\ onboarded' = [page |-> TRUE, device |-> TRUE]
      BY <1>3, <2>1 DEF LeaveForm
    <3> QED
      BY <2>1, <3>1 DEF EmptyForm
  <2>2. CASE left # {}
    BY <1>3, <2>2 DEF SetupInv, FormHolds
  <2> QED
    BY <2>1, <2>2
<1>7. TapsHold'
  <2>1. ASSUME NEW j \in DOMAIN taps', Ends(j)' PROVE onboarded'.page /\ onboarded'.device
    <3>1. CASE left = {}
      BY <1>6, <3>1
    <3>2. CASE left # {}
      <4>1. j # i
        BY <1>3, <1>4, <2>1, <3>2 DEF Ends
      <4>2. Ends(j) /\ j \in DOMAIN taps
        BY <1>4, <2>1, <4>1 DEF Ends
      <4> QED
        BY <1>6, <3>2, <4>2 DEF SetupInv, TapsHold
    <3> QED
      BY <3>1, <3>2
  <2> QED
    BY <1>2, <1>4, <1>5, <2>1 DEF TapsHold
<1>8. RowsHold'
  <2>1. Arrived' = Arrived
    BY <1>1 DEF Arrived
  <2> QED
    BY <1>1, <2>1 DEF SetupInv, RowsHold
<1>9. Caught'
  <2> SUFFICES ASSUME ~ raced', NEW c \in stored, Behind(c)' PROVE Pending(c)'
    BY <1>1 DEF Caught
  <2>1. ~ raced /\ \A read \in reads : row \in read
    BY <1>1
  <2>2. c # row
    BY <1>1, <2>1 DEF Behind
  <2>3. Behind(c)
    BY <1>1, <2>1 DEF Behind
  <2>4. Pending(c)
    BY <2>1, <2>3 DEF SetupInv, Caught
  <2>5. c.from # i
    <3>1. c = [name |-> c.name, from |-> c.from]
      BY <1>2 DEF Categories
    <3> QED
      BY <2>2, <2>4, <3>1 DEF Pending
  <2> QED
    BY <1>4, <2>4, <2>5 DEF Pending
<1>10. FormHolds'
  BY <1>1, <1>6 DEF SetupInv, FormHolds
<1> QED
  BY <1>7, <1>8, <1>9, <1>10 DEF SetupInv

\* A row arrives and everything is read again.
LEMMA ArriveStep == ASSUME SetupInv, Arrive PROVE SetupInv'
<1> DEFINE k == MaxTaps + Cardinality(Arrived) + 1
           row == [name |-> NoName, from |-> k]
<1>1. /\ Cardinality(Arrived) < MaxArrivals /\ reads = {}
      /\ stored' = stored \cup {row} /\ reads' = {stored'}
      /\ UNCHANGED <<form, taps, shown, onboarded, opens, raced>>
  BY DEF Arrive
<1>2. IsFiniteSet(Arrived) /\ Cardinality(Arrived) \in Nat
  BY FS_CardinalityType DEF SetupInv, RowsHold
<1>3. k \in 0 .. (MaxTaps + MaxArrivals) /\ k > MaxTaps
  BY <1>1, <1>2, SetupAssumption
<1> HIDE DEF k
<1>4. row \in Categories /\ row.from = k
  BY <1>3 DEF Categories
<1>5. IsFiniteSet(Arrived')
  <2>1. Arrived' = Arrived \cup {row}
    BY <1>1, <1>3, <1>4 DEF Arrived
  <2> QED
    BY <1>2, <2>1, FS_AddElement
<1>6. RowsHold'
  BY <1>1, <1>4, <1>5 DEF SetupInv, RowsHold
<1>7. TapsHold' /\ FormHolds'
  BY <1>1 DEF SetupInv, TapsHold, FormHolds, OnItsWay, Ends
<1>8. Caught'
  BY <1>1 DEF Caught, Behind
<1> QED
  BY <1>6, <1>7, <1>8 DEF SetupInv

\* What was read is shown.
LEMMA HydratedStep == ASSUME SetupInv, SetupHydrated PROVE SetupInv'
<1>1. /\ reads # {} /\ shown' \in reads /\ reads' = {}
      /\ UNCHANGED <<form, taps, stored, onboarded, opens, raced>>
  BY DEF SetupHydrated
<1>2. PICK read \in SUBSET stored : reads = {read}
  BY <1>1 DEF SetupInv, RowsHold
<1>3. shown' = read
  BY <1>1, <1>2
<1>4. RowsHold'
  BY <1>1, <1>2, <1>3 DEF SetupInv, RowsHold, Arrived
<1>5. TapsHold' /\ FormHolds'
  BY <1>1 DEF SetupInv, TapsHold, FormHolds, OnItsWay, Ends
<1>6. Caught'
  BY <1>1, <1>2, <1>3 DEF SetupInv, Caught, Behind, Pending
<1> QED
  BY <1>4, <1>5, <1>6 DEF SetupInv

\* The page is opened again: what was being written never is.
LEMMA ReopenStep == ASSUME SetupInv, Reopen PROVE SetupInv'
<1> DEFINE Cut(i) == [taps[i] EXCEPT !.todo = (@ \cup {taps[i].writing}) \ {NoName},
                                     !.writing = NoName]
<1>1. /\ opens < MaxOpens /\ opens' = opens + 1 /\ form' = EmptyForm
      /\ taps' = [i \in DOMAIN taps |-> Cut(i)]
      /\ shown' = stored /\ reads' = {} /\ raced' = FALSE
      /\ onboarded' = [onboarded EXCEPT !.page = onboarded.device]
      /\ stored' = stored
  BY DEF Reopen
<1>2. /\ taps \in Seq(TapRows) /\ Len(taps) <= MaxTaps /\ Len(taps) \in Nat
      /\ DOMAIN taps = 1 .. Len(taps) /\ \A i \in DOMAIN taps : taps[i] \in TapRows
      /\ onboarded \in [page : BOOLEAN, device : BOOLEAN]
  BY DEF SetupInv, TapsHold, FormHolds
<1>3. \A i \in DOMAIN taps :
         /\ Cut(i) \in TapRows /\ Cut(i).asked = taps[i].asked
         /\ Cut(i).todo = (taps[i].todo \cup {taps[i].writing}) \ {NoName}
         /\ Cut(i).writing = NoName
  BY <1>2 DEF TapRows
<1> HIDE DEF Cut
<1>4. /\ taps' \in Seq(TapRows) /\ Len(taps') = Len(taps) /\ DOMAIN taps' = DOMAIN taps
      /\ \A i \in DOMAIN taps : taps'[i] = Cut(i)
  BY <1>1, <1>2, <1>3
<1>5. \A i \in DOMAIN taps' : OnItsWay(i)'
  <2> SUFFICES ASSUME NEW i \in DOMAIN taps, NEW n \in taps[i].asked
               PROVE  n \in Cut(i).todo \/ [name |-> n, from |-> i] \in stored
    BY <1>1, <1>3, <1>4 DEF OnItsWay
  <2>1. n # NoName
    BY <1>2, SetupAssumption DEF TapRows, Names
  <2>2. n \in taps[i].todo \/ n = taps[i].writing \/ [name |-> n, from |-> i] \in stored
    BY DEF SetupInv, TapsHold, OnItsWay
  <2> QED
    BY <1>3, <2>1, <2>2
<1>6. \A i \in DOMAIN taps' : Ends(i)' => i \in DOMAIN taps /\ Ends(i)
  <2> SUFFICES ASSUME NEW i \in DOMAIN taps, Cut(i).todo = {} PROVE Ends(i)
    BY <1>4 DEF Ends
  <2>1. NoName \notin taps[i].todo
    BY <1>2, SetupAssumption DEF TapRows, Names
  <2> QED
    BY <1>3, <2>1 DEF Ends
<1>7. /\ onboarded' \in [page : BOOLEAN, device : BOOLEAN]
      /\ onboarded.device => onboarded'.page /\ onboarded'.device
  BY <1>1, <1>2
<1>8. TapsHold'
  BY <1>2, <1>4, <1>5, <1>6, <1>7 DEF SetupInv, TapsHold
<1>9. RowsHold' /\ Caught'
  BY <1>1 DEF SetupInv, RowsHold, Caught, Behind, Arrived
<1>10. FormHolds'
  <2>1. form' \in [step : 0..7, chosen : SUBSET Suggested, bills : SUBSET Bills]
    BY <1>1 DEF EmptyForm
  <2>2. opens' \in 1..MaxOpens
    BY <1>1, SetupAssumption DEF SetupInv, FormHolds
  <2> QED
    BY <1>1, <1>7, <2>1, <2>2 DEF FormHolds
<1> QED
  BY <1>8, <1>9, <1>10 DEF SetupInv

\* The invariant holds of every reachable state.
LEMMA SetupHolds == SetupSpec => []SetupInv
<1>1. SetupInv /\ [SetupNext]_setupVars => SetupInv'
  <2> SUFFICES ASSUME SetupInv, [SetupNext]_setupVars PROVE SetupInv'
    OBVIOUS
  <2>1. CASE UNCHANGED setupVars
    BY <2>1 DEF setupVars, SetupInv, FormHolds, TapsHold, RowsHold, Caught, OnItsWay, Ends,
                Behind, Pending, Arrived
  <2>2. CASE \E i \in DOMAIN taps : Stored(i) \/ Shown(i)
    BY <2>2, StoredStep, ShownStep
  <2>3. CASE Forward \/ Back \/ Answer \/ SkipSetup \/ MarkSetUp
    BY <2>3, QuestionSteps
  <2>4. CASE Finish \/ Arrive \/ SetupHydrated \/ Reopen
    BY <2>4, FinishStep, ArriveStep, HydratedStep, ReopenStep
  <2> QED
    BY <2>1, <2>2, <2>3, <2>4 DEF SetupNext
<1> QED
  BY <1>1, SetupAtFirst, PTL DEF SetupSpec

\* The screen shows what is stored and is told of all of it, and a set-up that has ended has
\* written everything that was asked for and is not offered again (App.tsx:250-275).
THEOREM SetupIsTold == SetupSpec => [](ShownIsStored /\ ScreenCatchesUp /\ SetupIsWhole)
<1>1. SetupInv => ShownIsStored /\ ScreenCatchesUp /\ SetupIsWhole
  <2> SUFFICES ASSUME SetupInv PROVE ShownIsStored /\ ScreenCatchesUp /\ SetupIsWhole
    OBVIOUS
  <2>1. ShownIsStored
    BY DEF SetupInv, RowsHold, ShownIsStored
  <2>2. ScreenCatchesUp
    BY DEF SetupInv, Caught, Behind, Pending, ScreenCatchesUp
  <2>3. SetupIsWhole
    <3> SUFFICES ASSUME NEW i \in DOMAIN taps, Ends(i)
                 PROVE  /\ \A n \in taps[i].asked : [name |-> n, from |-> i] \in stored
                        /\ onboarded.page /\ onboarded.device
      BY DEF SetupIsWhole, Ends
    <3>1. taps[i].asked \subseteq Names /\ NoName \notin Names
      BY TapsAreRows, SetupAssumption DEF SetupInv, Names
    <3>2. OnItsWay(i) /\ onboarded.page /\ onboarded.device
      BY DEF SetupInv, TapsHold
    <3> QED
      BY <3>1, <3>2 DEF OnItsWay, Ends
  <2> QED
    BY <2>1, <2>2, <2>3
<1> QED
  BY <1>1, SetupHolds, PTL

\* What setup keeps is always of its type, and one hydrate at most is under way.
THEOREM SetupKeepsItsTypes == SetupSpec => []SetupTypeOK
<1>1. SetupInv => SetupTypeOK
  <2> SUFFICES ASSUME SetupInv PROVE SetupTypeOK
    OBVIOUS
  <2>1. reads \in SUBSET (SUBSET Categories) /\ Cardinality(reads) <= 1
    <3>1. CASE reads = {}
      BY <3>1, FS_EmptySet
    <3>2. CASE reads # {}
      <4>1. PICK read \in SUBSET stored : reads = {read}
        BY <3>2 DEF SetupInv, RowsHold
      <4>2. Cardinality({read}) = 1
        BY FS_Singleton
      <4> QED
        BY <4>1, <4>2 DEF SetupInv, RowsHold
    <3> QED
      BY <3>1, <3>2
  <2>2. \A i \in DOMAIN taps : /\ taps[i].todo \subseteq Names /\ taps[i].asked \subseteq Names
                               /\ taps[i].writing \in Names \cup {NoName}
    BY TapsAreRows DEF SetupInv
  <2> QED
    BY <2>1, <2>2 DEF SetupInv, FormHolds, RowsHold, SetupTypeOK
<1> QED
  BY <1>1, SetupHolds, PTL

(***************************************************************************)
(* The clock of the ids.                                                   *)
(***************************************************************************)
\* The counter has climbed by less than the length of the burst.
RoomToClimb ==
  /\ TypeOK
  /\ lastMs >= 0 => id = [ms |-> lastMs, count |-> counter]
  /\ lastMs < 0 => lastMs = -1 /\ burst = 0 /\ id.ms = -1
  /\ lastMs >= 0 => burst >= 1
  /\ lastMs >= 0 /\ burst < Size => counter <= StartSize + burst - 2

\* What counting up does: it climbs by one, or wraps to zero.
LEMMA BumpedValue ==
  ASSUME SizeAssumption, counter \in 0..Size - 1
  PROVE  /\ Bumped \in 0..Size - 1
         /\ counter < Size - 1 => Bumped = counter + 1
         /\ counter = Size - 1 => Bumped = 0
<1>1. Size \in Nat /\ Size >= 1
  BY DEF SizeAssumption
<1>2. CASE counter < Size - 1
  BY <1>1, <1>2 DEF Bumped
<1>3. CASE counter = Size - 1
  BY <1>1, <1>3 DEF Bumped
<1> QED
  BY <1>1, <1>2, <1>3

\* RoomToClimb holds in every reachable state of the clock.
THEOREM ClimbInvariant == Spec => []RoomToClimb
<1> USE SizeAssumption, TimeAssumption DEF SizeAssumption, TimeAssumption
<1>1. Init => RoomToClimb
  BY DEF Init, RoomToClimb, TypeOK, Id
<1>2. RoomToClimb /\ [Next]_vars => RoomToClimb'
  <2> SUFFICES ASSUME RoomToClimb, [Next]_vars
               PROVE  RoomToClimb'
    OBVIOUS
  <2>0. /\ Bumped \in 0..Size - 1
        /\ counter < Size - 1 => Bumped = counter + 1
        /\ counter = Size - 1 => Bumped = 0
    BY BumpedValue DEF RoomToClimb, TypeOK
  <2>1. CASE Advance
    BY <2>1 DEF Advance, RoomToClimb, TypeOK, Id
  <2>2. CASE SetBack
    BY <2>2 DEF SetBack, RoomToClimb, TypeOK, Id
  <2>3. CASE IssueSameMs
    BY <2>0, <2>3 DEF IssueSameMs, Stamp, CountOne, RoomToClimb, TypeOK, Id
  <2>4. CASE IssueNewMs
    BY <2>4 DEF IssueNewMs, Stamp, RoomToClimb, TypeOK, Id
  <2>5. CASE IssueBehind
    BY <2>0, <2>5 DEF IssueBehind, Stamp, CountOne, RoomToClimb, TypeOK, Id
  <2>6. CASE UNCHANGED vars
    BY <2>6 DEF vars, RoomToClimb, TypeOK, Id
  <2> QED
    BY <2>1, <2>2, <2>3, <2>4, <2>5, <2>6 DEF Next, Issue
<1> QED
  BY <1>1, <1>2, PTL DEF Spec

\* Ids sort in the order they were issued, within the room to climb and whenever
\* the wall clock is not behind (uuidv7).
THEOREM IdsInOrder == Spec => OrderKeptInBurst
<1> USE SizeAssumption, TimeAssumption DEF SizeAssumption, TimeAssumption
<1>1. RoomToClimb /\ [Next]_vars
        => [Issue /\ (clock >= lastMs \/ burst <= Size - StartSize) => Before(id, id')]_vars
  <2> SUFFICES ASSUME RoomToClimb, Issue,
                      clock >= lastMs \/ burst <= Size - StartSize
               PROVE  Before(id, id')
    OBVIOUS
  <2>0. /\ Bumped \in 0..Size - 1
        /\ counter < Size - 1 => Bumped = counter + 1
        /\ counter = Size - 1 => Bumped = 0
    BY BumpedValue DEF RoomToClimb, TypeOK
  <2>1. CASE IssueSameMs
    BY <2>0, <2>1 DEF IssueSameMs, Stamp, RoomToClimb, TypeOK, Id, Before
  <2>2. CASE IssueNewMs
    BY <2>2 DEF IssueNewMs, Stamp, RoomToClimb, TypeOK, Id, Before
  <2>3. CASE IssueBehind
    BY <2>0, <2>3 DEF IssueBehind, Stamp, RoomToClimb, TypeOK, Id, Before
  <2> QED
    BY <2>1, <2>2, <2>3 DEF Issue
<1> QED
  BY <1>1, ClimbInvariant, PTL DEF Spec, OrderKeptInBurst
=============================================================================
