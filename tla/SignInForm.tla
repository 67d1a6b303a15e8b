----------------------------- MODULE SignInForm -----------------------------
(***************************************************************************)
(* The sign-in screen (features/auth/AuthScreen.tsx, google.ts): a phone   *)
(* number and the code texted to it, or Google, which calls back when it   *)
(* likes.  The requests are async, one flag says that one is under way,    *)
(* and the box of the privacy notice can be ticked and unticked at any     *)
(* time.  What the server does with a code is in OtpCodes.                 *)
(***************************************************************************)
EXTENDS Naturals, FiniteSets

CONSTANTS
  MaxSent,       \* bound: codes sent
  MaxRequests,   \* bound: requests under way at once
  MaxTicks       \* bound: changes of the box

ASSUME SignInAssumption ==
  MaxSent \in Nat \ {0} /\ MaxRequests \in Nat \ {0} /\ MaxTicks \in Nat

VARIABLES
  screen,    \* the state of the component
  requests,  \* the requests under way
  texted,    \* the challenges the server has issued, in their order: 1..texted
  google,    \* Google's part of the page
  outcome,   \* the sign-ins reported, and whether a consent is on record
  ticks,     \* the changes of the box so far
  barged     \* history: a request was made although another was under way

signInVars == <<screen, requests, texted, google, outcome, ticks, barged>>

\* A request to send a code; to check one, for a challenge and with the digits of another;
\* Google's token.  A code that is sent is known by its challenge.
Requests ==
  [kind : {"send", "verify", "google"}, challenge : 0..MaxSent, typed : 0..MaxSent, id : 1..MaxRequests]

\* Types; the code is asked for only once a challenge is known, and a request that is under
\* way shows as busy unless it barged in.
SignInTypeOK ==
  /\ screen \in [stage : {"choose", "phone", "code"}, accepted : BOOLEAN, busy : BOOLEAN,
                 challenge : 0..MaxSent, digits : 0..MaxSent, cooling : BOOLEAN]
  /\ requests \subseteq Requests /\ texted \in 0..MaxSent
  /\ google \in {"button", "opening", "chooser", "fallback", "gone"}
  /\ outcome \in [signedIn : 0..MaxRequests, consent : BOOLEAN]
  /\ ticks \in 0..MaxTicks /\ barged \in BOOLEAN
  /\ requests # {} => screen.busy \/ barged
  /\ screen.stage = "code" => screen.challenge # 0

SignInInit ==
  /\ screen = [stage |-> "choose", accepted |-> FALSE, busy |-> FALSE,
               challenge |-> 0, digits |-> 0, cooling |-> FALSE]
  /\ requests = {} /\ texted = 0 /\ google = "button"
  /\ outcome = [signedIn |-> 0, consent |-> FALSE]
  /\ ticks = 0 /\ barged = FALSE

Tick ==
  /\ ticks < MaxTicks
  /\ ticks' = ticks + 1
  /\ screen' = [screen EXCEPT !.accepted = ~ @]
  /\ UNCHANGED <<requests, texted, google, outcome, barged>>

\* Variant: the buttons fire whether or not the box is ticked.
GateOpen == TRUE

\* gate
Gate == screen.accepted

\* A request joins those under way.
Requested(kind, challenge, typed) ==
  \E id \in 1..MaxRequests :
    /\ \A r \in requests : r.id # id
    /\ requests' = requests \cup {[kind |-> kind, challenge |-> challenge, typed |-> typed, id |-> id]}

-----------------------------------------------------------------------------
(* The number. *)

\* Google's own button is drawn once: it is gone when this part of the screen is left.
OpenPhone ==
  /\ screen.stage = "choose" /\ Gate
  /\ screen' = [screen EXCEPT !.stage = "phone"]
  /\ google' = IF google = "fallback" THEN "gone" ELSE google
  /\ UNCHANGED <<requests, texted, outcome, ticks, barged>>

\* "More sign-in options", "Change number".
GoBack ==
  /\ screen.stage # "choose"
  /\ screen' = [screen EXCEPT !.stage = IF @ = "code" THEN "phone" ELSE "choose"]
  /\ UNCHANGED <<requests, texted, google, outcome, ticks, barged>>

Sending ==
  /\ Gate
  /\ screen' = [screen EXCEPT !.busy = TRUE]
  /\ Requested("send", 0, 0)
  /\ UNCHANGED <<texted, google, outcome, ticks>>

\* Variant: the buttons are not disabled while a request is under way.
SendTapAnyTime ==
  /\ screen.stage = "phone" \/ (screen.stage = "code" /\ ~ screen.cooling)
  /\ Sending /\ UNCHANGED barged

\* "Send code", "Resend code".
SendTap ==
  /\ ~ screen.busy
  /\ screen.stage = "phone" \/ (screen.stage = "code" /\ ~ screen.cooling)
  /\ Sending /\ UNCHANGED barged

\* Enter in the number's box: nothing asks whether a request is under way.
SendByEnter ==
  /\ screen.stage = "phone"
  /\ Sending
  /\ barged' = (barged \/ screen.busy)

\* The server sends a code; its answer is on the way.
Texted(r) ==
  /\ r.kind = "send" /\ r.challenge = 0 /\ texted < MaxSent
  /\ texted' = texted + 1
  /\ requests' = (requests \ {r}) \cup {[r EXCEPT !.challenge = texted + 1]}
  /\ UNCHANGED <<screen, google, outcome, ticks, barged>>

\* Variant: the challenge is not kept.
SendAnsweredBlind(r) ==
  /\ r.kind = "send" /\ r.challenge # 0
  /\ requests' = requests \ {r}
  /\ screen' = [screen EXCEPT !.digits = 0, !.cooling = TRUE, !.stage = "code", !.busy = FALSE]
  /\ UNCHANGED <<texted, google, outcome, ticks, barged>>

SendAnswered(r) ==
  /\ r.kind = "send" /\ r.challenge # 0
  /\ requests' = requests \ {r}
  /\ screen' = [screen EXCEPT !.challenge = r.challenge, !.digits = 0, !.cooling = TRUE,
                              !.stage = "code", !.busy = FALSE]
  /\ UNCHANGED <<texted, google, outcome, ticks, barged>>

\* Refused, or the answer is lost.
SendFailed(r) ==
  /\ r.kind = "send"
  /\ requests' = requests \ {r}
  /\ screen' = [screen EXCEPT !.busy = FALSE]
  /\ UNCHANGED <<texted, google, outcome, ticks, barged>>

CooledDown ==
  /\ screen.cooling
  /\ screen' = [screen EXCEPT !.cooling = FALSE]
  /\ UNCHANGED <<requests, texted, google, outcome, ticks, barged>>

-----------------------------------------------------------------------------
(* The code. *)

\* Variant: what is typed is checked although a check is under way.
VerifyAgain(code) ==
  /\ screen' = [screen EXCEPT !.digits = code, !.busy = TRUE]
  /\ Requested("verify", screen.challenge, code)

\* verify: not while the screen is busy.  The digits stay.
Verify(code) ==
  /\ screen' = [screen EXCEPT !.digits = code, !.busy = TRUE]
  /\ IF screen.busy THEN UNCHANGED requests ELSE Requested("verify", screen.challenge, code)

\* The sixth digit, a paste, or the button.
TypeCode(code) ==
  /\ screen.stage = "code"
  /\ Verify(code)
  /\ UNCHANGED <<texted, google, outcome, ticks, barged>>

\* recordConsent, onSignedIn
Reported == outcome' = [signedIn |-> outcome.signedIn + 1, consent |-> TRUE]

\* The right digits for the challenge.
VerifyAnswered(r) ==
  /\ r.kind = "verify" /\ r.typed = r.challenge
  /\ outcome.signedIn < MaxRequests /\ Reported
  /\ requests' = requests \ {r}
  /\ screen' = [screen EXCEPT !.busy = FALSE]
  /\ UNCHANGED <<texted, google, ticks, barged>>

\* The wrong ones, or too late, or no answer.
VerifyFailed(r) ==
  /\ r.kind = "verify"
  /\ requests' = requests \ {r}
  /\ screen' = [screen EXCEPT !.busy = FALSE, !.digits = 0]
  /\ UNCHANGED <<texted, google, outcome, ticks, barged>>

-----------------------------------------------------------------------------
(* Google. *)

\* startGoogle until its await.
StartGoogle ==
  /\ screen.stage = "choose" /\ google \in {"button", "opening", "chooser"} /\ Gate
  /\ google' = "opening"
  /\ UNCHANGED <<screen, requests, texted, outcome, ticks, barged>>

\* The chooser is shown, or the browser refuses and Google's own button takes its place.
Prompted ==
  /\ google = "opening"
  /\ google' \in {"chooser", IF screen.stage = "choose" THEN "fallback" ELSE "gone"}
  /\ UNCHANGED <<screen, requests, texted, outcome, ticks, barged>>

\* The callback: the gate was asked when the chooser was opened, Google's button asks nothing.
GoogleToken ==
  /\ google \in {"opening", "chooser", "fallback"}
  /\ screen' = [screen EXCEPT !.busy = TRUE]
  /\ Requested("google", 0, 0)
  /\ barged' = (barged \/ screen.busy)
  /\ UNCHANGED <<texted, google, outcome, ticks>>

\* The screen stays busy.
GoogleAnswered(r) ==
  /\ r.kind = "google"
  /\ outcome.signedIn < MaxRequests /\ Reported
  /\ requests' = requests \ {r}
  /\ UNCHANGED <<screen, texted, google, ticks, barged>>

GoogleFailed(r) ==
  /\ r.kind = "google"
  /\ requests' = requests \ {r}
  /\ screen' = [screen EXCEPT !.busy = FALSE]
  /\ UNCHANGED <<texted, google, outcome, ticks, barged>>

SignInNext ==
  \/ Tick \/ OpenPhone \/ GoBack \/ SendTap \/ SendByEnter \/ CooledDown
  \/ \E code \in 1..texted : TypeCode(code)
  \/ StartGoogle \/ Prompted \/ GoogleToken
  \/ \E r \in requests : \/ Texted(r) \/ SendAnswered(r) \/ SendFailed(r)
                         \/ VerifyAnswered(r) \/ VerifyFailed(r)
                         \/ GoogleAnswered(r) \/ GoogleFailed(r)

SignInSpec == SignInInit /\ [][SignInNext]_signInVars

-----------------------------------------------------------------------------
(* Properties. *)

\* Nobody is signed in, and no consent recorded, before the box was ticked, whatever Google
\* and the requests do meanwhile (AuthScreen.tsx:60-69).
ConsentWasTicked == outcome.signedIn # 0 \/ outcome.consent => ticks # 0

\* The screen makes one request at a time, unless by Enter or by Google's callback.
OneRequest == barged \/ Cardinality(requests) <= 1

\* A late answer does not bring back an older challenge, whose code no longer counts, unless
\* a second request was sent with Enter.
ChallengeNeverGoesBack == barged' \/ screen'.challenge >= screen.challenge

\* A sign-in is orderly: every step leaves a screen that had consent before it acted and has
\* one request under way, and none takes it back to an older code.
SignInIsOrderly ==
  [][ConsentWasTicked' /\ OneRequest' /\ ChallengeNeverGoesBack]_signInVars

\* Violated.  AuthScreen.tsx:65-68: "the screen is perfectly usable while it is off; the
\* sign-in buttons just do not fire".
ConsentStands == [][outcome' # outcome => screen.accepted]_<<outcome, screen>>
=============================================================================
