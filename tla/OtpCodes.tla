------------------------------ MODULE OtpCodes ------------------------------
(***************************************************************************)
(* OtpService over its store: sending codes within limits, and verifying   *)
(* them.  Every store call is awaited, so requests interleave between a    *)
(* count and the record of the send, and between the read of a challenge   *)
(* and the two writes that count the attempt and consume the code.  The    *)
(* service keeps a copy of the challenge across its awaits and writes the  *)
(* whole copy back.                                                        *)
(***************************************************************************)
EXTENDS Naturals, FiniteSets

CONSTANTS
  Senders,      \* POST otp/send requests that may be in flight together
  Verifiers,    \* POST otp/verify requests that may be in flight together
  Limits,       \* what sends are counted by, in order: 1 target, 2 address, 3 the day
  LimitOf,      \* sends allowed within the window of each
  MaxAttempts,  \* OtpOptions.maxAttempts
  MaxCodes      \* bound: challenges

ASSUME OtpAssumption ==
  /\ IsFiniteSet(Senders) /\ IsFiniteSet(Limits)
  /\ Limits # {} /\ Limits = 1 .. Cardinality(Limits) /\ LimitOf \in [Limits -> Nat \ {0}]
  /\ MaxAttempts \in Nat \ {0} /\ MaxCodes \in Nat

VARIABLES
  challenges,    \* the store, by challenge
  sent,          \* sends on record within the window of each limit
  senders, verifiers,
  accepted,      \* history: times each code was accepted
  tried,         \* history: guesses answered for each challenge
  otpOverlapped  \* history: challenges that two verifications handled at once
otpVars == <<challenges, sent, senders, verifiers, accepted, tried, otpOverlapped>>

Codes   == 1 .. MaxCodes
NoCode  == [attempts |-> 0, consumed |-> FALSE, expired |-> FALSE, stored |-> FALSE]
Kept(n) == challenges[n].stored

IdleSender   == [pc |-> "idle", limit |-> 0]
IdleVerifier == [pc |-> "idle", code |-> 0, right |-> FALSE, copy |-> NoCode]

OtpInit ==
  /\ challenges = [n \in Codes |-> NoCode]
  /\ sent = [l \in Limits |-> 0]
  /\ senders = [s \in Senders |-> IdleSender]
  /\ verifiers = [v \in Verifiers |-> IdleVerifier]
  /\ accepted = [n \in Codes |-> 0] /\ tried = [n \in Codes |-> 0]
  /\ otpOverlapped = {}

(***************************************************************************)
(* send: count by every limit, then put the challenge, then record it.     *)
(***************************************************************************)
SenderStep(s, pc, limit) == senders' = [senders EXCEPT ![s] = [pc |-> pc, limit |-> limit]]

BeginOtp(s) ==
  /\ senders[s].pc = "idle"
  /\ \E n \in Codes : ~ Kept(n)
  /\ SenderStep(s, "count", 1)
  /\ UNCHANGED <<challenges, sent, verifiers, accepted, tried, otpOverlapped>>

\* Variant: off by one.
ReachedLate(l) == sent[l] > LimitOf[l]

Reached(l) == sent[l] >= LimitOf[l]

CountSends(s) ==
  /\ senders[s].pc = "count"
  /\ LET l == senders[s].limit
     IN IF Reached(l) THEN SenderStep(s, "idle", 0)
        ELSE IF l + 1 \in Limits THEN SenderStep(s, "count", l + 1)
        ELSE SenderStep(s, "put", l)
  /\ UNCHANGED <<challenges, sent, verifiers, accepted, tried, otpOverlapped>>

PutChallenge(s) ==
  /\ senders[s].pc = "put"
  /\ \E n \in Codes :
       /\ ~ Kept(n) /\ \A m \in Codes : m < n => Kept(m)
       /\ challenges' = [challenges EXCEPT ![n] = [NoCode EXCEPT !.stored = TRUE]]
  /\ SenderStep(s, "record", senders[s].limit)
  /\ UNCHANGED <<sent, verifiers, accepted, tried, otpOverlapped>>

RecordSend(s) ==
  /\ senders[s].pc = "record"
  /\ sent' = [l \in Limits |-> sent[l] + 1]
  /\ SenderStep(s, "idle", 0)
  /\ UNCHANGED <<challenges, verifiers, accepted, tried, otpOverlapped>>

\* The window slides past a send, or a new day begins.
Slide(l) ==
  /\ sent[l] > 0
  /\ sent' = [sent EXCEPT ![l] = @ - 1]
  /\ UNCHANGED <<challenges, senders, verifiers, accepted, tried, otpOverlapped>>

(***************************************************************************)
(* verify: read and check, count the attempt, compare, consume.            *)
(***************************************************************************)
Verifying(n) == {v \in Verifiers : verifiers[v].pc # "idle" /\ verifiers[v].code = n}

Usable(c) == ~ c.consumed /\ ~ c.expired /\ c.attempts < MaxAttempts

\* The read, whose checks end the request when they fail.
GetChallenge(v, n, right) ==
  /\ verifiers[v].pc = "idle" /\ Kept(n) /\ Usable(challenges[n])
  /\ verifiers' = [verifiers EXCEPT ![v] =
       [pc |-> "attempt", code |-> n, right |-> right,
        copy |-> [challenges[n] EXCEPT !.attempts = @ + 1]]]
  /\ otpOverlapped' = IF Verifying(n) = {} THEN otpOverlapped ELSE otpOverlapped \cup {n}
  /\ UNCHANGED <<challenges, sent, senders, accepted, tried>>

\* Variant: an update that writes the attempts alone.
UpdateAttempts(v) ==
  challenges' = [challenges EXCEPT ![verifiers[v].code].attempts = verifiers[v].copy.attempts]

\* update: the whole copy is written; what time did to the row is kept (KEEPTTL).
Update(v) ==
  LET n == verifiers[v].code
  IN challenges' = [challenges EXCEPT ![n] =
       [verifiers[v].copy EXCEPT !.expired = challenges[n].expired]]

\* (The histories say nothing of codes that two requests handled at once.)
Counted(history, n) ==
  IF n \in otpOverlapped THEN history ELSE [history EXCEPT ![n] = @ + 1]

CountAttempt(v) ==
  /\ verifiers[v].pc = "attempt"
  /\ Update(v)
  /\ verifiers' = [verifiers EXCEPT ![v] =
       IF @.right THEN [@ EXCEPT !.pc = "consume", !.copy.consumed = TRUE]
       ELSE IdleVerifier]
  /\ tried' = Counted(tried, verifiers[v].code)
  /\ UNCHANGED <<sent, senders, accepted, otpOverlapped>>

Consume(v) ==
  /\ verifiers[v].pc = "consume"
  /\ Update(v)
  /\ verifiers' = [verifiers EXCEPT ![v] = IdleVerifier]
  /\ accepted' = Counted(accepted, verifiers[v].code)
  /\ UNCHANGED <<sent, senders, tried, otpOverlapped>>

OtpExpire(n) ==
  /\ Kept(n) /\ ~ challenges[n].expired
  /\ challenges' = [challenges EXCEPT ![n].expired = TRUE]
  /\ UNCHANGED <<sent, senders, verifiers, accepted, tried, otpOverlapped>>

OtpNext ==
  \/ \E s \in Senders : BeginOtp(s) \/ CountSends(s) \/ PutChallenge(s) \/ RecordSend(s)
  \/ \E v \in Verifiers, n \in Codes, right \in BOOLEAN : GetChallenge(v, n, right)
  \/ \E v \in Verifiers : CountAttempt(v) \/ Consume(v)
  \/ \E l \in Limits : Slide(l)
  \/ \E n \in Codes : OtpExpire(n)

OtpSpec == OtpInit /\ [][OtpNext]_otpVars

(***************************************************************************)
(* Properties.                                                             *)
(***************************************************************************)
\* The store holds counted attempts, and a request past its checks holds a stored challenge.
OtpTypeOK ==
  /\ challenges \in [Codes -> [attempts : 0 .. MaxAttempts, consumed : BOOLEAN,
                                expired : BOOLEAN, stored : BOOLEAN]]
  /\ sent \in [Limits -> Nat] /\ otpOverlapped \subseteq Codes
  /\ \A s \in Senders :
       senders[s].limit \in IF senders[s].pc = "idle" THEN {0} ELSE Limits
  /\ \A v \in Verifiers :
       verifiers[v].pc # "idle" => Kept(verifiers[v].code) /\ verifiers[v].copy.attempts > 0
  /\ accepted \in [Codes -> Nat] /\ tried \in [Codes -> Nat]

\* A code is accepted once and guessed at most MaxAttempts times, as long as no two
\* requests verify it at once (otp.service.ts:131-158).
SerialCodeSingleUse ==
  \A n \in Codes \ otpOverlapped : accepted[n] <= 1 /\ tried[n] <= MaxAttempts

Sending == {s \in Senders : senders[s].pc \in {"put", "record"}}

\* Requests in flight together can each pass a count before the others are recorded,
\* and no more than that: a limit is passed by fewer sends than there are requests
\* at once, and the next request finds it reached (otp.service.ts:100-129).
OvershootBounded ==
  \A l \in Limits : sent[l] + Cardinality(Sending) < LimitOf[l] + Cardinality(Senders)

\* A code opens the door once, and there are only so many codes and guesses
\* (otp.service.ts:100-158).
CodesAreLimited == SerialCodeSingleUse /\ OvershootBounded
=============================================================================
