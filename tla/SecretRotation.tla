-------------------------- MODULE SecretRotation --------------------------
(***************************************************************************)
(* Rotation of the HMAC secret two peered instances share.  Either may ask *)
(* the other to rotate, on its admin's request or from its health check;   *)
(* the other stores the new secret as pending and answers, the initiator   *)
(* stores it when it hears the answer.  While a secret is pending both     *)
(* sign with it; a receiver accepts it for a grace period; the health      *)
(* check makes it primary some time after that period.                     *)
(*                                                                         *)
(* Time passes in units of which ROTATION_GRACE_PERIOD_MS is Grace and     *)
(* HEALTH_CHECK_INTERVAL_MS is HealthInterval.  A rotation call, with the  *)
(* wait between the read of the peer's row and its POST, lasts less than a *)
(* unit and less than half the grace period, so the clock moves once       *)
(* during a call at most.  A signed relay is served and answered in one    *)
(* step.                                                                   *)
(***************************************************************************)
EXTENDS Naturals

CONSTANTS
  Here, There,           \* the two instances
  NoSecret,              \* a NULL pending_hmac_secret
  Grace,                 \* ROTATION_GRACE_PERIOD_MS
  HealthInterval,        \* HEALTH_CHECK_INTERVAL_MS
  AuthFailureThreshold,  \* AUTH_FAILURE_THRESHOLD
  MaxRotations,          \* bound: secrets generated after the first
  MaxRestarts            \* bound: process restarts

ASSUME RotationAssumption ==
  /\ Here # There
  /\ NoSecret \notin Nat
  /\ Grace \in Nat \ {0, 1}
  /\ HealthInterval \in Nat \ {0}
  /\ AuthFailureThreshold \in Nat \ {0}
  /\ MaxRotations \in Nat
  /\ MaxRestarts \in Nat

Instances == {Here, There}

Other(i) == IF i = Here THEN There ELSE Here

Secrets == 0 .. MaxRotations

VARIABLES
  primary,       \* hmac_secret of each instance's row about the other
  pending,       \* pending_hmac_secret
  age,           \* time since secret_rotation_at, counted up to Grace + 1
  status,        \* the status of the row
  authFailures,  \* consecutive_auth_failures of the row
  nextCheck,     \* time until the instance's next health check
  calls,         \* rotation calls: requests under way and unread answers
  minted,        \* secrets generated so far
  restarts,      \* process restarts so far
  broken         \* history: an answer was lost, or two rotations crossed

row == <<primary, pending, age>>
trust == <<status, authFailures>>
vars == <<primary, pending, age, status, authFailures, nextCheck, calls,
          minted, restarts, broken>>

\* "heard": the caller still waits.  "old": the clock moved since the call began.
Call == [from : Instances, key : Secrets, secret : Secrets,
         phase : {"sent", "accepted", "refused"},
         heard : BOOLEAN, old : BOOLEAN]

TypeOK ==
  /\ primary \in [Instances -> Secrets]
  /\ pending \in [Instances -> Secrets \cup {NoSecret}]
  /\ age \in [Instances -> 0 .. Grace + 1]
  /\ status \in [Instances -> {"active", "needs_attention"}]
  /\ authFailures \in [Instances -> 0 .. AuthFailureThreshold]
  /\ nextCheck \in [Instances -> 0 .. HealthInterval]
  /\ calls \subseteq Call
  /\ minted \in Secrets
  /\ restarts \in 0 .. MaxRestarts
  /\ broken \in BOOLEAN

Init ==
  /\ primary = [i \in Instances |-> 0]
  /\ pending = [i \in Instances |-> NoSecret]
  /\ age = [i \in Instances |-> 0]
  /\ status = [i \in Instances |-> "active"]
  /\ authFailures = [i \in Instances |-> 0]
  /\ nextCheck \in [Instances -> 0 .. HealthInterval]
  /\ calls = {}
  /\ minted = 0
  /\ restarts = 0
  /\ broken = FALSE

-----------------------------------------------------------------------------
(* Signing and verifying.                                                  *)

SigningKey(i) == IF pending[i] # NoSecret THEN pending[i] ELSE primary[i]

\* verifyPeerSignature: the primary secret always, the pending one in its grace
\* period.
Accepts(i, key) ==
  \/ key = primary[i]
  \/ key = pending[i] /\ age[i] <= Grace

\* authenticateS2SPeer lets i's request in.
LetIn(i, key) == status[Other(i)] = "active" /\ Accepts(Other(i), key)

-----------------------------------------------------------------------------
(* The rotation protocol.                                                  *)

\* POST /peers/:id/rotate, or the auto-rotation of a health check: the request
\* is signed with the primary secret of the row read before the POST.
InitiateRotation(i) ==
  /\ status[i] = "active"
  /\ pending[i] = NoSecret
  /\ minted < MaxRotations
  /\ minted' = minted + 1
  /\ calls' = calls \cup {[from |-> i, key |-> primary[i], secret |-> minted + 1,
                           phase |-> "sent", heard |-> TRUE, old |-> FALSE]}
  /\ UNCHANGED <<row, trust, nextCheck, restarts, broken>>

\* The secret i stores as pending, from now on.
StorePending(i, secret) ==
  /\ pending' = [pending EXCEPT ![i] = secret]
  /\ age' = [age EXCEPT ![i] = 0]
  /\ UNCHANGED primary

\* POST /peer/rotate at the other instance: 403, 401, 409 or 200.
ServeRotation(c) ==
  /\ c.phase = "sent"
  /\ IF LetIn(c.from, c.key) /\ pending[Other(c.from)] = NoSecret
     THEN /\ StorePending(Other(c.from), c.secret)
          /\ broken' = (broken \/ ~ c.heard)
          /\ calls' = (calls \ {c})
               \cup {d \in {[c EXCEPT !.phase = "accepted"]} : c.heard}
     ELSE /\ calls' = (calls \ {c})
               \cup {d \in {[c EXCEPT !.phase = "refused"]} : c.heard}
          /\ UNCHANGED <<row, broken>>
  /\ UNCHANGED <<trust, nextCheck, minted, restarts>>

\* The initiator hears the answer and stores the secret if it was accepted,
\* whatever its row holds by now.
HearAnswer(c) ==
  /\ c.heard
  /\ calls' = calls \ {c}
  /\ \/ /\ c.phase = "accepted"
        /\ broken' = (broken \/ pending[c.from] # NoSecret)
        /\ StorePending(c.from, c.secret)
     \/ /\ c.phase = "refused"
        /\ UNCHANGED <<row, broken>>
  /\ UNCHANGED <<trust, nextCheck, minted, restarts>>

\* What is left of the calls that i no longer waits for: a request that was not
\* served may still be.
Unheard(abandoned) ==
  (calls \ abandoned)
    \cup {[c EXCEPT !.heard = FALSE] : c \in {d \in abandoned : d.phase = "sent"}}

LosesAnswer(abandoned) == \E c \in abandoned : c.phase = "accepted"

\* The call times out or fails: nothing is stored.
AbandonCall(c) ==
  /\ c.heard
  /\ calls' = Unheard({c})
  /\ broken' = (broken \/ LosesAnswer({c}))
  /\ UNCHANGED <<row, trust, nextCheck, minted, restarts>>

\* Timers start afresh with the process; calls are forgotten.
Restart(i) ==
  /\ restarts < MaxRestarts
  /\ restarts' = restarts + 1
  /\ nextCheck' = [nextCheck EXCEPT ![i] = HealthInterval]
  /\ LET own == {c \in calls : c.from = i /\ c.heard}
     IN  /\ calls' = Unheard(own)
         /\ broken' = (broken \/ LosesAnswer(own))
  /\ UNCHANGED <<row, trust, minted>>

-----------------------------------------------------------------------------
(* Time.                                                                   *)

\* Mutant of HealthCheck: the pending secret is dropped, not promoted.
DropPending(i) ==
  /\ nextCheck[i] = 0
  /\ nextCheck' = [nextCheck EXCEPT ![i] = HealthInterval]
  /\ IF pending[i] # NoSecret /\ age[i] > Grace
     THEN /\ pending' = [pending EXCEPT ![i] = NoSecret]
          /\ age' = [age EXCEPT ![i] = 0]
          /\ UNCHANGED primary
     ELSE UNCHANGED row
  /\ UNCHANGED <<trust, calls, minted, restarts, broken>>

\* Mutant of HealthCheck: the grace period is not waited for.
EarlyPromotion(i) ==
  /\ nextCheck[i] = 0
  /\ nextCheck' = [nextCheck EXCEPT ![i] = HealthInterval]
  /\ IF pending[i] # NoSecret
     THEN /\ primary' = [primary EXCEPT ![i] = pending[i]]
          /\ pending' = [pending EXCEPT ![i] = NoSecret]
          /\ age' = [age EXCEPT ![i] = 0]
     ELSE UNCHANGED row
  /\ UNCHANGED <<trust, calls, minted, restarts, broken>>

\* Mutant of HealthCheck: only active peers are finalized.
PromoteIfActive(i) ==
  /\ nextCheck[i] = 0
  /\ nextCheck' = [nextCheck EXCEPT ![i] = HealthInterval]
  /\ IF pending[i] # NoSecret /\ age[i] > Grace /\ status[i] = "active"
     THEN /\ primary' = [primary EXCEPT ![i] = pending[i]]
          /\ pending' = [pending EXCEPT ![i] = NoSecret]
          /\ age' = [age EXCEPT ![i] = 0]
     ELSE UNCHANGED row
  /\ UNCHANGED <<trust, calls, minted, restarts, broken>>

\* The first part of processHealthCheckTick: a pending secret past its grace
\* period becomes the primary one.
HealthCheck(i) ==
  /\ nextCheck[i] = 0
  /\ nextCheck' = [nextCheck EXCEPT ![i] = HealthInterval]
  /\ IF pending[i] # NoSecret /\ age[i] > Grace
     THEN /\ primary' = [primary EXCEPT ![i] = pending[i]]
          /\ pending' = [pending EXCEPT ![i] = NoSecret]
          /\ age' = [age EXCEPT ![i] = 0]
     ELSE UNCHANGED row
  /\ UNCHANGED <<trust, calls, minted, restarts, broken>>

\* The clock moves once every due check was made; no call outlives two moves.
Tick ==
  /\ \A i \in Instances : nextCheck[i] > 0
  /\ ~ \E c \in calls : c.heard /\ c.old
  /\ nextCheck' = [i \in Instances |-> nextCheck[i] - 1]
  /\ age' = [i \in Instances |->
               IF pending[i] # NoSecret /\ age[i] <= Grace
               THEN age[i] + 1 ELSE age[i]]
  /\ calls' = {[c EXCEPT !.old = TRUE] : c \in {d \in calls : ~ d.old}}
  /\ UNCHANGED <<primary, pending, trust, minted, restarts, broken>>

-----------------------------------------------------------------------------
(* Traffic.                                                                *)

\* Mutant of Relay: trust is lost one failure after the threshold.
LateTransition(i) ==
  /\ status[i] = "active"
  /\ IF LetIn(i, SigningKey(i))
     THEN /\ authFailures' = [authFailures EXCEPT ![i] = 0]
          /\ UNCHANGED status
     ELSE /\ authFailures' = [authFailures EXCEPT ![i] = authFailures[i] + 1]
          /\ status' = IF authFailures[i] >= AuthFailureThreshold
                       THEN [status EXCEPT ![i] = "needs_attention"]
                       ELSE status
  /\ UNCHANGED <<row, nextCheck, calls, minted, restarts, broken>>

\* One POST /relay of i's outbox worker.
Relay(i) ==
  /\ status[i] = "active"
  /\ IF LetIn(i, SigningKey(i))
     THEN /\ authFailures' = [authFailures EXCEPT ![i] = 0]
          /\ UNCHANGED status
     ELSE /\ authFailures' = [authFailures EXCEPT ![i] = authFailures[i] + 1]
          /\ status' = IF authFailures[i] + 1 >= AuthFailureThreshold
                       THEN [status EXCEPT ![i] = "needs_attention"]
                       ELSE status
  /\ UNCHANGED <<row, nextCheck, calls, minted, restarts, broken>>

Next ==
  \/ \E i \in Instances : \/ InitiateRotation(i)
                          \/ HealthCheck(i)
                          \/ Restart(i)
                          \/ Relay(i)
  \/ \E c \in calls : \/ ServeRotation(c)
                      \/ HearAnswer(c)
                      \/ AbandonCall(c)
  \/ Tick

Spec == Init /\ [][Next]_vars

(* Clocks run, health checks are rearmed, and every call ends within its    *)
(* timeout.  Nothing obliges anyone to rotate, relay or restart.            *)
Fairness ==
  /\ WF_vars(Tick)
  /\ \A i \in Instances : WF_vars(HealthCheck(i))
  /\ WF_vars(\E c \in calls : HearAnswer(c) \/ AbandonCall(c))

FairSpec == Spec /\ Fairness

-----------------------------------------------------------------------------
(* Properties.                                                             *)

\* The other side took i's new secret and i does not know yet.
Answering(i) == \E c \in calls : c.from = i /\ c.phase = "accepted"

\* i no longer accepts its pending secret and has not made it primary.
GraceOver(i) == pending[i] # NoSecret /\ age[i] > Grace

\* What one side signs the other accepts, through rotations in both directions,
\* restarts and health checks at any time, except in two windows: between a
\* rotation's acceptance and its answer, and between the end of the grace period
\* and the health check that follows it.  A lost answer, and two accepted
\* rotations that cross, void the guarantee.
UnderstoodOutsideWindows ==
  broken \/ \A i \in Instances : \/ Accepts(Other(i), SigningKey(i))
                                 \/ Answering(Other(i))
                                 \/ GraceOver(Other(i))

\* A secret becomes pending anywhere only while both sides have the same primary
\* one: no rotation starts on top of a rotation that one side has not finalized.
RotationsFollowOneAnother ==
  [][\A i \in Instances :
       pending[i] = NoSecret /\ pending'[i] # NoSecret
         => broken \/ primary[Here] = primary[There]]_vars

\* A refusal caused by a rotation never lasts: each side is understood again
\* and again, whether or not rotations go on.
UnderstoodAgain ==
  \A i \in Instances : []<>(broken \/ Accepts(Other(i), SigningKey(i)))

-----------------------------------------------------------------------------
(* What a comment claims and the code does not keep.                       *)

\* "guarantees a finalization tick fires within one grace window on each side,
\* so rotation desync can't outlast the window and trip spurious auth failures
\* on the other peer": between sides that trust each other, with no rotation call
\* under way and no answer ever lost, no relay counts as an auth failure.
NoSpuriousAuthFailure ==
  [][\A i \in Instances :
       /\ authFailures'[i] > authFailures[i]
       /\ \A j \in Instances : status[j] = "active"
       => broken \/ calls # {}]_vars
=============================================================================
