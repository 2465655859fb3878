----------------------- MODULE SecretRotationProofs -----------------------
(***************************************************************************)
(* Machine-checked safety of SecretRotation, for every grace period, every *)
(* health check interval, every threshold and any number of rotations and  *)
(* restarts: unless an answer is lost or two rotations cross, the sides    *)
(* understand each other outside the two windows, and rotations follow one *)
(* another.                                                                *)
(***************************************************************************)
EXTENDS SecretRotation, TLAPS

\* The other side's other side.
LEMMA OtherSide ==
  ASSUME NEW i \in Instances
  PROVE  /\ Other(i) \in Instances
         /\ Other(i) # i
         /\ Other(Other(i)) = i
         /\ \A j \in Instances : j = i \/ j = Other(i)
BY RotationAssumption DEF Instances, Other

\* No secret of the protocol is the NULL of the column.
LEMMA SecretsAreNotNull == \A x \in Secrets : x # NoSecret
BY RotationAssumption DEF Secrets

-----------------------------------------------------------------------------
(* Types.                                                                  *)

\* The calls left after some were abandoned are calls.
LEMMA UnheardType ==
  ASSUME calls \subseteq Call, NEW abandoned \in SUBSET calls
  PROVE  Unheard(abandoned) \subseteq Call
BY DEF Unheard, Call

\* A side that still trusts the other has not reached the threshold.
BelowThreshold ==
  \A i \in Instances :
    status[i] = "active" => authFailures[i] < AuthFailureThreshold

\* Rows, counters, clocks and calls keep their types, and no counter of auth
\* failures passes the threshold.
THEOREM TypeCorrect == Spec => [](TypeOK /\ BelowThreshold)
<1>1. Init => TypeOK /\ BelowThreshold
  <2> SUFFICES ASSUME Init
               PROVE  TypeOK /\ BelowThreshold
    OBVIOUS
  <2>1. 0 \in Secrets /\ 0 \in 0 .. Grace + 1 /\ 0 \in 0 .. MaxRestarts
        /\ 0 \in 0 .. AuthFailureThreshold
    BY RotationAssumption DEF Secrets
  <2>2. BelowThreshold
    BY RotationAssumption DEF Init, BelowThreshold
  <2>3. QED
    BY <2>1, <2>2 DEF Init, TypeOK
<1>2. TypeOK /\ BelowThreshold /\ [Next]_vars => BelowThreshold'
  <2> SUFFICES ASSUME TypeOK, BelowThreshold, [Next]_vars
               PROVE  BelowThreshold'
    OBVIOUS
  <2>1. ASSUME NEW i \in Instances, Relay(i)
        PROVE  BelowThreshold'
    BY <2>1, RotationAssumption DEF Relay, TypeOK, BelowThreshold
  <2>2. CASE UNCHANGED trust
    BY <2>2 DEF trust, BelowThreshold
  <2>3. QED
    BY <2>1, <2>2
    DEF Next, InitiateRotation, HealthCheck, Restart, ServeRotation, HearAnswer,
        AbandonCall, Tick, vars, trust
<1>3. TypeOK /\ BelowThreshold /\ [Next]_vars => TypeOK'
  <2> SUFFICES ASSUME TypeOK, BelowThreshold, [Next]_vars
               PROVE  TypeOK'
    OBVIOUS
  <2> USE RotationAssumption DEF TypeOK, row, trust
  <2>1. ASSUME NEW i \in Instances, InitiateRotation(i)
        PROVE  TypeOK'
    <3>1. minted + 1 \in Secrets
      BY <2>1 DEF InitiateRotation, Secrets
    <3>2. [from |-> i, key |-> primary[i], secret |-> minted + 1,
           phase |-> "sent", heard |-> TRUE, old |-> FALSE] \in Call
      BY <3>1 DEF Call
    <3>3. calls' \subseteq Call
      BY <2>1, <3>2 DEF InitiateRotation
    <3>4. QED
      BY <2>1, <3>1, <3>3 DEF InitiateRotation
  <2>2. ASSUME NEW i \in Instances, HealthCheck(i)
        PROVE  TypeOK'
    BY <2>2 DEF HealthCheck
  <2>3. ASSUME NEW i \in Instances, Restart(i)
        PROVE  TypeOK'
    BY <2>3, UnheardType DEF Restart, LosesAnswer
  <2>4. ASSUME NEW i \in Instances, Relay(i)
        PROVE  TypeOK'
    <3>1. authFailures[i] + 1 \in 0 .. AuthFailureThreshold
      BY <2>4 DEF Relay, BelowThreshold
    <3>2. QED
      BY <2>4, <3>1 DEF Relay
  <2>5. ASSUME NEW c \in calls, ServeRotation(c)
        PROVE  TypeOK'
    <3>1. Other(c.from) \in Instances /\ c.secret \in Secrets
      BY OtherSide DEF Call
    <3>2. calls' \subseteq Call
      BY <2>5 DEF ServeRotation, Call
    <3>3. pending' \in [Instances -> Secrets \cup {NoSecret}]
      BY <2>5, <3>1 DEF ServeRotation, StorePending
    <3>4. age' \in [Instances -> 0 .. Grace + 1]
      BY <2>5, <3>1 DEF ServeRotation, StorePending
    <3>5. QED
      BY <2>5, <3>2, <3>3, <3>4 DEF ServeRotation, StorePending
  <2>6. ASSUME NEW c \in calls, HearAnswer(c)
        PROVE  TypeOK'
    BY <2>6 DEF HearAnswer, StorePending, Call
  <2>7. ASSUME NEW c \in calls, AbandonCall(c)
        PROVE  TypeOK'
    BY <2>7, UnheardType DEF AbandonCall, LosesAnswer
  <2>8. CASE Tick
    <3>1. calls' \subseteq Call
      <4>1. \A c \in Call : [c EXCEPT !.old = TRUE] \in Call
        BY DEF Call
      <4>2. QED
        BY <2>8, <4>1 DEF Tick
    <3>2. age' \in [Instances -> 0 .. Grace + 1]
      BY <2>8 DEF Tick
    <3>3. nextCheck' \in [Instances -> 0 .. HealthInterval]
      BY <2>8 DEF Tick
    <3>4. QED
      BY <2>8, <3>1, <3>2, <3>3 DEF Tick
  <2>9. CASE UNCHANGED vars
    BY <2>9 DEF vars
  <2>10. QED
    BY <2>1, <2>2, <2>3, <2>4, <2>5, <2>6, <2>7, <2>8, <2>9 DEF Next
<1>4. QED
  BY <1>1, <1>2, <1>3, PTL DEF Spec
-----------------------------------------------------------------------------
(* The inductive invariant.  Without a lost answer and without crossing    *)
(* rotations, the two rows are in one of four relations: settled (nothing  *)
(* pending, the same primary), accepted (one call accepted and not yet     *)
(* answered), rotating (the same secret pending on both sides), and half   *)
(* finalized (one side's primary is what the other still has pending).     *)

\* The clock moved during the call.
Moves(c) == IF c.old THEN 1 ELSE 0

\* A call was signed with what still is its caller's primary secret, and if the
\* caller has a pending secret by now, it got it during the call.
CallsAreYoung ==
  \A c \in calls :
    /\ c.key = primary[c.from]
    /\ pending[c.from] # NoSecret => age[c.from] <= Moves(c)

Accepted(c) == c.phase = "accepted"

\* The relation "accepted": the other side has the call's secret pending, since
\* the call began.  If its caller has a secret pending too, two rotations cross.
AcceptedIsHalfDone ==
  \A c \in calls :
    Accepted(c) =>
      /\ c.heard
      /\ pending[Other(c.from)] = c.secret
      /\ age[Other(c.from)] <= Moves(c)
      /\ primary[Here] = primary[There]
      /\ pending[c.from] # NoSecret
           => \E d \in calls : Accepted(d) /\ d.from = Other(c.from)
      /\ \A d \in calls : Accepted(d) /\ d.from = c.from => d = c

\* The relations "settled", "rotating" and "half finalized".
RowsAgree ==
  \A i, j \in Instances :
    i # j =>
      /\ pending[i] = NoSecret /\ pending[j] = NoSecret
           => primary[i] = primary[j]
      /\ pending[i] # NoSecret /\ pending[j] # NoSecret
           => /\ pending[i] = pending[j]
              /\ primary[i] = primary[j]
              /\ age[i] <= age[j] + 1
      /\ pending[i] = NoSecret /\ pending[j] # NoSecret
           => /\ primary[i] = pending[j]
              /\ age[j] >= Grace

Coherent ==
  /\ AcceptedIsHalfDone
  /\ (\E c \in calls : Accepted(c)) \/ RowsAgree

IInv == CallsAreYoung /\ (broken \/ Coherent)

-----------------------------------------------------------------------------
(* Each action preserves it.                                               *)

\* While calls of i with a pending secret are young, a health check of i that
\* finalizes leaves no call of i.
LEMMA NoCallWhenFinalizing ==
  ASSUME TypeOK, CallsAreYoung, NEW i \in Instances,
         pending[i] # NoSecret, age[i] > 1
  PROVE  \A c \in calls : c.from # i
<1>1. \A c \in calls : Moves(c) <= 1 /\ Moves(c) \in Nat
  BY DEF Moves
<1>2. age[i] \in Nat
  BY RotationAssumption DEF TypeOK
<1>3. QED
  BY <1>1, <1>2 DEF CallsAreYoung

\* Starting a call.
LEMMA InitiateCoherent ==
  ASSUME TypeOK, IInv, NEW i \in Instances, InitiateRotation(i)
  PROVE  IInv'
<1>1. CallsAreYoung'
  BY DEF IInv, InitiateRotation, row, CallsAreYoung, Moves
<1>2. \A c : c \in calls' /\ Accepted(c) => c \in calls
  BY DEF InitiateRotation, Accepted
<1>3. Coherent => Coherent'
  BY <1>2
  DEF InitiateRotation, row, Coherent, AcceptedIsHalfDone, RowsAgree, Moves,
      Accepted
<1>4. QED
  BY <1>1, <1>3 DEF IInv, InitiateRotation

\* A call is refused, abandoned or forgotten: no row changes, and unless an
\* answer is lost the accepted calls stay.
LEMMA CallsShrinkCoherent ==
  ASSUME TypeOK, IInv, UNCHANGED row,
         \A c \in calls' : \E d \in calls :
           /\ c.from = d.from /\ c.key = d.key /\ c.old = d.old
           /\ Accepted(c) => c = d,
         broken' \/ (~ broken /\ \A c \in calls : Accepted(c) => c \in calls')
                 \/ (broken /\ broken')
  PROVE  IInv'
<1>1. CallsAreYoung'
  BY DEF IInv, row, CallsAreYoung, Moves
<1>2. CASE broken'
  BY <1>1, <1>2 DEF IInv
<1>3. CASE ~ broken'
  <2>1. Coherent
    BY <1>3 DEF IInv
  <2>2. \A c : Accepted(c) => (c \in calls <=> c \in calls')
    BY <1>3
  <2>3. AcceptedIsHalfDone'
    BY <2>1, <2>2 DEF Coherent, AcceptedIsHalfDone, row, Moves
  <2>4. ((\E c \in calls : Accepted(c)) \/ RowsAgree)'
    BY <2>1, <2>2 DEF Coherent, RowsAgree, row
  <2>5. QED
    BY <1>1, <2>3, <2>4 DEF IInv, Coherent
<1>4. QED
  BY <1>2, <1>3

\* Serving a call.
LEMMA ServeCoherent ==
  ASSUME TypeOK, IInv, NEW c \in calls, ServeRotation(c)
  PROVE  IInv'
<1> DEFINE a == c.from
           r == Other(c.from)
           taken == [c EXCEPT !.phase = "accepted"]
<1>1. /\ c \in Call
      /\ a \in Instances /\ r \in Instances /\ r # a /\ Other(r) = a
      /\ \A i \in Instances : i = a \/ i = r
  BY OtherSide DEF TypeOK, Call
<1>2. CASE LetIn(a, c.key) /\ pending[r] = NoSecret
  <2>1. /\ pending' = [pending EXCEPT ![r] = c.secret]
        /\ age' = [age EXCEPT ![r] = 0]
        /\ primary' = primary
        /\ broken' = (broken \/ ~ c.heard)
        /\ calls' = (calls \ {c}) \cup {d \in {taken} : c.heard}
    BY <1>2 DEF ServeRotation, StorePending
  <2>2. /\ taken.from = a /\ taken.key = c.key /\ taken.secret = c.secret
        /\ taken.old = c.old /\ taken.heard = c.heard /\ Accepted(taken)
    BY <1>1 DEF Call, Accepted
  <2>3. pending'[a] = pending[a] /\ age'[a] = age[a]
    BY <1>1, <2>1 DEF TypeOK
  <2>4. pending'[r] = c.secret /\ age'[r] = 0 /\ c.secret # NoSecret
    BY <1>1, <2>1, SecretsAreNotNull DEF TypeOK, Call
  <2>5. CallsAreYoung'
    <3> SUFFICES ASSUME NEW d \in calls'
                 PROVE  /\ d.key = primary[d.from]
                        /\ pending'[d.from] # NoSecret => age'[d.from] <= Moves(d)
      BY <2>1 DEF CallsAreYoung, Moves
    <3>1. PICK e \in calls :
            d.from = e.from /\ d.key = e.key /\ d.old = e.old
      BY <2>1, <2>2
    <3>2. e.from \in Instances /\ Moves(e) = Moves(d) /\ 0 <= Moves(d)
      BY <3>1 DEF TypeOK, Call, Moves
    <3>3. CASE d.from = r
      BY <2>4, <3>1, <3>2, <3>3 DEF IInv, CallsAreYoung
    <3>4. CASE d.from = a
      BY <2>3, <3>1, <3>2, <3>4 DEF IInv, CallsAreYoung
    <3>5. QED
      BY <1>1, <3>1, <3>2, <3>3, <3>4
  <2>6. CASE broken'
    BY <2>5, <2>6 DEF IInv
  <2>7. CASE ~ broken'
    <3>1. c.heard /\ Coherent
      BY <2>1, <2>7 DEF IInv
    <3>2. calls' = (calls \ {c}) \cup {taken} /\ c.phase = "sent"
      BY <2>1, <3>1 DEF ServeRotation
    <3>3. \A d \in calls : Accepted(d) =>
            d \in calls' /\ d.from = r /\ pending[a] = d.secret
      <4> SUFFICES ASSUME NEW d \in calls, Accepted(d)
                   PROVE  d \in calls' /\ d.from = r /\ pending[a] = d.secret
        OBVIOUS
      <4>1. d.from \in Instances /\ d.secret # NoSecret
        BY SecretsAreNotNull DEF TypeOK, Call
      <4>2. pending[Other(d.from)] = d.secret
        BY <3>1 DEF Coherent, AcceptedIsHalfDone
      <4>3. d.from = r
        BY <1>1, <1>2, <4>1, <4>2
      <4>4. d # c
        BY <3>2 DEF Accepted
      <4>5. QED
        BY <1>1, <3>2, <4>2, <4>3, <4>4
    <3>4. \A d \in calls' : Accepted(d) => d = taken \/ d \in calls
      BY <3>2
    <3>5. primary[Here] = primary[There]
      <4>1. CASE \E d \in calls : Accepted(d)
        BY <3>1, <4>1 DEF Coherent, AcceptedIsHalfDone
      <4>2. CASE RowsAgree
        <5>1. pending[a] = NoSecret
          <6> SUFFICES ASSUME pending[a] # NoSecret
                       PROVE  FALSE
            OBVIOUS
          <6>1. age[a] >= Grace /\ age[a] \in Nat
            BY <1>1, <1>2, <4>2, RotationAssumption DEF RowsAgree, TypeOK
          <6>2. age[a] > 1
            BY <6>1, RotationAssumption
          <6>3. QED
            BY <1>1, <6>2, NoCallWhenFinalizing DEF IInv
        <5>2. QED
          BY <1>1, <1>2, <4>2, <5>1, RotationAssumption
          DEF RowsAgree, Instances
      <4>3. QED
        BY <3>1, <4>1, <4>2 DEF Coherent
    <3>6. pending[a] # NoSecret => \E d \in calls : Accepted(d) /\ d.from = r
      <4> SUFFICES ASSUME pending[a] # NoSecret, ~ \E d \in calls : Accepted(d)
                   PROVE  FALSE
        BY <3>3
      <4>1. RowsAgree
        BY <3>1 DEF Coherent
      <4>2. age[a] >= Grace /\ age[a] \in Nat
        BY <1>1, <1>2, <4>1, RotationAssumption DEF RowsAgree, TypeOK
      <4>3. age[a] > 1
        BY <4>2, RotationAssumption
      <4>4. QED
        BY <1>1, <4>3, NoCallWhenFinalizing DEF IInv
    <3>7. AcceptedIsHalfDone'
      <4> SUFFICES ASSUME NEW d \in calls', Accepted(d)
                   PROVE  /\ d.heard
                          /\ pending'[Other(d.from)] = d.secret
                          /\ age'[Other(d.from)] <= Moves(d)
                          /\ primary[Here] = primary[There]
                          /\ pending'[d.from] # NoSecret
                               => \E e \in calls' :
                                    Accepted(e) /\ e.from = Other(d.from)
                          /\ \A e \in calls' :
                               Accepted(e) /\ e.from = d.from => e = d
        BY <2>1 DEF AcceptedIsHalfDone, Moves, Accepted
      <4>1. CASE d = taken
        <5>1. 0 <= Moves(d)
          BY DEF Moves
        <5>2. QED
          BY <1>1, <2>2, <2>3, <2>4, <3>1, <3>3, <3>4, <3>5, <3>6, <4>1, <5>1
      <4>2. CASE d \in calls
        <5>1. d.from = r /\ pending[a] = d.secret /\ age[a] <= Moves(d) /\ d.heard
          BY <1>1, <3>1, <3>3, <4>2 DEF Coherent, AcceptedIsHalfDone
        <5>2. \A e \in calls' : Accepted(e) /\ e.from = r => e = d
          BY <1>1, <2>2, <3>1, <3>3, <3>4, <4>2, <5>1
          DEF Coherent, AcceptedIsHalfDone
        <5>3. taken \in calls'
          BY <3>2
        <5>4. QED
          BY <1>1, <2>2, <2>3, <3>5, <5>1, <5>2, <5>3
      <4>3. QED
        BY <3>4, <4>1, <4>2
    <3>8. \E d \in calls' : Accepted(d)
      BY <2>2, <3>2
    <3>9. QED
      BY <2>5, <3>7, <3>8 DEF IInv, Coherent
  <2>8. QED
    BY <2>6, <2>7
<1>3. CASE ~ (LetIn(a, c.key) /\ pending[r] = NoSecret)
  <2> DEFINE answered == [c EXCEPT !.phase = "refused"]
  <2>1. /\ calls' = (calls \ {c}) \cup {d \in {answered} : c.heard}
        /\ UNCHANGED row /\ broken' = broken /\ c.phase = "sent"
    BY <1>3 DEF ServeRotation
  <2>2. /\ answered.from = c.from /\ answered.key = c.key
        /\ answered.old = c.old /\ ~ Accepted(answered) /\ ~ Accepted(c)
    BY <1>1, <2>1 DEF Call, Accepted
  <2> HIDE DEF answered
  <2>3. QED
    BY <2>1, <2>2, CallsShrinkCoherent DEF TypeOK
<1>4. QED
  BY <1>2, <1>3

\* Hearing an answer.
LEMMA HearCoherent ==
  ASSUME TypeOK, IInv, NEW c \in calls, HearAnswer(c)
  PROVE  IInv'
<1> DEFINE a == c.from
           r == Other(c.from)
<1>1. /\ c \in Call
      /\ a \in Instances /\ r \in Instances /\ r # a /\ Other(r) = a
      /\ \A i \in Instances : i = a \/ i = r
  BY OtherSide DEF TypeOK, Call
<1>2. CASE c.phase = "refused"
  <2>1. calls' = calls \ {c} /\ UNCHANGED row /\ broken' = broken
    BY <1>2 DEF HearAnswer
  <2>2. ~ Accepted(c)
    BY <1>2 DEF Accepted
  <2>3. QED
    BY <2>1, <2>2, CallsShrinkCoherent DEF TypeOK
<1>3. CASE c.phase = "accepted"
  <2>1. /\ calls' = calls \ {c}
        /\ broken' = (broken \/ pending[a] # NoSecret)
        /\ pending' = [pending EXCEPT ![a] = c.secret]
        /\ age' = [age EXCEPT ![a] = 0]
        /\ primary' = primary
    BY <1>3 DEF HearAnswer, StorePending
  <2>2. /\ pending'[r] = pending[r] /\ age'[r] = age[r]
        /\ pending'[a] = c.secret /\ age'[a] = 0 /\ c.secret # NoSecret
    BY <1>1, <2>1, SecretsAreNotNull DEF TypeOK, Call
  <2>3. CallsAreYoung'
    <3> SUFFICES ASSUME NEW d \in calls
                 PROVE  /\ d.key = primary[d.from]
                        /\ pending'[d.from] # NoSecret => age'[d.from] <= Moves(d)
      BY <2>1 DEF CallsAreYoung, Moves
    <3>1. d.from \in Instances /\ 0 <= Moves(d)
      BY DEF TypeOK, Call, Moves
    <3>2. QED
      BY <1>1, <2>2, <3>1 DEF IInv, CallsAreYoung
  <2>4. CASE broken'
    BY <2>3, <2>4 DEF IInv
  <2>5. CASE ~ broken'
    <3>1. Coherent /\ pending[a] = NoSecret /\ Accepted(c)
      BY <1>3, <2>1, <2>5 DEF IInv, Accepted
    <3>2. \A d \in calls' : ~ Accepted(d)
      <4> SUFFICES ASSUME NEW d \in calls, d # c, Accepted(d)
                   PROVE  FALSE
        BY <2>1
      <4>1. d.from \in Instances /\ d.secret # NoSecret
        BY SecretsAreNotNull DEF TypeOK, Call
      <4>2. QED
        BY <1>1, <3>1, <4>1 DEF Coherent, AcceptedIsHalfDone
    <3>3. /\ pending[r] = c.secret /\ age[r] <= Moves(c)
          /\ primary[Here] = primary[There]
      BY <3>1 DEF Coherent, AcceptedIsHalfDone
    <3>4. Moves(c) <= 1 /\ Moves(c) \in Nat /\ age[r] \in Nat
      BY <1>1, RotationAssumption DEF Moves, TypeOK
    <3>5. primary[a] = primary[r]
      BY <1>1, <3>3 DEF Instances
    <3>6. RowsAgree'
      <4> SUFFICES ASSUME NEW i \in Instances, NEW j \in Instances, i # j
                   PROVE  /\ pending'[i] = c.secret /\ pending'[j] = c.secret
                          /\ primary[i] = primary[j]
                          /\ age'[i] <= age'[j] + 1
        BY <2>1, <2>2 DEF RowsAgree
      <4>1. QED
        BY <1>1, <2>2, <3>3, <3>4, <3>5
    <3>7. QED
      BY <2>3, <3>2, <3>6 DEF IInv, Coherent, AcceptedIsHalfDone
  <2>6. QED
    BY <2>4, <2>5
<1>4. QED
  BY <1>2, <1>3 DEF HearAnswer

\* Abandoning calls: only a lost answer matters, and it is recorded.
LEMMA UnheardCoherent ==
  ASSUME TypeOK, IInv, UNCHANGED row, NEW abandoned \in SUBSET calls,
         calls' = Unheard(abandoned),
         broken' = (broken \/ LosesAnswer(abandoned))
  PROVE  IInv'
<1>1. \A c \in calls' : \E d \in calls :
        /\ c.from = d.from /\ c.key = d.key /\ c.old = d.old
        /\ Accepted(c) => c = d
  <2> SUFFICES ASSUME NEW c \in calls'
               PROVE  \E d \in calls :
                        /\ c.from = d.from /\ c.key = d.key /\ c.old = d.old
                        /\ Accepted(c) => c = d
    OBVIOUS
  <2>1. CASE c \in calls
    BY <2>1
  <2>2. CASE c \notin calls
    <3>1. PICK d \in abandoned :
            d.phase = "sent" /\ c = [d EXCEPT !.heard = FALSE]
      BY <2>2 DEF Unheard
    <3>2. d \in Call
      BY DEF TypeOK
    <3>3. QED
      BY <3>1, <3>2 DEF Call, Accepted
  <2>3. QED
    BY <2>1, <2>2
<1>2. broken' \/ \A c \in calls : Accepted(c) => c \in calls'
  BY DEF LosesAnswer, Unheard, Accepted
<1>3. QED
  BY <1>1, <1>2, CallsShrinkCoherent DEF TypeOK

\* A health check.
LEMMA HealthCheckCoherent ==
  ASSUME TypeOK, IInv, NEW i \in Instances, HealthCheck(i)
  PROVE  IInv'
<1>1. CASE ~ (pending[i] # NoSecret /\ age[i] > Grace)
  BY <1>1
  DEF HealthCheck, row, IInv, CallsAreYoung, Coherent, AcceptedIsHalfDone,
      RowsAgree, Moves
<1>2. CASE pending[i] # NoSecret /\ age[i] > Grace
  <2> DEFINE j == Other(i)
  <2>1. j \in Instances /\ j # i /\ Other(j) = i
        /\ \A k \in Instances : k = i \/ k = j
    BY OtherSide
  <2>2. age[i] \in Nat /\ age[j] \in Nat /\ age[i] > 1
    BY <1>2, <2>1, RotationAssumption DEF TypeOK
  <2>3. \A c \in calls : c.from = j
    <3>1. \A c \in calls : c.from # i
      BY <1>2, <2>2, NoCallWhenFinalizing DEF IInv
    <3>2. QED
      BY <2>1, <3>1 DEF TypeOK, Call
  <2>4. /\ primary' = [primary EXCEPT ![i] = pending[i]]
        /\ pending' = [pending EXCEPT ![i] = NoSecret]
        /\ age' = [age EXCEPT ![i] = 0]
        /\ calls' = calls /\ broken' = broken
    BY <1>2 DEF HealthCheck
  <2>5. /\ primary'[i] = pending[i] /\ pending'[i] = NoSecret /\ age'[i] = 0
        /\ primary'[j] = primary[j] /\ pending'[j] = pending[j]
        /\ age'[j] = age[j]
    BY <2>1, <2>4 DEF TypeOK
  <2>6. CallsAreYoung'
    BY <2>3, <2>4, <2>5 DEF IInv, CallsAreYoung, Moves
  <2>7. Coherent => Coherent'
    <3> SUFFICES ASSUME Coherent
                 PROVE  Coherent'
      OBVIOUS
    <3>1. \A c \in calls : ~ Accepted(c)
      <4> SUFFICES ASSUME NEW c \in calls, Accepted(c)
                   PROVE  FALSE
        OBVIOUS
      <4>1. age[i] <= Moves(c)
        BY <2>1, <2>3 DEF Coherent, AcceptedIsHalfDone
      <4>2. QED
        BY <2>2, <4>1 DEF Moves
    <3>2. RowsAgree
      BY <3>1 DEF Coherent
    <3>3. RowsAgree'
      <4>1. pending[j] # NoSecret =>
              pending[i] = pending[j] /\ age[j] >= Grace
        BY <1>2, <2>1, <2>2, <3>2, RotationAssumption DEF RowsAgree, TypeOK
      <4>2. pending[j] = NoSecret => primary[j] = pending[i]
        BY <1>2, <2>1, <3>2 DEF RowsAgree
      <4>3. QED
        BY <2>1, <2>5, <4>1, <4>2 DEF RowsAgree
    <3>4. QED
      BY <2>4, <3>1, <3>3 DEF Coherent, AcceptedIsHalfDone, Accepted
  <2>8. QED
    BY <2>4, <2>6, <2>7 DEF IInv
<1>3. QED
  BY <1>1, <1>2

\* The clock moves.
LEMMA TickCoherent ==
  ASSUME TypeOK, IInv, Tick
  PROVE  IInv'
<1>1. \A c \in calls : c.heard => ~ c.old
  BY DEF Tick
<1>2. \A i \in Instances : /\ age[i] \in 0 .. Grace + 1 /\ age'[i] \in Nat
                           /\ age[i] \in Nat
                           /\ age'[i] <= age[i] + 1
  BY RotationAssumption DEF Tick, TypeOK
<1>3. \A i \in Instances : age'[i] >= age[i]
  BY <1>2, RotationAssumption DEF Tick, TypeOK
<1>4. \A d \in calls' : \E c \in calls :
        /\ ~ c.old /\ d = [c EXCEPT !.old = TRUE]
        /\ d.from = c.from /\ d.key = c.key /\ d.secret = c.secret
        /\ d.phase = c.phase /\ d.heard = c.heard /\ d.old
        /\ Moves(c) = 0 /\ Moves(d) = 1 /\ c.from \in Instances
  <2> SUFFICES ASSUME NEW d \in calls'
               PROVE  \E c \in calls :
        /\ ~ c.old /\ d = [c EXCEPT !.old = TRUE]
        /\ d.from = c.from /\ d.key = c.key /\ d.secret = c.secret
        /\ d.phase = c.phase /\ d.heard = c.heard /\ d.old
        /\ Moves(c) = 0 /\ Moves(d) = 1 /\ c.from \in Instances
    OBVIOUS
  <2>1. PICK c \in calls : ~ c.old /\ d = [c EXCEPT !.old = TRUE]
    BY DEF Tick
  <2>2. c \in Call
    BY DEF TypeOK
  <2>3. QED
    BY <2>1, <2>2 DEF Call, Moves
<1>5. \A c \in calls : ~ c.old => [c EXCEPT !.old = TRUE] \in calls'
  BY DEF Tick
<1>6. CallsAreYoung'
  <2> SUFFICES ASSUME NEW d \in calls'
               PROVE  /\ d.key = primary[d.from]
                      /\ pending[d.from] # NoSecret => age'[d.from] <= Moves(d)
    BY DEF CallsAreYoung, Tick, Moves
  <2>1. PICK c \in calls :
          /\ d.from = c.from /\ d.key = c.key
          /\ Moves(c) = 0 /\ Moves(d) = 1 /\ c.from \in Instances
    BY <1>4
  <2>2. QED
    BY <1>2, <2>1 DEF IInv, CallsAreYoung
<1>7. Coherent => Coherent'
  <2> SUFFICES ASSUME Coherent
               PROVE  Coherent'
    OBVIOUS
  <2>1. AcceptedIsHalfDone'
    <3> SUFFICES ASSUME NEW d \in calls', Accepted(d)
                 PROVE  /\ d.heard
                        /\ pending[Other(d.from)] = d.secret
                        /\ age'[Other(d.from)] <= Moves(d)
                        /\ primary[Here] = primary[There]
                        /\ pending[d.from] # NoSecret
                             => \E e \in calls' :
                                  Accepted(e) /\ e.from = Other(d.from)
                        /\ \A e \in calls' :
                             Accepted(e) /\ e.from = d.from => e = d
      BY DEF AcceptedIsHalfDone, Moves, Accepted, Tick
    <3>1. PICK c \in calls :
            /\ d = [c EXCEPT !.old = TRUE]
            /\ d.from = c.from /\ d.secret = c.secret /\ d.phase = c.phase
            /\ d.heard = c.heard /\ Moves(c) = 0 /\ Moves(d) = 1
            /\ c.from \in Instances
      BY <1>4
    <3>2. Accepted(c)
      BY <3>1 DEF Accepted
    <3>3. /\ c.heard
          /\ pending[Other(c.from)] = c.secret
          /\ age[Other(c.from)] <= Moves(c)
          /\ primary[Here] = primary[There]
          /\ pending[c.from] # NoSecret
               => \E e \in calls : Accepted(e) /\ e.from = Other(c.from)
          /\ \A e \in calls : Accepted(e) /\ e.from = c.from => e = c
      BY <3>2 DEF Coherent, AcceptedIsHalfDone
    <3>4. age'[Other(d.from)] <= Moves(d)
      BY <1>2, <3>1, <3>3, OtherSide
    <3>5. \A e \in calls' : Accepted(e) /\ e.from = d.from => e = d
      <4> SUFFICES ASSUME NEW e \in calls', Accepted(e), e.from = d.from
                   PROVE  e = d
        OBVIOUS
      <4>1. PICK b \in calls :
              /\ e = [b EXCEPT !.old = TRUE]
              /\ e.from = b.from /\ e.phase = b.phase
        BY <1>4
      <4>2. b = c
        BY <3>1, <3>3, <4>1 DEF Accepted
      <4>3. QED
        BY <3>1, <4>1, <4>2
    <3>6. pending[d.from] # NoSecret
            => \E e \in calls' : Accepted(e) /\ e.from = Other(d.from)
      <4> SUFFICES ASSUME pending[d.from] # NoSecret
                   PROVE  \E e \in calls' : Accepted(e) /\ e.from = Other(d.from)
        OBVIOUS
      <4>1. PICK b \in calls : Accepted(b) /\ b.from = Other(c.from)
        BY <3>1, <3>3
      <4>2. ~ b.old /\ b \in Call
        BY <1>1, <4>1 DEF Coherent, AcceptedIsHalfDone, TypeOK
      <4>3. [b EXCEPT !.old = TRUE] \in calls'
        BY <1>5, <4>2
      <4>4. QED
        BY <3>1, <4>1, <4>2, <4>3 DEF Accepted, Call
    <3>7. QED
      BY <3>1, <3>3, <3>4, <3>5, <3>6
  <2>2. CASE \E c \in calls : Accepted(c)
    <3>1. PICK c \in calls : Accepted(c)
      BY <2>2
    <3>2. ~ c.old /\ c \in Call
      BY <1>1, <3>1 DEF Coherent, AcceptedIsHalfDone, TypeOK
    <3>3. [c EXCEPT !.old = TRUE] \in calls' /\ Accepted([c EXCEPT !.old = TRUE])
      BY <1>5, <3>1, <3>2 DEF Accepted, Call
    <3>4. QED
      BY <2>1, <3>3 DEF Coherent
  <2>3. CASE RowsAgree
    <3>1. \A i, j \in Instances :
            /\ pending[i] # NoSecret /\ pending[j] # NoSecret
               /\ age[i] <= age[j] + 1 => age'[i] <= age'[j] + 1
            /\ age[j] >= Grace => age'[j] >= Grace
      <4> SUFFICES ASSUME NEW i \in Instances, NEW j \in Instances
                   PROVE  /\ pending[i] # NoSecret /\ pending[j] # NoSecret
                             /\ age[i] <= age[j] + 1 => age'[i] <= age'[j] + 1
                          /\ age[j] >= Grace => age'[j] >= Grace
        OBVIOUS
      <4>1. /\ age'[i] = IF pending[i] # NoSecret /\ age[i] <= Grace
                         THEN age[i] + 1 ELSE age[i]
            /\ age'[j] = IF pending[j] # NoSecret /\ age[j] <= Grace
                         THEN age[j] + 1 ELSE age[j]
        BY DEF Tick
      <4>2. Grace \in Nat
        BY RotationAssumption
      <4>3. QED
        BY <1>2, <4>1, <4>2
    <3>2. RowsAgree'
      BY <2>3, <3>1 DEF RowsAgree, Tick
    <3>3. QED
      BY <2>1, <3>2 DEF Coherent
  <2>4. QED
    BY <2>2, <2>3 DEF Coherent
<1>8. QED
  BY <1>6, <1>7 DEF IInv, Tick

\* The invariant holds throughout.
LEMMA Inductive == Spec => []IInv
<1>1. Init => IInv
  <2> SUFFICES ASSUME Init
               PROVE  IInv
    OBVIOUS
  <2>1. \A i \in Instances : primary[i] = 0 /\ pending[i] = NoSecret
    BY DEF Init
  <2>2. calls = {}
    BY DEF Init
  <2>3. QED
    BY <2>1, <2>2
    DEF IInv, CallsAreYoung, Coherent, AcceptedIsHalfDone, RowsAgree
<1>2. TypeOK /\ IInv /\ [Next]_vars => IInv'
  <2> SUFFICES ASSUME TypeOK, IInv, [Next]_vars
               PROVE  IInv'
    OBVIOUS
  <2>1. ASSUME NEW i \in Instances, Restart(i)
        PROVE  IInv'
    BY <2>1, UnheardCoherent DEF Restart
  <2>2. ASSUME NEW c \in calls, AbandonCall(c)
        PROVE  IInv'
    BY <2>2, UnheardCoherent DEF AbandonCall
  <2>3. CASE UNCHANGED <<row, calls, broken>>
    BY <2>3
    DEF row, IInv, CallsAreYoung, Coherent, AcceptedIsHalfDone, RowsAgree, Moves
  <2>4. ASSUME NEW i \in Instances, Relay(i)
        PROVE  IInv'
    BY <2>3, <2>4 DEF Relay
  <2>5. CASE UNCHANGED vars
    BY <2>3, <2>5 DEF vars, row
  <2>6. QED
    BY <2>1, <2>2, <2>4, <2>5, InitiateCoherent, ServeCoherent, HearCoherent,
       HealthCheckCoherent, TickCoherent
    DEF Next
<1>3. QED
  BY <1>1, <1>2, TypeCorrect, PTL DEF Spec

-----------------------------------------------------------------------------
(* What follows.                                                           *)

\* Unless an answer was lost or two rotations crossed, what one side signs the
\* other accepts, but for the call's own window and the one after the grace
\* period.
THEOREM Understood == Spec => []UnderstoodOutsideWindows
<1>1. TypeOK /\ IInv => UnderstoodOutsideWindows
  <2> SUFFICES ASSUME TypeOK, IInv, ~ broken, NEW i \in Instances,
                      ~ Answering(Other(i)), ~ GraceOver(Other(i))
               PROVE  Accepts(Other(i), SigningKey(i))
    BY DEF UnderstoodOutsideWindows
  <2> DEFINE r == Other(i)
  <2>1. r \in Instances /\ r # i /\ Other(r) = i
        /\ \A k \in Instances : k = i \/ k = r
    BY OtherSide
  <2>2. Coherent
    BY DEF IInv
  <2>3. age[r] \in Nat /\ Grace \in Nat
    BY <2>1, RotationAssumption DEF TypeOK
  <2>4. pending[r] # NoSecret => age[r] <= Grace
    BY <2>3 DEF GraceOver
  <2>5. CASE \E c \in calls : Accepted(c)
    <3>1. PICK c \in calls : Accepted(c)
      BY <2>5
    <3>2. c.from = i
      BY <2>1, <3>1 DEF Answering, Accepted, TypeOK, Call
    <3>3. pending[i] = NoSecret /\ primary[Here] = primary[There]
      BY <2>2, <3>1, <3>2 DEF Coherent, AcceptedIsHalfDone, Answering, Accepted
    <3>4. primary[i] = primary[r]
      BY <2>1, <3>3 DEF Instances
    <3>5. QED
      BY <3>3, <3>4 DEF Accepts, SigningKey
  <2>6. CASE RowsAgree
    <3>1. CASE pending[i] = NoSecret /\ pending[r] = NoSecret
      BY <2>1, <2>6, <3>1 DEF RowsAgree, Accepts, SigningKey
    <3>2. CASE pending[i] = NoSecret /\ pending[r] # NoSecret
      BY <2>1, <2>4, <2>6, <3>2 DEF RowsAgree, Accepts, SigningKey
    <3>3. CASE pending[i] # NoSecret /\ pending[r] = NoSecret
      BY <2>1, <2>6, <3>3 DEF RowsAgree, Accepts, SigningKey
    <3>4. CASE pending[i] # NoSecret /\ pending[r] # NoSecret
      BY <2>1, <2>4, <2>6, <3>4 DEF RowsAgree, Accepts, SigningKey
    <3>5. QED
      BY <3>1, <3>2, <3>3, <3>4
  <2>7. QED
    BY <2>2, <2>5, <2>6 DEF Coherent
<1>2. QED
  BY <1>1, TypeCorrect, Inductive, PTL

\* No secret becomes pending on top of a rotation that a side has not finalized.
THEOREM OneRotationAtATime == Spec => RotationsFollowOneAnother
<1> DEFINE Follows == \A i \in Instances :
                        pending[i] = NoSecret /\ pending'[i] # NoSecret
                          => broken \/ primary[Here] = primary[There]
<1>1. TypeOK /\ IInv /\ [Next]_vars => [Follows]_vars
  <2> SUFFICES ASSUME TypeOK, IInv, [Next]_vars, ~ broken, NEW i \in Instances,
                      pending[i] = NoSecret, pending'[i] # NoSecret
               PROVE  primary[Here] = primary[There]
    OBVIOUS
  <2>1. ASSUME NEW c \in calls, ServeRotation(c)
        PROVE  primary[Here] = primary[There]
    <3> DEFINE r == Other(c.from)
    <3>1. c \in Call /\ r \in Instances /\ r # c.from /\ c.from \in Instances
      BY OtherSide DEF TypeOK, Call
    <3>2. LetIn(c.from, c.key) /\ pending[r] = NoSecret
      BY <2>1 DEF ServeRotation, row
    <3>3. c.key # NoSecret
      BY <3>1, SecretsAreNotNull DEF Call
    <3>4. primary[r] = primary[c.from]
      BY <3>2, <3>3 DEF LetIn, Accepts, IInv, CallsAreYoung
    <3>5. QED
      BY <3>1, <3>4 DEF Instances
  <2>2. ASSUME NEW c \in calls, HearAnswer(c)
        PROVE  primary[Here] = primary[There]
    <3>1. Accepted(c)
      BY <2>2 DEF HearAnswer, row, Accepted
    <3>2. QED
      BY <3>1 DEF IInv, Coherent, AcceptedIsHalfDone
  <2>3. ASSUME NEW j \in Instances, HealthCheck(j)
        PROVE  FALSE
    BY <2>3 DEF HealthCheck, row, TypeOK
  <2>4. QED
    BY <2>1, <2>2, <2>3
    DEF Next, InitiateRotation, Restart, Relay, AbandonCall, Tick, vars, row
<1>2. QED
  BY <1>1, TypeCorrect, Inductive, PTL DEF RotationsFollowOneAnother, Spec
=============================================================================
