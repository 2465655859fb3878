----------------------- MODULE IncarnationResetProofs -----------------------
(***************************************************************************)
(* Machine-checked safety of IncarnationReset for every set of users and   *)
(* every bound: types; flags follow the journal and spare newcomers; an    *)
(* active row is healed but for the named causes; a peer that was never    *)
(* replaced is left alone; users are lost only on proof, and completely.   *)
(***************************************************************************)
EXTENDS IncarnationReset, TLAPS

-----------------------------------------------------------------------------
(* Types.                                                                  *)

LEMMA DetectType ==
  ASSUME TypeOK, NEW id \in RowIds, NEW dead \in Epochs, Detect(id, dead)
  PROVE  /\ row' \in Row
         /\ journal' \in Journal
         /\ user' \in [Users -> User]
         /\ \A s \in Stubs : user'[s].fate # "detached"
         /\ \A a \in Accounts : user'[a].fate # "buried"
         /\ spared' \subseteq Users
         /\ stranded' \in Causes
<1>1. row' \in Row
  BY DEF TypeOK, Detect, Row, Statuses
<1>2. /\ journal' \in Journal
      /\ spared' \subseteq Users
      /\ stranded' \in Causes
  BY DEF TypeOK, Detect, Journal, Causes
<1>3. /\ user' \in [Users -> User]
      /\ \A u \in Users : user'[u].fate = user[u].fate
  BY DEF TypeOK, Detect, Flagged, User
<1>4. QED
  BY <1>1, <1>2, <1>3 DEF TypeOK, Users

\* What a heal, or a part of one, makes of the users.
LEMMA HealedTypes ==
  ASSUME TypeOK, NEW u \in Users
  PROVE  /\ Cleared(u) \in User
         /\ Cleared(u).fate = user[u].fate
         /\ StubsHealed(u) \in User
         /\ Healed(u) \in User
         /\ \A doomed \in SUBSET Doomed : Buried(doomed, u) \in User
         /\ u \in Stubs => /\ StubsHealed(u).fate # "detached"
                           /\ Healed(u).fate # "detached"
                           /\ \A doomed \in SUBSET Doomed :
                                Buried(doomed, u).fate # "detached"
         /\ u \in Accounts => /\ StubsHealed(u).fate # "buried"
                              /\ Healed(u).fate # "buried"
                              /\ \A doomed \in SUBSET Doomed :
                                   Buried(doomed, u).fate # "buried"
<1>1. user[u] \in User
  BY DEF TypeOK
<1>2. Cleared(u) \in User /\ Cleared(u).fate = user[u].fate
  BY <1>1 DEF Cleared, User
<1>3. StubsHealed(u) \in User /\ Healed(u) \in User
  BY <1>1 DEF StubsHealed, Healed, User
<1>4. ASSUME NEW doomed \in SUBSET Doomed
      PROVE  Buried(doomed, u) \in User
  BY <1>1 DEF Buried, User
<1>5. ASSUME u \in Stubs
      PROVE  /\ StubsHealed(u).fate # "detached"
             /\ Healed(u).fate # "detached"
             /\ \A doomed \in SUBSET Doomed :
                  Buried(doomed, u).fate # "detached"
  <2>1. u \notin Orphans /\ user[u].fate # "detached"
    BY <1>5, ResetAssumption DEF Orphans, TypeOK
  <2>2. QED
    BY <1>1, <2>1 DEF StubsHealed, Healed, Buried, User
<1>6. ASSUME u \in Accounts
      PROVE  /\ StubsHealed(u).fate # "buried"
             /\ Healed(u).fate # "buried"
             /\ \A doomed \in SUBSET Doomed : Buried(doomed, u).fate # "buried"
  <2>1. u \notin Doomed /\ user[u].fate # "buried"
    BY <1>6, ResetAssumption DEF Doomed, TypeOK
  <2>2. QED
    BY <1>1, <2>1 DEF StubsHealed, Healed, Buried, User
<1>7. QED
  BY <1>2, <1>3, <1>4, <1>5, <1>6

\* The variables a heal writes keep their types.
HealTypes ==
  /\ journal \in Journal
  /\ user \in [Users -> User]
  /\ \A s \in Stubs : user[s].fate # "detached"
  /\ \A a \in Accounts : user[a].fate # "buried"
  /\ spared \subseteq Users
  /\ stranded \in Causes

LEMMA AlarmOffType ==
  ASSUME TypeOK, AlarmOff
  PROVE  /\ user' \in [Users -> User]
         /\ \A s \in Stubs : user'[s].fate # "detached"
         /\ \A a \in Accounts : user'[a].fate # "buried"
         /\ spared' \subseteq Users
<1>1. /\ user' \in [Users -> User]
      /\ \A u \in Users : user'[u].fate = user[u].fate
  BY HealedTypes DEF AlarmOff
<1>2. QED
  BY <1>1 DEF TypeOK, AlarmOff, Users

LEMMA HealType ==
  ASSUME TypeOK, NEW base, Heal(base)
  PROVE  HealTypes'
<1>1. stranded' \in Causes
  BY DEF Heal, Causes
<1>2. CASE UNCHANGED <<journal, user, spared>>
  BY <1>1, <1>2 DEF HealTypes, TypeOK
<1>3. CASE AlarmOff /\ Resolved
  BY <1>1, <1>3, AlarmOffType DEF HealTypes, Resolved, Journal
<1>4. CASE /\ user' = [u \in Users |-> Healed(u)]
           /\ Resolved
           /\ UNCHANGED spared
  <2>1. \A u \in Users : user'[u] = Healed(u)
    BY <1>4
  <2>2. /\ user' \in [Users -> User]
        /\ \A s \in Stubs : user'[s].fate # "detached"
        /\ \A a \in Accounts : user'[a].fate # "buried"
    BY <1>4, <2>1, HealedTypes DEF Users
  <2>3. QED
    BY <1>1, <1>4, <2>2 DEF HealTypes, TypeOK, Resolved, Journal
<1>5. QED
  BY <1>2, <1>3, <1>4 DEF Heal

LEMMA HealCutType ==
  ASSUME TypeOK, NEW base, HealCut(base)
  PROVE  HealTypes'
<1>1. stranded' \in Causes /\ journal' \in Journal
  BY DEF HealCut, Causes, TypeOK
<1>2. CASE UNCHANGED <<user, spared>>
  BY <1>1, <1>2 DEF HealTypes, TypeOK
<1>3. CASE AlarmOff
  BY <1>1, <1>3, AlarmOffType DEF HealTypes
<1>4. ASSUME UNCHANGED spared, NEW doomed \in SUBSET Doomed,
             user' = [u \in Users |-> Buried(doomed, u)]
      PROVE  HealTypes'
  <2>1. \A u \in Users : user'[u] = Buried(doomed, u)
    BY <1>4
  <2>2. /\ user' \in [Users -> User]
        /\ \A s \in Stubs : user'[s].fate # "detached"
        /\ \A a \in Accounts : user'[a].fate # "buried"
    BY <1>4, <2>1, HealedTypes DEF Users
  <2>3. QED
    BY <1>1, <1>4, <2>2 DEF HealTypes, TypeOK
<1>5. CASE UNCHANGED spared /\ user' = [u \in Users |-> StubsHealed(u)]
  <2>1. \A u \in Users : user'[u] = StubsHealed(u)
    BY <1>5
  <2>2. /\ user' \in [Users -> User]
        /\ \A s \in Stubs : user'[s].fate # "detached"
        /\ \A a \in Accounts : user'[a].fate # "buried"
    BY <1>5, <2>1, HealedTypes DEF Users
  <2>3. QED
    BY <1>1, <1>5, <2>2 DEF HealTypes, TypeOK
<1>6. CASE UNCHANGED spared /\ user' = [u \in Users |-> Healed(u)]
  <2>1. \A u \in Users : user'[u] = Healed(u)
    BY <1>6
  <2>2. /\ user' \in [Users -> User]
        /\ \A s \in Stubs : user'[s].fate # "detached"
        /\ \A a \in Accounts : user'[a].fate # "buried"
    BY <1>6, <2>1, HealedTypes DEF Users
  <2>3. QED
    BY <1>1, <1>6, <2>2 DEF HealTypes, TypeOK
<1>7. QED
  BY <1>2, <1>3, <1>4, <1>5, <1>6 DEF HealCut

LEMMA ActivatedType ==
  ASSUME TypeOK, NEW id \in RowIds, NEW base, NEW cl \in SUBSET RowIds,
         Activated(id, base, cl)
  PROVE  /\ HealTypes'
         /\ probes' \subseteq Probe
         /\ calls' \subseteq RowIds
         /\ syncing' \subseteq RowIds
         /\ proving' \subseteq Accounts
<1>1. /\ \/ calls' = cl /\ UNCHANGED <<probes, proving>>
         \/ Forget
      /\ \/ UNCHANGED syncing
         \/ syncing' = syncing \cup {id}
         \/ Forget
  BY DEF Activated
<1>2. /\ probes' \subseteq Probe
      /\ calls' \subseteq RowIds
      /\ syncing' \subseteq RowIds
      /\ proving' \subseteq Accounts
  BY <1>1 DEF TypeOK, Forget
<1>3. HealTypes'
  <2>1. CASE /\ stranded' = IF journal.open THEN "joined" ELSE "none"
             /\ UNCHANGED <<journal, user, syncing, spared>>
    BY <2>1 DEF HealTypes, TypeOK, Causes
  <2>2. CASE Heal(base) \/ HealCut(base)
    BY <2>2, HealType, HealCutType
  <2>3. QED
    BY <2>1, <2>2 DEF Activated
<1>4. QED
  BY <1>2, <1>3

\* The rows the actions write.
LEMMA RowTypes ==
  ASSUME TypeOK
  PROVE  /\ epoch \in Epochs
         /\ Met(row) \in Row
         /\ \A status \in Statuses : [row EXCEPT !.status = status] \in Row
         /\ \A reason \in {"reset", "other"} :
              /\ [row EXCEPT !.status = "needs_attention",
                             !.reason = reason] \in Row
              /\ [Met(row) EXCEPT !.reason = reason] \in Row
         /\ [row EXCEPT !.base = epoch] \in Row
         /\ row.id < MaxRows => /\ row.id + 1 \in RowIds
                                /\ NextRow("pending") \in Row
                                /\ Met(NextRow("active")) \in Row
         /\ row.base # Unknown => row.base \in Epochs
<1>1. epoch \in Epochs /\ row \in Row
  BY ResetAssumption DEF TypeOK, Epochs
<1>2. Met(row) \in Row
  BY <1>1 DEF Met, Row, Statuses
<1>3. ASSUME NEW status \in Statuses
      PROVE  [row EXCEPT !.status = status] \in Row
  BY <1>1, <1>3 DEF Row
<1>4. ASSUME NEW reason \in {"reset", "other"}
      PROVE  /\ [row EXCEPT !.status = "needs_attention",
                            !.reason = reason] \in Row
             /\ [Met(row) EXCEPT !.reason = reason] \in Row
  BY <1>1, <1>2, <1>4 DEF Row, Statuses
<1>5. [row EXCEPT !.base = epoch] \in Row
  BY <1>1 DEF Row
<1>6. ASSUME row.id < MaxRows
      PROVE  /\ row.id + 1 \in RowIds
             /\ NextRow("pending") \in Row
             /\ Met(NextRow("active")) \in Row
  <2>1. row.id + 1 \in RowIds
    BY <1>1, <1>6, ResetAssumption DEF Row, RowIds
  <2>2. NextRow("pending") \in Row /\ NextRow("active") \in Row
    BY <2>1 DEF NextRow, Row, Statuses
  <2>3. QED
    BY <1>1, <2>1, <2>2 DEF Met, Row, Statuses
<1>7. row.base # Unknown => row.base \in Epochs
  BY <1>1 DEF Row
<1>8. QED
  BY <1>1, <1>2, <1>3, <1>4, <1>5, <1>6, <1>7

LEMMA AnswerType ==
  ASSUME TypeOK, NEW p \in probes, NEW observed \in {epoch, Unknown},
         Answer(p, observed)
  PROVE  TypeOK'
<1>1. /\ p \in Probe
      /\ p.id \in RowIds
      /\ p.base # Unknown => p.base \in Epochs
      /\ probes' \subseteq Probe
      /\ UNCHANGED <<epoch, ran, calls, proving>>
  BY DEF TypeOK, Answer, Probe
<1>2. CASE Differs(p.base, observed) /\ Detect(p.id, p.base)
                                     /\ UNCHANGED syncing
  <2>1. p.base \in Epochs
    BY <1>1, <1>2 DEF Differs
  <2>2. QED
    BY <1>1, <1>2, <2>1, DetectType DEF TypeOK
<1>3. CASE /\ row' = [row EXCEPT !.status = "active"]
           /\ Recovered(p.id)
  <2>1. row' \in Row
    BY <1>3, RowTypes DEF Statuses
  <2>2. QED
    BY <1>1, <1>3, <2>1 DEF TypeOK, Recovered, Causes
<1>4. CASE UNCHANGED <<row, journal, user, syncing, spared, stranded>>
  BY <1>1, <1>4 DEF TypeOK
<1>5. QED
  BY <1>2, <1>3, <1>4 DEF Answer

LEMMA AcceptMetType ==
  ASSUME TypeOK, AcceptMet
  PROVE  TypeOK'
<1>1. row' \in Row /\ row'.id \in RowIds
  BY RowTypes DEF AcceptMet, Row
<1>2. calls \in SUBSET RowIds
  BY DEF TypeOK
<1>3. PICK id, base : id \in RowIds /\ Activated(id, base, calls)
  BY <1>1 DEF AcceptMet
<1>4. /\ HealTypes'
      /\ probes' \subseteq Probe
      /\ calls' \subseteq RowIds
      /\ syncing' \subseteq RowIds
      /\ proving' \subseteq Accounts
  BY <1>2, <1>3, ActivatedType
<1>5. QED
  BY <1>1, <1>4 DEF TypeOK, HealTypes, AcceptMet

LEMMA SettleAcceptedType ==
  ASSUME TypeOK, NEW id \in calls, SettleAccepted(id)
  PROVE  TypeOK'
<1>1. row.reason \in {"reset", "other"} /\ id \in RowIds
  BY DEF TypeOK, Row
<1>2. row' \in Row
  BY <1>1, RowTypes DEF SettleAccepted
<1>3. calls \ {id} \in SUBSET RowIds
  BY DEF TypeOK
<1>4. PICK base : Activated(id, base, calls \ {id})
  BY DEF SettleAccepted
<1>5. /\ HealTypes'
      /\ probes' \subseteq Probe
      /\ calls' \subseteq RowIds
      /\ syncing' \subseteq RowIds
      /\ proving' \subseteq Accounts
  BY <1>1, <1>3, <1>4, ActivatedType
<1>6. QED
  BY <1>2, <1>5 DEF TypeOK, HealTypes, SettleAccepted

LEMMA ReattachType ==
  ASSUME TypeOK, NEW a \in proving, Reattach(a)
  PROVE  TypeOK'
<1>1. PICK twin \in {{}} \cup {{s} : s \in {t \in Stubs : Present(t)}} :
        /\ user' = [u \in Users |-> IF u = a THEN [user[a] EXCEPT !.fate = "live"]
                                    ELSE IF u \in twin THEN Absent
                                    ELSE user[u]]
        /\ spared' = (spared \ twin)
                     \cup (IF user[a].pending THEN {} ELSE {a})
  BY DEF Reattach
<1>2. Absent \in User /\ Absent.fate = "absent"
  BY DEF Absent, User
<1>3. [user[a] EXCEPT !.fate = "live"] \in User
  BY DEF TypeOK, User, Users
<1>4. ASSUME NEW u \in Users
      PROVE  /\ user'[u] \in User
             /\ \/ user'[u].fate \in {"live", "absent"}
                \/ user'[u].fate = user[u].fate
  BY <1>1, <1>2, <1>3 DEF TypeOK, User, Users
<1>5. /\ user' \in [Users -> User]
      /\ \A s \in Stubs : user'[s].fate # "detached"
      /\ \A b \in Accounts : user'[b].fate # "buried"
  BY <1>1, <1>4 DEF TypeOK, Users
<1>6. spared' \subseteq Users
  BY <1>1 DEF TypeOK, Users
<1>7. QED
  BY <1>5, <1>6 DEF TypeOK, Reattach

LEMMA TypeStep ==
  ASSUME TypeOK, [Next]_vars
  PROVE  TypeOK'
<1>1. ASSUME NEW e \in Epochs, Replace(e)
      PROVE  TypeOK'
  <2>1. epoch' \in 1 .. ran' /\ ran' \in Epochs
    BY <1>1, ResetAssumption DEF TypeOK, Replace, Epochs
  <2>2. QED
    BY <1>1, <2>1 DEF TypeOK, Replace
<1>2. ASSUME NEW u \in Users, Learn(u)
      PROVE  TypeOK'
  <2>1. Fresh \in User /\ Fresh.fate = "live"
    BY DEF Fresh, User
  <2>2. /\ user' \in [Users -> User]
        /\ \A v \in Users : \/ user'[v].fate = "live"
                            \/ user'[v].fate = user[v].fate
    BY <1>2, <2>1 DEF TypeOK, Learn
  <2>3. QED
    BY <1>2, <2>2 DEF TypeOK, Learn, Users
<1>3. ASSUME NEW a \in proving, Reattach(a)
      PROVE  TypeOK'
  BY <1>3, ReattachType
<1>4. CASE Fail
  BY <1>4, RowTypes DEF TypeOK, Fail, Statuses
<1>5. CASE AuthThreshold
  <2>1. row.id \in RowIds /\ row.base \in Epochs \cup {Unknown}
    BY DEF TypeOK, Row
  <2>2. probes' \subseteq Probe
    BY <1>5, <2>1 DEF TypeOK, AuthThreshold, Probe
  <2>3. QED
    BY <1>5, <2>2, RowTypes DEF TypeOK, AuthThreshold, Statuses
<1>6. ASSUME NEW kind \in {"recover", "detect"}, Ask(kind)
      PROVE  TypeOK'
  <2>1. row.id \in RowIds /\ row.base \in Epochs \cup {Unknown}
    BY DEF TypeOK, Row
  <2>2. probes' \subseteq Probe
    BY <1>6, <2>1 DEF TypeOK, Ask, Probe
  <2>3. QED
    BY <1>6, <2>2 DEF TypeOK, Ask
<1>7. CASE Answered
  BY <1>7, AnswerType DEF Answered
<1>8. ASSUME NEW p \in probes, NoAnswer(p)
      PROVE  TypeOK'
  BY <1>8 DEF TypeOK, NoAnswer
<1>9. CASE Refresh
  BY <1>9, RowTypes DEF TypeOK, Refresh
<1>10. CASE AcceptRefused
  <2>1. row.id \in RowIds /\ row.base \in Epochs
    BY <1>10, RowTypes DEF TypeOK, Row, AcceptRefused, Differs
  <2>2. QED
    BY <1>10, <2>1, DetectType DEF TypeOK, AcceptRefused
<1>11. CASE AcceptMet
  BY <1>11, AcceptMetType
<1>12. CASE Initiate \/ ApproveInbound
  BY <1>12, RowTypes DEF TypeOK, Initiate, ApproveInbound, PeerAnew
<1>13. CASE Retry
  <2>1. row.id \in RowIds
    BY DEF TypeOK, Row
  <2>2. QED
    BY <1>13, <2>1 DEF TypeOK, Retry
<1>14. ASSUME NEW id \in calls, SettleAccepted(id)
       PROVE  TypeOK'
  BY <1>14, SettleAcceptedType
<1>15. ASSUME NEW id \in calls, SettleOtherwise(id)
       PROVE  TypeOK'
  <2>1. row' \in Row
    BY <1>15, RowTypes DEF TypeOK, SettleOtherwise, Statuses
  <2>2. QED
    BY <1>15, <2>1 DEF TypeOK, SettleOtherwise
<1>16. CASE ResetPeering
  BY <1>16, RowTypes DEF TypeOK, ResetPeering, Statuses
<1>17. CASE Revoke
  BY <1>17, RowTypes DEF TypeOK, Revoke, Statuses
<1>18. ASSUME NEW id \in syncing, SyncEnds(id)
       PROVE  TypeOK'
  BY <1>18 DEF TypeOK, SyncEnds
<1>19. CASE Restart
  BY <1>19 DEF TypeOK, Restart, Forget
<1>20. CASE UNCHANGED vars
  BY <1>20 DEF TypeOK, vars
<1>21. ASSUME NEW a \in Accounts, Prove(a)
       PROVE  TypeOK'
  BY <1>21 DEF TypeOK, Prove
<1>22. ASSUME NEW a \in proving, ProofLost(a)
       PROVE  TypeOK'
  BY <1>22 DEF TypeOK, ProofLost
<1>23. QED
  BY <1>1, <1>2, <1>3, <1>4, <1>5, <1>6, <1>7, <1>8, <1>9, <1>10, <1>11,
     <1>12, <1>13, <1>14, <1>15, <1>16, <1>17, <1>18, <1>19, <1>20, <1>21,
     <1>22
     DEF Next, ProbeUnreachable, Sweep

\* Every reachable state has the types TypeOK names: stubs are never detached
\* and accounts never tombstoned.
THEOREM TypeCorrect == Spec => []TypeOK
<1>1. Init => TypeOK
  <2>1. 1 \in Epochs /\ 1 \in RowIds
    BY ResetAssumption DEF Epochs, RowIds
  <2>2. Absent \in User /\ Absent.fate = "absent"
    BY DEF Absent, User
  <2>3. SUFFICES ASSUME Init
                 PROVE  TypeOK
    OBVIOUS
  <2>4. PICK base \in {Unknown, 1} :
          row = [id |-> 1, status |-> "active", base |-> base, secret |-> 1,
                 reason |-> "other"]
    BY <2>3 DEF Init
  <2>5. row \in Row
    BY <2>1, <2>4 DEF Row, Statuses
  <2>6. user = [u \in Users |-> Absent]
    BY <2>3 DEF Init
  <2>7. /\ user \in [Users -> User]
        /\ \A u \in Users : user[u].fate = "absent"
    BY <2>2, <2>6
  <2>8. /\ epoch = 1 /\ ran = 1
        /\ journal = [open |-> FALSE, dead |-> Unknown]
        /\ probes = {} /\ calls = {} /\ syncing = {} /\ proving = {}
        /\ spared = {}
        /\ stranded = "none"
    BY <2>3 DEF Init
  <2>9. journal \in Journal /\ epoch \in 1 .. ran /\ ran \in Epochs
    BY <2>1, <2>8 DEF Journal
  <2>10. QED
    BY <2>5, <2>7, <2>8, <2>9 DEF TypeOK, Causes, Users
<1>2. TypeOK /\ [Next]_vars => TypeOK'
  BY TypeStep
<1>3. QED
  BY <1>1, <1>2, PTL DEF Spec

-----------------------------------------------------------------------------
(* Late attach proofs.                                                     *)

\* Nothing but the re-attachment itself ends a detachment.
ProvingDetached == \A a \in proving : user[a].fate = "detached"

\* No detection and no heal, whole or cut short, changes a detached account's
\* fate.
LEMMA DetachedStay ==
  ASSUME TypeOK, NEW a \in Accounts, user[a].fate = "detached"
  PROVE  /\ Cleared(a).fate = "detached"
         /\ StubsHealed(a).fate = "detached"
         /\ Healed(a).fate = "detached"
         /\ \A doomed \in SUBSET Doomed : Buried(doomed, a).fate = "detached"
<1>1. user[a] \in User /\ a \notin Doomed
  BY ResetAssumption DEF TypeOK, Users, Doomed
<1>2. QED
  BY <1>1 DEF Cleared, StubsHealed, Healed, Buried, User

LEMMA ActivatedDetached ==
  ASSUME TypeOK, ProvingDetached, NEW id, NEW base, NEW cl,
         Activated(id, base, cl)
  PROVE  ProvingDetached'
<1>1. proving' \subseteq proving
  BY DEF Activated, Forget
<1>2. SUFFICES ASSUME NEW a \in proving
               PROVE  user'[a].fate = "detached"
  BY <1>1 DEF ProvingDetached
<1>3. /\ a \in Accounts /\ a \in Users
      /\ user[a].fate = "detached"
  BY DEF TypeOK, ProvingDetached, Users
<1>4. CASE UNCHANGED user
  BY <1>3, <1>4
<1>5. CASE AlarmOff
  BY <1>3, <1>5, DetachedStay DEF AlarmOff
<1>6. ASSUME NEW doomed \in SUBSET Doomed,
             \/ user' = [u \in Users |-> Buried(doomed, u)]
             \/ user' = [u \in Users |-> StubsHealed(u)]
             \/ user' = [u \in Users |-> Healed(u)]
      PROVE  user'[a].fate = "detached"
  BY <1>3, <1>6, DetachedStay
<1>7. QED
  BY <1>4, <1>5, <1>6 DEF Activated, Heal, HealCut

LEMMA DetachedStep ==
  ASSUME TypeOK, ProvingDetached, [Next]_vars
  PROVE  ProvingDetached'
<1>1. CASE UNCHANGED user /\ proving' \subseteq proving
  BY <1>1 DEF ProvingDetached
<1>2. ASSUME NEW u \in Users, Learn(u)
      PROVE  ProvingDetached'
  BY <1>2 DEF Learn, ProvingDetached, TypeOK, Users
<1>3. ASSUME NEW a \in Accounts, Prove(a)
      PROVE  ProvingDetached'
  BY <1>3 DEF Prove, ProvingDetached
<1>4. ASSUME NEW a \in proving, Reattach(a)
      PROVE  ProvingDetached'
  <2>1. PICK twin \in {{}} \cup {{s} : s \in {t \in Stubs : Present(t)}} :
          user' = [u \in Users |-> IF u = a
                                   THEN [user[a] EXCEPT !.fate = "live"]
                                   ELSE IF u \in twin THEN Absent
                                   ELSE user[u]]
    BY <1>4 DEF Reattach
  <2>2. proving' = proving \ {a} /\ proving \subseteq Accounts
    BY <1>4 DEF Reattach, TypeOK
  <2>3. \A b \in proving' : b \notin twin /\ b # a /\ b \in Users
    BY <2>1, <2>2, ResetAssumption DEF Users
  <2>4. QED
    BY <2>1, <2>2, <2>3 DEF ProvingDetached
<1>5. ASSUME NEW id, NEW dead, Detect(id, dead), UNCHANGED proving
      PROVE  ProvingDetached'
  <2>1. \A u \in Users : user'[u].fate = user[u].fate
    BY <1>5 DEF Detect, Flagged, TypeOK, User
  <2>2. QED
    BY <1>5, <2>1 DEF ProvingDetached, TypeOK, Users
<1>6. ASSUME NEW p \in probes, NEW observed, Answer(p, observed)
      PROVE  ProvingDetached'
  BY <1>1, <1>5, <1>6 DEF Answer, Recovered
<1>7. CASE AcceptRefused
  BY <1>5, <1>7 DEF AcceptRefused
<1>8. CASE AcceptMet
  <2>1. PICK id, base : Activated(id, base, calls)
    BY <1>8 DEF AcceptMet
  <2>2. QED
    BY <2>1, ActivatedDetached
<1>9. ASSUME NEW id \in calls, SettleAccepted(id)
      PROVE  ProvingDetached'
  <2>1. PICK base : Activated(id, base, calls \ {id})
    BY <1>9 DEF SettleAccepted
  <2>2. QED
    BY <2>1, ActivatedDetached
<1>10. QED
  BY <1>1, <1>2, <1>3, <1>4, <1>6, <1>7, <1>8, <1>9
     DEF Next, vars, Replace, ProofLost, Fail, AuthThreshold, ProbeUnreachable,
         Sweep, Ask, Answered, NoAnswer, Refresh, Initiate, ApproveInbound,
         PeerAnew, Retry, SettleOtherwise, ResetPeering, Revoke, SyncEnds,
         Restart, Forget

\* An account whose proof is under way is detached when the answer comes,
\* though the re-attachment does not look.
THEOREM ProvingIsDetached == Spec => []ProvingDetached
<1>1. Init => ProvingDetached
  BY DEF Init, ProvingDetached
<1>2. TypeOK /\ ProvingDetached /\ [Next]_vars => ProvingDetached'
  BY DetachedStep
<1>3. QED
  BY <1>1, <1>2, TypeCorrect, PTL DEF Spec

-----------------------------------------------------------------------------
(* Flags, the journal and the users they hold.                             *)

\* While the journal is open, a live user the last detection holds is flagged.
Held ==
  journal.open =>
    \A u \in Users \ spared : user[u].fate = "live" => user[u].pending

Guarded == SparedSurvive /\ FlagsFollowJournal /\ Held

LEMMA DetectGuards ==
  ASSUME TypeOK, NEW id, NEW dead, Detect(id, dead)
  PROVE  Guarded'
<1>1. spared' = {} /\ journal'.open
  BY DEF Detect, TypeOK, Journal
<1>2. \A u \in Users : user'[u].fate = "live" => user'[u].pending
  BY DEF Detect, Flagged, TypeOK, User, Present
<1>3. QED
  BY <1>1, <1>2 DEF Guarded, SparedSurvive, FlagsFollowJournal, Held

\* A heal, or the part of one that was committed, keeps the guard: it changes
\* flagged users only, and closes the journal when no flag is left.
LEMMA PartHealed ==
  ASSUME Guarded, UNCHANGED spared,
         spared \subseteq Users,
         journal'.open => journal.open,
         \A u \in spared : user'[u] = user[u],
         \A u \in Users : \/ user'[u] = user[u]
                          \/ user'[u].fate \in {"buried", "detached"},
         \A u \in Users : \/ journal'.open
                          \/ ~user'[u].pending
                          \/ user'[u].fate \in {"absent", "buried"}
  PROVE  Guarded'
<1>1. SparedSurvive'
  BY DEF Guarded, SparedSurvive
<1>2. FlagsFollowJournal'
  BY DEF FlagsFollowJournal, Present
<1>3. Held'
  BY DEF Guarded, Held
<1>4. QED
  BY <1>1, <1>2, <1>3 DEF Guarded

LEMMA AlarmOffGuards ==
  ASSUME TypeOK, AlarmOff
  PROVE  Guarded'
<1>1. ASSUME NEW u \in Users
      PROVE  /\ user'[u] = Cleared(u)
             /\ ~user'[u].pending
             /\ user'[u].fate = user[u].fate
             /\ user[u].fate = "live" => user'[u] = Fresh
  <2>1. user[u] \in User /\ user'[u] = Cleared(u)
    BY DEF TypeOK, AlarmOff
  <2>2. QED
    BY <2>1 DEF Cleared, User, Fresh
<1>2. spared' = {u \in Users : user[u].fate = "live"}
  BY DEF AlarmOff
<1>3. QED
  BY <1>1, <1>2 DEF Guarded, SparedSurvive, FlagsFollowJournal, Held

\* What the parts of a heal leave alone.
LEMMA HealedKeep ==
  ASSUME TypeOK, Guarded, NEW u \in Users
  PROVE  /\ u \in spared => /\ StubsHealed(u) = user[u]
                            /\ Healed(u) = user[u]
                            /\ \A doomed \in SUBSET Doomed :
                                 Buried(doomed, u) = user[u]
         /\ StubsHealed(u) = user[u] \/ StubsHealed(u).fate = "buried"
         /\ Healed(u) = user[u] \/ Healed(u).fate \in {"buried", "detached"}
         /\ \A doomed \in SUBSET Doomed :
              Buried(doomed, u) = user[u] \/ Buried(doomed, u).fate = "buried"
         /\ ~Healed(u).pending \/ Healed(u).fate \in {"absent", "buried"}
<1>1. user[u] \in User
  BY DEF TypeOK
<1>2. u \in spared => u \notin Doomed /\ u \notin Orphans
  BY DEF Guarded, SparedSurvive, Fresh, Doomed, Orphans
<1>3. u \in spared => /\ StubsHealed(u) = user[u]
                      /\ Healed(u) = user[u]
                      /\ \A doomed \in SUBSET Doomed :
                           Buried(doomed, u) = user[u]
  BY <1>2 DEF StubsHealed, Healed, Buried
<1>4. /\ StubsHealed(u) = user[u] \/ StubsHealed(u).fate = "buried"
      /\ Healed(u) = user[u] \/ Healed(u).fate \in {"buried", "detached"}
  BY DEF StubsHealed, Healed
<1>5. ASSUME NEW doomed \in SUBSET Doomed
      PROVE  Buried(doomed, u) = user[u] \/ Buried(doomed, u).fate = "buried"
  BY <1>1 DEF Buried, User
<1>6. ~Healed(u).pending \/ Healed(u).fate \in {"absent", "buried"}
  <2>1. CASE u \in Orphans \/ u \in Doomed
    BY <2>1 DEF Healed, StubsHealed
  <2>2. CASE u \notin Orphans /\ u \notin Doomed
    BY <1>1, <2>2 DEF Healed, StubsHealed, Orphans, Doomed, Present, User,
                      Users
  <2>3. QED
    BY <2>1, <2>2
<1>7. QED
  BY <1>3, <1>4, <1>5, <1>6

LEMMA HealGuards ==
  ASSUME TypeOK, Guarded, NEW base, Heal(base)
  PROVE  Guarded'
<1>1. CASE UNCHANGED <<journal, user, spared>>
  BY <1>1 DEF Guarded, SparedSurvive, FlagsFollowJournal, Held, Present
<1>2. CASE AlarmOff
  BY <1>2, AlarmOffGuards
<1>3. CASE /\ user' = [u \in Users |-> Healed(u)]
           /\ Resolved
           /\ UNCHANGED spared
  <2>1. \A u \in Users : user'[u] = Healed(u)
    BY <1>3
  <2>2. ~journal'.open /\ spared \subseteq Users
    BY <1>3 DEF Resolved, TypeOK
  <2>3. \A u \in spared : user'[u] = user[u]
    BY <2>1, <2>2, HealedKeep
  <2>4. \A u \in Users : \/ user'[u] = user[u]
                         \/ user'[u].fate \in {"buried", "detached"}
    BY <2>1, HealedKeep
  <2>5. \A u \in Users : \/ ~user'[u].pending
                         \/ user'[u].fate \in {"absent", "buried"}
    BY <2>1, HealedKeep
  <2>6. QED
    BY <1>3, <2>2, <2>3, <2>4, <2>5, PartHealed
<1>4. QED
  BY <1>1, <1>2, <1>3 DEF Heal

LEMMA HealCutGuards ==
  ASSUME TypeOK, Guarded, NEW base, HealCut(base)
  PROVE  Guarded'
<1>1. journal' = journal /\ journal.open /\ spared \subseteq Users
  BY DEF HealCut, TypeOK
<1>2. CASE UNCHANGED <<user, spared>>
  BY <1>1, <1>2 DEF Guarded, SparedSurvive, FlagsFollowJournal, Held, Present
<1>3. CASE AlarmOff
  BY <1>3, AlarmOffGuards
<1>4. ASSUME UNCHANGED spared, NEW doomed \in SUBSET Doomed,
             user' = [u \in Users |-> Buried(doomed, u)]
      PROVE  Guarded'
  <2>1. \A u \in Users : user'[u] = Buried(doomed, u)
    BY <1>4
  <2>2. \A u \in spared : user'[u] = user[u]
    BY <1>1, <1>4, <2>1, HealedKeep
  <2>3. \A u \in Users : \/ user'[u] = user[u]
                         \/ user'[u].fate \in {"buried", "detached"}
    BY <1>4, <2>1, HealedKeep
  <2>4. QED
    BY <1>1, <1>4, <2>2, <2>3, PartHealed
<1>5. CASE UNCHANGED spared /\ user' = [u \in Users |-> StubsHealed(u)]
  <2>1. \A u \in Users : user'[u] = StubsHealed(u)
    BY <1>5
  <2>2. \A u \in spared : user'[u] = user[u]
    BY <1>1, <2>1, HealedKeep
  <2>3. \A u \in Users : \/ user'[u] = user[u]
                         \/ user'[u].fate \in {"buried", "detached"}
    BY <2>1, HealedKeep
  <2>4. QED
    BY <1>1, <1>5, <2>2, <2>3, PartHealed
<1>6. CASE UNCHANGED spared /\ user' = [u \in Users |-> Healed(u)]
  <2>1. \A u \in Users : user'[u] = Healed(u)
    BY <1>6
  <2>2. \A u \in spared : user'[u] = user[u]
    BY <1>1, <2>1, HealedKeep
  <2>3. \A u \in Users : \/ user'[u] = user[u]
                         \/ user'[u].fate \in {"buried", "detached"}
    BY <2>1, HealedKeep
  <2>4. QED
    BY <1>1, <1>6, <2>2, <2>3, PartHealed
<1>7. QED
  BY <1>2, <1>3, <1>4, <1>5, <1>6 DEF HealCut

LEMMA ActivatedGuards ==
  ASSUME TypeOK, Guarded, NEW id, NEW base, NEW cl,
         Activated(id, base, cl)
  PROVE  Guarded'
<1>1. CASE UNCHANGED <<journal, user, syncing, spared>>
  BY <1>1 DEF Guarded, SparedSurvive, FlagsFollowJournal, Held, Present
<1>2. CASE Heal(base)
  BY <1>2, HealGuards
<1>3. CASE HealCut(base)
  BY <1>3, HealCutGuards
<1>4. QED
  BY <1>1, <1>2, <1>3 DEF Activated

LEMMA ReattachGuards ==
  ASSUME TypeOK, ProvingDetached, Guarded, NEW a \in proving, Reattach(a)
  PROVE  Guarded'
<1>1. PICK twin \in {{}} \cup {{s} : s \in {t \in Stubs : Present(t)}} :
        /\ user' = [u \in Users |-> IF u = a THEN [user[a] EXCEPT !.fate = "live"]
                                    ELSE IF u \in twin THEN Absent
                                    ELSE user[u]]
        /\ spared' = (spared \ twin)
                     \cup (IF user[a].pending THEN {} ELSE {a})
  BY DEF Reattach
<1>2. /\ a \in Users
      /\ a \notin twin
      /\ user[a] \in User
      /\ user[a].fate = "detached"
      /\ journal' = journal
  BY ResetAssumption DEF Reattach, ProvingDetached, Users, TypeOK
<1>3. /\ user'[a].fate = "live"
      /\ user'[a].pending = user[a].pending
      /\ ~user[a].pending => user'[a] = Fresh
  BY <1>1, <1>2 DEF User, Fresh
<1>4. \A u \in Users \ {a} : user'[u] = IF u \in twin THEN Absent ELSE user[u]
  BY <1>1
<1>5. Absent.fate = "absent" /\ ~Absent.pending
  BY DEF Absent
<1>6. SparedSurvive'
  <2>1. SUFFICES ASSUME NEW u \in spared'
                 PROVE  user'[u] = Fresh
    BY DEF SparedSurvive
  <2>2. Fresh.fate = "live"
    BY DEF Fresh
  <2>3. CASE u = a
    <3>1. a \notin spared
      BY <1>2, <2>2 DEF Guarded, SparedSurvive
    <3>2. QED
      BY <1>1, <1>3, <2>1, <2>3, <3>1
  <2>4. CASE u # a
    <3>1. u \in spared /\ u \notin twin
      BY <1>1, <2>1, <2>4
    <3>2. u \in Users /\ user[u] = Fresh
      BY <3>1 DEF Guarded, SparedSurvive, TypeOK
    <3>3. QED
      BY <1>4, <2>4, <3>1, <3>2
  <2>5. QED
    BY <2>3, <2>4
<1>7. FlagsFollowJournal'
  <2>1. SUFFICES ASSUME NEW u \in Users, user'[u].pending,
                        user'[u].fate \in {"live", "detached"}
                 PROVE  journal.open
    BY <1>2 DEF FlagsFollowJournal, Present
  <2>2. user[u].pending /\ user[u].fate \in {"live", "detached"}
    BY <1>2, <1>3, <1>4, <1>5, <2>1
  <2>3. QED
    BY <2>2 DEF Guarded, FlagsFollowJournal, Present
<1>8. Held'
  <2>1. SUFFICES ASSUME journal.open, NEW u \in Users, u \notin spared',
                        user'[u].fate = "live"
                 PROVE  user'[u].pending
    BY <1>2 DEF Held
  <2>2. CASE u = a
    BY <1>1, <1>3, <2>1, <2>2
  <2>3. CASE u # a
    <3>1. u \notin twin /\ user'[u] = user[u] /\ u \notin spared
      BY <1>1, <1>4, <1>5, <2>1, <2>3
    <3>2. QED
      BY <2>1, <3>1 DEF Guarded, Held
  <2>4. QED
    BY <2>2, <2>3
<1>9. QED
  BY <1>6, <1>7, <1>8 DEF Guarded

LEMMA GuardedStep ==
  ASSUME TypeOK, ProvingDetached, Guarded, [Next]_vars
  PROVE  Guarded'
<1>1. CASE UNCHANGED <<journal, user, spared>>
  BY <1>1 DEF Guarded, SparedSurvive, FlagsFollowJournal, Held, Present
<1>2. ASSUME NEW u \in Users, Learn(u)
      PROVE  Guarded'
  <2>1. /\ user'[u] = Fresh
        /\ \A v \in Users \ {u} : user'[v] = user[v]
        /\ spared' = spared \cup {u}
        /\ journal' = journal
    BY <1>2 DEF Learn, TypeOK
  <2>2. Fresh.fate = "live" /\ ~Fresh.pending
    BY DEF Fresh
  <2>3. QED
    BY <2>1, <2>2 DEF Guarded, SparedSurvive, FlagsFollowJournal, Held,
                      Present, TypeOK
<1>3. ASSUME NEW a \in proving, Reattach(a)
      PROVE  Guarded'
  BY <1>3, ReattachGuards
<1>4. ASSUME NEW p \in probes, NEW observed, Answer(p, observed)
      PROVE  Guarded'
  <2>1. CASE Detect(p.id, p.base)
    BY <2>1, DetectGuards
  <2>2. CASE Recovered(p.id)
    BY <1>1, <2>2 DEF Recovered
  <2>3. CASE UNCHANGED <<row, journal, user, syncing, spared, stranded>>
    BY <1>1, <2>3
  <2>4. QED
    BY <1>4, <2>1, <2>2, <2>3 DEF Answer
<1>5. CASE AcceptRefused
  BY <1>5, DetectGuards DEF AcceptRefused
<1>6. CASE AcceptMet
  <2>1. PICK id, base : Activated(id, base, calls)
    BY <1>6 DEF AcceptMet
  <2>2. QED
    BY <2>1, ActivatedGuards
<1>7. ASSUME NEW id \in calls, SettleAccepted(id)
      PROVE  Guarded'
  <2>1. PICK base : Activated(id, base, calls \ {id})
    BY <1>7 DEF SettleAccepted
  <2>2. QED
    BY <2>1, ActivatedGuards
<1>8. QED
  BY <1>1, <1>2, <1>3, <1>4, <1>5, <1>6, <1>7
     DEF Next, vars, Replace, Prove, ProofLost, Fail, AuthThreshold,
         ProbeUnreachable, Sweep, Ask, Answered, NoAnswer, Refresh, Initiate,
         ApproveInbound, PeerAnew, Retry, SettleOtherwise, ResetPeering,
         Revoke, SyncEnds, Restart

\* Users created or re-attached since the last detection, and those a false
\* alarm cleared, are live and unflagged.
THEOREM SparedSurviveHolds == Spec => []SparedSurvive
<1>1. Init => Guarded
  BY DEF Init, Guarded, SparedSurvive, FlagsFollowJournal, Held, Absent
<1>2. TypeOK /\ ProvingDetached /\ Guarded /\ [Next]_vars => Guarded'
  BY GuardedStep
<1>3. Guarded => SparedSurvive
  BY DEF Guarded
<1>4. QED
  BY <1>1, <1>2, <1>3, TypeCorrect, ProvingIsDetached, PTL DEF Spec

\* A flagged user has an open journal.
THEOREM FlagsFollow == Spec => []FlagsFollowJournal
<1>1. Init => Guarded
  BY DEF Init, Guarded, SparedSurvive, FlagsFollowJournal, Held, Absent
<1>2. TypeOK /\ ProvingDetached /\ Guarded /\ [Next]_vars => Guarded'
  BY GuardedStep
<1>3. Guarded => FlagsFollowJournal
  BY DEF Guarded
<1>4. QED
  BY <1>1, <1>2, <1>3, TypeCorrect, ProvingIsDetached, PTL DEF Spec

-----------------------------------------------------------------------------
(* The row and the journal.                                                *)

LEMMA ActivatedIsHealed ==
  ASSUME TypeOK, NEW id, NEW base, NEW cl, Activated(id, base, cl)
  PROVE  journal'.open => stranded' # "none"
<1>1. CASE /\ stranded' = IF journal.open THEN "joined" ELSE "none"
           /\ UNCHANGED journal
  BY <1>1
<1>2. CASE Heal(base)
  BY <1>2 DEF Heal, Resolved
<1>3. CASE HealCut(base)
  BY <1>3 DEF HealCut
<1>4. QED
  BY <1>1, <1>2, <1>3 DEF Activated

LEMMA ActiveStep ==
  ASSUME TypeOK, ActiveMeansHealed, [Next]_vars
  PROVE  ActiveMeansHealed'
<1>1. CASE /\ UNCHANGED <<journal, stranded>>
           /\ row'.status = "active" => row.status = "active"
  BY <1>1 DEF ActiveMeansHealed
<1>2. CASE journal'.open => stranded' # "none"
  BY <1>2 DEF ActiveMeansHealed
<1>3. ASSUME NEW id, NEW dead, Detect(id, dead)
      PROVE  ActiveMeansHealed'
  BY <1>3 DEF ActiveMeansHealed, Detect
<1>4. ASSUME NEW p \in probes, NEW observed, Answer(p, observed)
      PROVE  ActiveMeansHealed'
  <2>1. CASE Recovered(p.id)
    BY <1>2, <2>1 DEF Recovered
  <2>2. CASE UNCHANGED <<row, journal, user, syncing, spared, stranded>>
    BY <1>1, <2>2
  <2>3. QED
    BY <1>3, <1>4, <2>1, <2>2 DEF Answer
<1>5. CASE AcceptRefused
  BY <1>3, <1>5 DEF AcceptRefused
<1>6. CASE AcceptMet
  <2>1. PICK id, base : Activated(id, base, calls)
    BY <1>6 DEF AcceptMet
  <2>2. QED
    BY <1>2, <2>1, ActivatedIsHealed
<1>7. ASSUME NEW id \in calls, SettleAccepted(id)
      PROVE  ActiveMeansHealed'
  <2>1. PICK base : Activated(id, base, calls \ {id})
    BY <1>7 DEF SettleAccepted
  <2>2. QED
    BY <1>2, <2>1, ActivatedIsHealed
<1>8. CASE Refresh \/ Fail \/ AuthThreshold \/ ResetPeering \/ Revoke
  <2>1. row \in Row
    BY DEF TypeOK
  <2>2. QED
    BY <1>1, <1>8, <2>1 DEF Row, Refresh, Fail, AuthThreshold, ResetPeering,
                            Revoke
<1>9. CASE Initiate \/ ApproveInbound
  BY <1>1, <1>9 DEF Initiate, ApproveInbound, PeerAnew, NextRow
<1>10. ASSUME NEW id \in calls, SettleOtherwise(id)
       PROVE  ActiveMeansHealed'
  <2>1. row \in Row
    BY DEF TypeOK
  <2>2. QED
    BY <1>1, <1>10, <2>1 DEF Row, SettleOtherwise
<1>11. CASE UNCHANGED <<row, journal, stranded>>
  BY <1>1, <1>11
<1>12. QED
  BY <1>4, <1>5, <1>6, <1>7, <1>8, <1>9, <1>10, <1>11
     DEF Next, vars, Replace, Learn, Prove, Reattach, ProofLost,
         ProbeUnreachable, Sweep, Ask, Answered, NoAnswer, Retry, SyncEnds,
         Restart

\* An active row whose reset is unhealed has one of the named causes.
THEOREM ActiveHealed == Spec => []ActiveMeansHealed
<1>1. Init => ActiveMeansHealed
  BY DEF Init, ActiveMeansHealed
<1>2. TypeOK /\ ActiveMeansHealed /\ [Next]_vars => ActiveMeansHealed'
  BY ActiveStep
<1>3. QED
  BY <1>1, <1>2, TypeCorrect, PTL DEF Spec

-----------------------------------------------------------------------------
(* A peer that was never replaced.                                         *)

\* Nobody here knows an epoch that has not run.
KnownEpochs ==
  /\ row.base <= ran
  /\ \A p \in probes : p.base <= ran

Quiet == KnownEpochs /\ UnchangedUntouched

LEMMA KnownStep ==
  ASSUME TypeOK, KnownEpochs, [Next]_vars
  PROVE  KnownEpochs'
<1>1. /\ row \in Row /\ probes \subseteq Probe
      /\ epoch \in Nat /\ ran \in Nat /\ epoch <= ran
      /\ row.base \in Nat
      /\ \A p \in Probe : p.base \in Nat
  BY ResetAssumption DEF TypeOK, Epochs, Row, Probe, Unknown
<1>2. CASE UNCHANGED ran /\ row'.base \in {row.base, epoch, 0}
                         /\ \A p \in probes' : p \in probes \/ p.base = row.base
  BY <1>1, <1>2 DEF KnownEpochs
<1>3. ASSUME NEW e \in Epochs, Replace(e)
      PROVE  KnownEpochs'
  <2>1. ran' \in Nat /\ ran <= ran'
    BY <1>1, <1>3, ResetAssumption DEF Replace, Epochs
  <2>2. QED
    BY <1>1, <1>3, <2>1 DEF Replace, KnownEpochs
<1>4. ASSUME NEW p \in probes, NEW observed, Answer(p, observed)
      PROVE  KnownEpochs'
  <2>1. row'.base = row.base /\ probes' \subseteq probes /\ UNCHANGED ran
    BY <1>1, <1>4 DEF Answer, Detect, Row
  <2>2. QED
    BY <1>2, <2>1
<1>5. CASE AcceptRefused
  <2>1. row'.base = row.base /\ UNCHANGED <<ran, probes>>
    BY <1>1, <1>5 DEF AcceptRefused, Detect, Row
  <2>2. QED
    BY <1>2, <2>1
<1>6. ASSUME NEW id, NEW base, NEW cl, Activated(id, base, cl)
      PROVE  probes' \subseteq probes
  BY <1>6 DEF Activated, Forget
<1>7. CASE AcceptMet
  <2>1. row'.base = epoch /\ UNCHANGED ran
    BY <1>1, <1>7 DEF AcceptMet, Met, NextRow, Row
  <2>2. probes' \subseteq probes
    <3>1. PICK id, base : Activated(id, base, calls)
      BY <1>7 DEF AcceptMet
    <3>2. QED
      BY <1>6, <3>1
  <2>3. QED
    BY <1>2, <2>1, <2>2
<1>8. ASSUME NEW id \in calls, SettleAccepted(id)
      PROVE  KnownEpochs'
  <2>1. row'.base = epoch /\ UNCHANGED ran
    BY <1>1, <1>8 DEF SettleAccepted, Met, Row
  <2>2. probes' \subseteq probes
    <3>1. PICK base : Activated(id, base, calls \ {id})
      BY <1>8 DEF SettleAccepted
    <3>2. QED
      BY <1>6, <3>1
  <2>3. QED
    BY <1>2, <2>1, <2>2
<1>9. CASE Initiate \/ ApproveInbound
  BY <1>2, <1>9 DEF Initiate, ApproveInbound, PeerAnew, NextRow, Unknown
<1>10. ASSUME NEW id \in calls, SettleOtherwise(id)
       PROVE  KnownEpochs'
  BY <1>1, <1>2, <1>10 DEF SettleOtherwise, Row
<1>11. CASE Fail \/ Refresh \/ ResetPeering \/ Revoke
  BY <1>1, <1>2, <1>11 DEF Fail, Refresh, ResetPeering, Revoke, Row
<1>12. CASE AuthThreshold
  BY <1>1, <1>2, <1>12 DEF AuthThreshold, Row
<1>13. ASSUME NEW kind, Ask(kind)
       PROVE  KnownEpochs'
  BY <1>1, <1>2, <1>13 DEF Ask
<1>14. CASE UNCHANGED <<ran, row>> /\ probes' \subseteq probes
  BY <1>2, <1>14
<1>15. QED
  BY <1>3, <1>4, <1>5, <1>7, <1>8, <1>9, <1>10, <1>11, <1>12, <1>13, <1>14
     DEF Next, vars, Learn, Prove, Reattach, ProofLost, ProbeUnreachable,
         Sweep, Answered, NoAnswer, Retry, SyncEnds, Restart, Forget

\* With one incarnation, no answer differs from a baseline.
LEMMA NothingDiffers ==
  ASSUME TypeOK, KnownEpochs, ran = 1
  PROVE  /\ epoch = 1
         /\ \A observed \in {epoch, Unknown} :
              /\ ~Differs(row.base, observed)
              /\ \A p \in probes : ~Differs(p.base, observed)
<1>1. /\ epoch = 1
      /\ row.base \in {0, 1}
      /\ \A p \in probes : p.base \in {0, 1}
  BY ResetAssumption
     DEF TypeOK, KnownEpochs, Epochs, Row, Probe, Unknown
<1>2. QED
  BY <1>1 DEF Differs, Unknown

LEMMA UntouchedStep ==
  ASSUME TypeOK, ProvingDetached, Quiet, [Next]_vars
  PROVE  UnchangedUntouched'
<1>1. SUFFICES ASSUME ran' = 1
               PROVE  /\ ~journal'.open
                      /\ \A u \in Users : /\ ~user'[u].pending
                                          /\ user'[u].fate \in {"absent", "live"}
  BY DEF UnchangedUntouched
<1>2. ran = 1
  <2>1. ASSUME NEW e \in Epochs, Replace(e)
        PROVE  ran = 1
    BY <1>1, <2>1, ResetAssumption DEF TypeOK, Replace, Epochs
  <2>2. CASE UNCHANGED ran
    BY <1>1, <2>2
  <2>3. QED
    BY <2>1, <2>2
       DEF Next, vars, Learn, Prove, Reattach, ProofLost, Fail, AuthThreshold,
           ProbeUnreachable, Sweep, Ask, Answered, Answer, NoAnswer, Refresh,
           AcceptRefused, AcceptMet, Initiate, ApproveInbound, PeerAnew, Retry,
           SettleAccepted, SettleOtherwise, ResetPeering, Revoke, SyncEnds,
           Restart
<1>3. /\ ~journal.open
      /\ \A u \in Users : /\ ~user[u].pending
                          /\ user[u].fate \in {"absent", "live"}
  BY <1>2 DEF Quiet, UnchangedUntouched
<1>4. CASE UNCHANGED <<journal, user>>
  BY <1>3, <1>4
<1>5. ASSUME NEW u \in Users, Learn(u)
      PROVE  /\ ~journal'.open
             /\ \A v \in Users : /\ ~user'[v].pending
                                 /\ user'[v].fate \in {"absent", "live"}
  BY <1>3, <1>5 DEF Learn, Fresh, TypeOK
<1>6. ASSUME NEW a \in proving, Reattach(a)
      PROVE  FALSE
  BY <1>3, <1>6 DEF ProvingDetached, TypeOK, Users
<1>7. ASSUME NEW p \in probes, NEW observed \in {epoch, Unknown},
             Answer(p, observed)
      PROVE  UNCHANGED <<journal, user>>
  <2>1. ~Differs(p.base, observed)
    BY <1>2, <1>7, NothingDiffers DEF Quiet
  <2>2. QED
    BY <1>7, <2>1 DEF Answer, Recovered
<1>8. ~AcceptRefused
  BY <1>2, NothingDiffers DEF Quiet, AcceptRefused
<1>9. ASSUME NEW id, NEW base, NEW cl, Activated(id, base, cl)
      PROVE  UNCHANGED <<journal, user>>
  BY <1>3, <1>9 DEF Activated, Heal, HealCut
<1>10. CASE AcceptMet
  <2>1. PICK id, base : Activated(id, base, calls)
    BY <1>10 DEF AcceptMet
  <2>2. QED
    BY <1>4, <1>9, <2>1
<1>11. ASSUME NEW id \in calls, SettleAccepted(id)
       PROVE  UNCHANGED <<journal, user>>
  <2>1. PICK base : Activated(id, base, calls \ {id})
    BY <1>11 DEF SettleAccepted
  <2>2. QED
    BY <1>9, <2>1
<1>12. QED
  BY <1>4, <1>5, <1>6, <1>7, <1>8, <1>10, <1>11
     DEF Next, vars, Replace, Prove, ProofLost, Fail, AuthThreshold,
         ProbeUnreachable, Sweep, Ask, Answered, NoAnswer, Refresh, Initiate,
         ApproveInbound, PeerAnew, Retry, SettleOtherwise, ResetPeering,
         Revoke, SyncEnds, Restart

\* A peer that was never replaced loses nobody and is never journalled.
THEOREM Untouched == Spec => []UnchangedUntouched
<1>1. Init => Quiet
  BY ResetAssumption
     DEF Init, Quiet, KnownEpochs, UnchangedUntouched, Unknown, Absent
<1>2. TypeOK /\ ProvingDetached /\ Quiet /\ [Next]_vars => Quiet'
  BY KnownStep, UntouchedStep DEF Quiet
<1>3. Quiet => UnchangedUntouched
  BY DEF Quiet
<1>4. QED
  BY <1>1, <1>2, <1>3, TypeCorrect, ProvingIsDetached, PTL DEF Spec

-----------------------------------------------------------------------------
(* Users are lost on proof only, and then completely.                      *)

Losing == \E u \in Users : Lost(u)

Closing == journal.open /\ ~journal'.open

\* All of those the detection holds are gone.
Complete == \A u \in Users \ spared :
              user'[u].fate \in {"absent", "buried", "detached"}

LEMMA NobodyLost ==
  ASSUME \A u \in Users : user'[u].fate = user[u].fate
  PROVE  ~Losing
BY DEF Losing, Lost

LEMMA DetectLosesNobody ==
  ASSUME TypeOK, NEW id, NEW dead, Detect(id, dead)
  PROVE  ~Losing /\ ~Closing
<1>1. \A u \in Users : user'[u].fate = user[u].fate
  BY DEF Detect, Flagged, TypeOK, User
<1>2. journal.open => journal'.open
  BY DEF Detect
<1>3. QED
  BY <1>1, <1>2, NobodyLost DEF Closing

LEMMA AlarmOffLosesNobody ==
  ASSUME TypeOK, AlarmOff
  PROVE  ~Losing
<1>1. \A u \in Users : user'[u].fate = user[u].fate
  BY HealedTypes DEF AlarmOff
<1>2. QED
  BY <1>1, NobodyLost

LEMMA HealLoses ==
  ASSUME TypeOK, Guarded, NEW base, Heal(base)
  PROVE  /\ Losing => journal.dead # base
         /\ Closing /\ journal.dead # base => Complete
<1>1. CASE UNCHANGED <<journal, user, spared>>
  BY <1>1, NobodyLost DEF Closing
<1>2. CASE journal.dead = base /\ AlarmOff
  BY <1>2, AlarmOffLosesNobody
<1>3. CASE /\ journal.open
           /\ journal.dead # base
           /\ user' = [u \in Users |-> Healed(u)]
  <2>1. ASSUME NEW u \in Users \ spared
        PROVE  user'[u].fate \in {"absent", "buried", "detached"}
    <3>1. user'[u] = Healed(u) /\ user[u] \in User
      BY <1>3 DEF TypeOK
    <3>2. CASE u \in Orphans
      BY <3>1, <3>2 DEF Healed
    <3>3. CASE u \notin Orphans /\ u \in Doomed
      BY <3>1, <3>3 DEF Healed, StubsHealed
    <3>4. CASE u \notin Orphans /\ u \notin Doomed
      <4>1. user[u].fate # "live"
        BY <1>3, <3>4 DEF Guarded, Held, Orphans, Doomed, Present, Users
      <4>2. QED
        BY <3>1, <3>4, <4>1 DEF Healed, StubsHealed, User
    <3>5. QED
      BY <3>2, <3>3, <3>4
  <2>2. QED
    BY <1>3, <2>1 DEF Complete
<1>4. QED
  BY <1>1, <1>2, <1>3 DEF Heal

LEMMA ActivatedLoses ==
  ASSUME TypeOK, Guarded, NEW id, NEW base, NEW cl,
         Activated(id, base, cl)
  PROVE  /\ Losing => journal.dead # base
         /\ Closing /\ journal.dead # base => Complete
<1>1. CASE UNCHANGED <<journal, user, syncing, spared>>
  BY <1>1, NobodyLost DEF Closing
<1>2. CASE Heal(base)
  BY <1>2, HealLoses
<1>3. CASE HealCut(base)
  <2>1. ~Closing
    BY <1>3 DEF HealCut, Closing
  <2>2. CASE UNCHANGED <<user, spared>>
    BY <2>1, <2>2, NobodyLost
  <2>3. CASE AlarmOff
    BY <2>1, <2>3, AlarmOffLosesNobody
  <2>4. QED
    BY <1>3, <2>1, <2>2, <2>3 DEF HealCut
<1>4. QED
  BY <1>1, <1>2, <1>3 DEF Activated

\* Only a handshake with the running incarnation loses users or closes the
\* journal.
LEMMA LossStep ==
  ASSUME TypeOK, Guarded, [Next]_vars, Losing \/ Closing
  PROVE  /\ row'.status = "active"
         /\ row'.base = epoch'
         /\ Losing => journal.dead # epoch'
         /\ Closing /\ journal.dead # epoch' => Complete
<1>1. ASSUME UNCHANGED <<journal, user>>
      PROVE  FALSE
  BY <1>1, NobodyLost DEF Closing
<1>2. ASSUME NEW u \in Users, Learn(u)
      PROVE  FALSE
  BY <1>2 DEF Learn, Losing, Lost, Closing, TypeOK, Fresh
<1>3. ASSUME NEW a \in proving, Reattach(a)
      PROVE  FALSE
  <2>1. ~Closing
    BY <1>3 DEF Reattach, Closing
  <2>2. PICK twin \in {{}} \cup {{s} : s \in {t \in Stubs : Present(t)}} :
          user' = [u \in Users |-> IF u = a
                                   THEN [user[a] EXCEPT !.fate = "live"]
                                   ELSE IF u \in twin THEN Absent
                                   ELSE user[u]]
    BY <1>3 DEF Reattach
  <2>3. user[a] \in User /\ a \in Users
    BY DEF TypeOK, Users
  <2>4. ASSUME NEW u \in Users, Lost(u)
        PROVE  FALSE
    BY <2>2, <2>3, <2>4 DEF Lost, Absent, User
  <2>5. QED
    BY <2>1, <2>4 DEF Losing
<1>4. ASSUME NEW p \in probes, NEW observed, Answer(p, observed)
      PROVE  FALSE
  <2>1. CASE Detect(p.id, p.base)
    BY <2>1, DetectLosesNobody
  <2>2. CASE Recovered(p.id)
    BY <1>1, <2>2 DEF Recovered
  <2>3. CASE UNCHANGED <<row, journal, user, syncing, spared, stranded>>
    BY <1>1, <2>3
  <2>4. QED
    BY <1>4, <2>1, <2>2, <2>3 DEF Answer
<1>5. ASSUME AcceptRefused
      PROVE  FALSE
  BY <1>5, DetectLosesNobody DEF AcceptRefused
<1>6. CASE AcceptMet
  <2>1. row'.status = "active" /\ row'.base = epoch /\ epoch' = epoch
    BY <1>6 DEF AcceptMet, Met, NextRow, TypeOK, Row
  <2>2. PICK id, base : base = row'.base /\ Activated(id, base, calls)
    BY <1>6 DEF AcceptMet
  <2>3. QED
    BY <2>1, <2>2, ActivatedLoses
<1>7. ASSUME NEW id \in calls, SettleAccepted(id)
      PROVE  /\ row'.status = "active"
             /\ row'.base = epoch'
             /\ Losing => journal.dead # epoch'
             /\ Closing /\ journal.dead # epoch' => Complete
  <2>1. row'.status = "active" /\ row'.base = epoch /\ epoch' = epoch
    BY <1>7 DEF SettleAccepted, Met, TypeOK, Row
  <2>2. PICK base : /\ base = row'.base
                    /\ Activated(id, base, calls \ {id})
    BY <1>7 DEF SettleAccepted
  <2>3. QED
    BY <2>1, <2>2, ActivatedLoses
<1>8. QED
  BY <1>1, <1>2, <1>3, <1>4, <1>5, <1>6, <1>7
     DEF Next, vars, Replace, Prove, ProofLost, Fail, AuthThreshold,
         ProbeUnreachable, Sweep, Ask, Answered, NoAnswer, Refresh, Initiate,
         ApproveInbound, PeerAnew, Retry, SettleOtherwise, ResetPeering,
         Revoke, SyncEnds, Restart

\* Users are lost and journals closed only by a handshake that proved the
\* running incarnation; users only when it is another than the dead one.
THEOREM HealByProof == Spec => HealsByProof
<1>1. TypeOK /\ Guarded /\ [Next]_vars =>
        [/\ (\E u \in Users : Lost(u)) \/ (journal.open /\ ~journal'.open)
              => row'.status = "active" /\ row'.base = epoch'
         /\ (\E u \in Users : Lost(u)) => journal.dead # epoch']_vars
  BY LossStep DEF Losing, Closing
<1>2. Init => Guarded
  BY DEF Init, Guarded, SparedSurvive, FlagsFollowJournal, Held, Absent
<1>3. TypeOK /\ ProvingDetached /\ Guarded /\ [Next]_vars => Guarded'
  BY GuardedStep
<1>4. QED
  BY <1>1, <1>2, <1>3, TypeCorrect, ProvingIsDetached, PTL
     DEF Spec, HealsByProof

\* A heal after a change of incarnation leaves nobody the detection held.
THEOREM HealComplete == Spec => HealIsComplete
<1>1. TypeOK /\ Guarded /\ [Next]_vars =>
        [journal.open /\ ~journal'.open /\ journal.dead # epoch'
           => \A u \in Users \ spared :
                user'[u].fate \in {"absent", "buried", "detached"}]_vars
  BY LossStep DEF Closing, Complete
<1>2. Init => Guarded
  BY DEF Init, Guarded, SparedSurvive, FlagsFollowJournal, Held, Absent
<1>3. TypeOK /\ ProvingDetached /\ Guarded /\ [Next]_vars => Guarded'
  BY GuardedStep
<1>4. QED
  BY <1>1, <1>2, <1>3, TypeCorrect, ProvingIsDetached, PTL
     DEF Spec, HealIsComplete
=============================================================================
