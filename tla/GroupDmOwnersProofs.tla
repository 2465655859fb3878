------------------------ MODULE GroupDmOwnersProofs ------------------------
(***************************************************************************)
(* Machine-checked agreement of GroupDm's instances about the owner, for   *)
(* every set of instances and users, every placement of the users and      *)
(* every bound: when no transfer is left that an instance would take, it   *)
(* believes the owner to be where the seat is, the seat is somewhere, and  *)
(* the owner is the same user everywhere if no two transfers of an issuer  *)
(* changed places.  At the end, the seat as a baton: GroupDm implements    *)
(* SeatPromise.                                                            *)
(*                                                                         *)
(* The transfers of a group form a trail over the instances: each is       *)
(* issued where the one before it led.  What an instance has still to be   *)
(* told is a trail as well, from where it believes the owner to be to      *)
(* where the seat is, with round trips beside it.                          *)
(***************************************************************************)
EXTENDS GroupDmProofs

-----------------------------------------------------------------------------
(* Trails over the instances.                                              *)

\* The transfers E of log L form a trail from one instance to another, and
\* round trips: "next" leads from each of them to one that is issued where it
\* ends.  0 stands for the point before the trail and the one behind it.
Chains(next, L, E, from, to) ==
  /\ next \in [E \cup {0} -> E \cup {0}]
  /\ \A x, y \in E \cup {0} : next[x] = next[y] => x = y
  /\ \A x \in E \cup {0} :
       (IF next[x] = 0 THEN to ELSE L[next[x]].src)
         = (IF x = 0 THEN from ELSE Home[L[x].who])

Trail(L, E, from, to) == \E next : Chains(next, L, E, from, to)

\* Nothing left to be told: the trail ends where it starts.
LEMMA TrailEmpty ==
  ASSUME NEW L, NEW i
  PROVE  Trail(L, {}, i, i)
<1> DEFINE next == [x \in {} \cup {0} |-> 0]
<1>1. Chains(next, L, {}, i, i)
  BY DEF Chains
<1>2. QED
  BY <1>1 DEF Trail

\* Nothing left to take: the trail has no first step.
LEMMA TrailEnds ==
  ASSUME NEW L, NEW E, 0 \notin E, NEW from, NEW to, Trail(L, E, from, to),
         \A e \in E : L[e].src # from
  PROVE  from = to
<1>1. PICK next : Chains(next, L, E, from, to)
  BY DEF Trail
<1>2. next[0] = 0
  BY <1>1 DEF Chains
<1>3. QED
  BY <1>1, <1>2 DEF Chains

\* The log may grow beside the trail.
LEMMA TrailSame ==
  ASSUME NEW L, NEW M, NEW E, 0 \notin E, NEW from, NEW to,
         Trail(L, E, from, to), \A e \in E : M[e] = L[e]
  PROVE  Trail(M, E, from, to)
<1>1. PICK next : Chains(next, L, E, from, to)
  BY DEF Trail
<1>2. Chains(next, M, E, from, to)
  BY <1>1 DEF Chains
<1>3. QED
  BY <1>2 DEF Trail

\* Taking a transfer that starts where the trail does leaves a trail from where
\* it leads.
LEMMA TrailTake ==
  ASSUME NEW L, NEW E, 0 \notin E, NEW from, NEW to, Trail(L, E, from, to),
         NEW e \in E, L[e].src = from
  PROVE  Trail(L, E \ {e}, Home[L[e].who], to)
<1>1. PICK next : Chains(next, L, E, from, to)
  BY DEF Trail
<1> DEFINE F == E \ {e}
           skip == [x \in F \cup {0} |->
                      IF x = 0 THEN IF next[e] = e THEN next[0] ELSE next[e]
                      ELSE IF next[x] = e THEN next[0] ELSE next[x]]
<1>2. /\ next \in [E \cup {0} -> E \cup {0}]
      /\ \A x, y \in E \cup {0} : next[x] = next[y] => x = y
      /\ \A x \in E \cup {0} :
           (IF next[x] = 0 THEN to ELSE L[next[x]].src)
             = (IF x = 0 THEN from ELSE Home[L[x].who])
  BY <1>1 DEF Chains
<1>3. e # 0 /\ 0 \notin F /\ e \notin F
  OBVIOUS
<1>4. skip[0] = IF next[e] = e THEN next[0] ELSE next[e]
  OBVIOUS
<1>5. \A x \in F : skip[x] = IF next[x] = e THEN next[0] ELSE next[x]
  BY <1>3
<1>6. skip \in [F \cup {0} -> F \cup {0}]
  <2>1. skip[0] \in F \cup {0}
    BY <1>2, <1>3, <1>4
  <2>2. \A x \in F : skip[x] \in F \cup {0}
    BY <1>2, <1>3, <1>5
  <2>3. QED
    BY <2>1, <2>2
<1> HIDE DEF skip
<1>7. \A x, y \in F \cup {0} : skip[x] = skip[y] => x = y
  <2>1. \A x, y \in F : skip[x] = skip[y] => x = y
    BY <1>2, <1>3, <1>5
  <2>2. \A x \in F : skip[x] # skip[0]
    BY <1>2, <1>3, <1>4, <1>5
  <2>3. QED
    BY <2>1, <2>2
<1>8. (IF skip[0] = 0 THEN to ELSE L[skip[0]].src) = Home[L[e].who]
  BY <1>2, <1>3, <1>4
<1>9. \A x \in F :
        (IF skip[x] = 0 THEN to ELSE L[skip[x]].src) = Home[L[x].who]
  BY <1>2, <1>3, <1>5
<1>10. Chains(skip, L, F, Home[L[e].who], to)
  BY <1>3, <1>6, <1>7, <1>8, <1>9 DEF Chains
<1>11. QED
  BY <1>10 DEF Trail

\* A transfer issued where the trail ends prolongs it.
LEMMA TrailExtend ==
  ASSUME NEW L, NEW E, 0 \notin E, NEW from, NEW to, Trail(L, E, from, to),
         NEW n, n \notin E, n # 0, L[n].src = to
  PROVE  Trail(L, E \cup {n}, from, Home[L[n].who])
<1>1. PICK next : Chains(next, L, E, from, to)
  BY DEF Trail
<1> DEFINE F == E \cup {n}
           longer == [x \in F \cup {0} |->
                        IF x = n THEN 0 ELSE IF next[x] = 0 THEN n ELSE next[x]]
<1>2. /\ next \in [E \cup {0} -> E \cup {0}]
      /\ \A x, y \in E \cup {0} : next[x] = next[y] => x = y
      /\ \A x \in E \cup {0} :
           (IF next[x] = 0 THEN to ELSE L[next[x]].src)
             = (IF x = 0 THEN from ELSE Home[L[x].who])
  BY <1>1 DEF Chains
<1>3. /\ longer \in [F \cup {0} -> F \cup {0}]
      /\ longer[n] = 0
      /\ \A x \in E \cup {0} :
           longer[x] = IF next[x] = 0 THEN n ELSE next[x]
  BY <1>2
<1> HIDE DEF longer
<1>4. \A x, y \in F \cup {0} : longer[x] = longer[y] => x = y
  BY <1>2, <1>3
<1>5. \A x \in F \cup {0} :
        (IF longer[x] = 0 THEN Home[L[n].who] ELSE L[longer[x]].src)
          = (IF x = 0 THEN from ELSE Home[L[x].who])
  BY <1>2, <1>3
<1>6. Chains(longer, L, F, from, Home[L[n].who])
  BY <1>3, <1>4, <1>5 DEF Chains
<1>7. QED
  BY <1>6 DEF Trail

\* What starts and ends at one instance is made of round trips: it may be seen
\* from any other.
LEMMA TrailTurn ==
  ASSUME NEW L, NEW E, 0 \notin E, NEW i, NEW k, Trail(L, E, i, i)
  PROVE  Trail(L, E, k, k)
<1>1. PICK next : Chains(next, L, E, i, i)
  BY DEF Trail
<1> DEFINE closed == [x \in E \cup {0} |->
                        IF x = 0 THEN 0
                        ELSE IF next[x] = 0 THEN next[0] ELSE next[x]]
<1>2. /\ next \in [E \cup {0} -> E \cup {0}]
      /\ \A x, y \in E \cup {0} : next[x] = next[y] => x = y
      /\ \A x \in E \cup {0} :
           (IF next[x] = 0 THEN i ELSE L[next[x]].src)
             = (IF x = 0 THEN i ELSE Home[L[x].who])
  BY <1>1 DEF Chains
<1>3. /\ closed \in [E \cup {0} -> E \cup {0}]
      /\ closed[0] = 0
      /\ \A x \in E : closed[x] = IF next[x] = 0 THEN next[0] ELSE next[x]
  BY <1>2
<1> HIDE DEF closed
<1>4. \A x, y \in E \cup {0} : closed[x] = closed[y] => x = y
  BY <1>2, <1>3
<1>5. \A x \in E \cup {0} :
        (IF closed[x] = 0 THEN k ELSE L[closed[x]].src)
          = (IF x = 0 THEN k ELSE Home[L[x].who])
  BY <1>2, <1>3
<1>6. Chains(closed, L, E, k, k)
  BY <1>3, <1>4, <1>5 DEF Chains
<1>7. QED
  BY <1>6 DEF Trail

-----------------------------------------------------------------------------
(* What is left to be told.                                                *)

Transfers == {e \in DOMAIN log : log[e].kind = "transfer"}

\* The transfers on their way to j that it has not taken.
Pending(j) == {e \in Transfers : <<j, e>> \in outbox \ applied}

Later(e) == {f \in Transfers : e < f}

InTransit(j, e) == <<j, e>> \in outbox \cup fetching

\* A step of j that handles event e.
Handles(j, e) ==
  /\ UNCHANGED log
  /\ outbox' \subseteq outbox
  /\ outbox \ {<<j, e>>} \subseteq outbox'
  /\ applied \subseteq applied'
  /\ applied' \subseteq applied \cup {<<j, e>>}
  /\ outbox' \cup fetching' \subseteq outbox \cup fetching
  /\ flaws \subseteq flaws'

\* j keeps its owner, and what it handles is no transfer it could take.
PassedOver(j, e) == UNCHANGED owner /\ e \notin Pending(j)

\* j accepts a transfer without having the channel.
Forgot(j, e) ==
  /\ UNCHANGED owner
  /\ e \in Pending(j)
  /\ ~Present(j)
  /\ "dropped" \in flaws' \/ Token(j, e)

TookInTurn(j, e) ==
  /\ Took(j, e)
  /\ Overtaken(j, e) => "overtaken" \in flaws'

LEMMA JoinRows ==
  ASSUME TypeOK, NEW j \in Instances, NEW e \in DOMAIN log,
         NEW roster \in SUBSET Users, Join(j, e, roster),
         UNCHANGED log, flaws \subseteq flaws',
         fetching' \subseteq fetching
  PROVE  Handles(j, e)
BY JoinType DEF Handles

LEMMA WriteMetaRows ==
  ASSUME TypeOK, NEW j \in Instances, NEW e \in DOMAIN log, WriteMeta(j, e),
         UNCHANGED log, fetching' \subseteq fetching
  PROVE  Handles(j, e)
BY WriteMetaType DEF Handles

LEMMA AnsweredRows ==
  ASSUME TypeOK, NEW j \in Instances, NEW e \in DOMAIN log, Answered(j, e),
         UNCHANGED <<log, fetching>>, flaws \subseteq flaws',
         applied \subseteq applied', applied' \subseteq applied \cup {<<j, e>>}
  PROVE  Handles(j, e)
BY AnsweredType DEF Handles

LEMMA BootstrapRows ==
  ASSUME TypeOK, NEW j \in Instances, NEW e \in DOMAIN log, Bootstrap(j, e),
         fetching' \subseteq fetching
  PROVE  Handles(j, e)
<1>1. log[e].roster \in SUBSET Users
  BY LogFacts DEF Event
<1>2. QED
  BY <1>1, JoinRows DEF Bootstrap

\* What each handler does to the rows.
LEMMA HandlerRows ==
  ASSUME TypeOK, NEW j \in Instances, NEW e \in DOMAIN log,
         Receive(j, e) \/ Finish(j, e)
  PROVE  Handles(j, e)
<1>1. CASE ReceiveAdd(j, e)
  <2>1. members[j] \in SUBSET Users
    BY DEF TypeOK
  <2>2. QED
    BY <1>1, <2>1, JoinRows DEF ReceiveAdd
<1>2. CASE ReceiveFirstAdd(j, e)
  <2>1. CASE Bootstrap(j, e) /\ UNCHANGED fetching
    BY <2>1, BootstrapRows
  <2>2. CASE /\ Answered(j, e)
             /\ flaws' = flaws \cup {"refused"}
             /\ UNCHANGED <<owner, members, meta, log, applied, fetching>>
    BY <2>2, AnsweredRows
  <2>3. CASE /\ <<j, e>> \in outbox
             /\ fetching' = fetching \cup {<<j, e>>}
             /\ UNCHANGED <<owner, members, meta, log, outbox, applied, unheard,
                            flaws>>
    BY <2>3 DEF Handles
  <2>4. QED
    BY <1>2, <2>1, <2>2, <2>3 DEF ReceiveFirstAdd
<1>3. CASE FinishAdd(j, e)
  <2>1. CASE Bootstrap(j, e) /\ fetching' \subseteq fetching
    BY <2>1, BootstrapRows
  <2>2. CASE ~Bootstrap(j, e)
    BY <1>3, <2>2 DEF FinishAdd, Handles
  <2>3. QED
    BY <1>3, <2>1, <2>2 DEF FinishAdd
<1>4. CASE ReceiveRemove(j, e)
  <2>1. applied \subseteq applied' /\ applied' \subseteq applied \cup {<<j, e>>}
    BY <1>4 DEF ReceiveRemove
  <2>2. QED
    BY <1>4, <2>1, AnsweredRows DEF ReceiveRemove
<1>5. CASE ReceiveTransfer(j, e)
  <2>1. applied \subseteq applied' /\ applied' \subseteq applied \cup {<<j, e>>}
    BY <1>5 DEF ReceiveTransfer
  <2>2. flaws \subseteq flaws'
    BY <1>5 DEF ReceiveTransfer
  <2>3. QED
    BY <1>5, <2>1, <2>2, AnsweredRows DEF ReceiveTransfer
<1>6. CASE ReceiveRename(j, e)
  <2>1. UNCHANGED log /\ <<j, e>> \in outbox
    BY <1>6 DEF ReceiveRename
  <2>2. CASE WriteMeta(j, e) /\ UNCHANGED fetching
    BY <2>1, <2>2, WriteMetaRows
  <2>3. CASE Answered(j, e) /\ flaws \subseteq flaws'
             /\ UNCHANGED <<meta, applied, fetching>>
    BY <2>1, <2>3, AnsweredRows
  <2>4. CASE fetching' = fetching \cup {<<j, e>>}
             /\ UNCHANGED <<meta, applied, outbox, unheard, flaws>>
    BY <2>1, <2>4 DEF Handles
  <2>5. QED
    BY <1>6, <2>2, <2>3, <2>4 DEF ReceiveRename
<1>7. CASE FinishRename(j, e)
  BY <1>7, WriteMetaRows DEF FinishRename
<1>8. CASE ReceiveReplay(j, e)
  BY <1>8 DEF ReceiveReplay, Handles
<1>9. QED
  BY <1>1, <1>2, <1>3, <1>4, <1>5, <1>6, <1>7, <1>8 DEF Receive, Finish

\* What each handler does to the owner and to the transfers left.
LEMMA HandlerOwners ==
  ASSUME TypeOK, NEW j \in Instances, NEW e \in DOMAIN log,
         Receive(j, e) \/ Finish(j, e)
  PROVE  \/ PassedOver(j, e)
         \/ Forgot(j, e)
         \/ TookInTurn(j, e)
         \/ (Booted(j, e) /\ e \notin Pending(j))
<1>1. CASE ReceiveAdd(j, e) \/ ReceiveRemove(j, e) \/ ReceiveRename(j, e)
           \/ FinishRename(j, e) \/ ReceiveReplay(j, e)
  BY <1>1 DEF ReceiveAdd, ReceiveRemove, ReceiveRename, FinishRename,
              ReceiveReplay, Processed, PassedOver, Pending, Transfers
<1>2. CASE ReceiveFirstAdd(j, e)
  <2>1. log[e].kind = "add"
    BY <1>2 DEF ReceiveFirstAdd
  <2>2. UNCHANGED owner \/ Booted(j, e)
    BY <1>2, ReceiveFirstAddStep DEF Heard
  <2>3. QED
    BY <2>1, <2>2 DEF PassedOver, Pending, Transfers
<1>3. CASE FinishAdd(j, e)
  <2>1. log[e].kind = "add"
    BY <1>3 DEF FinishAdd
  <2>2. UNCHANGED owner \/ Booted(j, e)
    BY <1>3, FinishAddStep DEF Heard
  <2>3. QED
    BY <2>1, <2>2 DEF PassedOver, Pending, Transfers
<1>4. CASE ReceiveTransfer(j, e)
  <2>1. /\ e \in Pending(j)
        /\ UNCHANGED log
    BY <1>4 DEF ReceiveTransfer, Processed, Pending, Transfers
  <2>2. CASE ~Present(j)
    BY <1>4, <2>1, <2>2
    DEF ReceiveTransfer, Forgot, Token, Pending, Transfers
  <2>3. CASE Present(j)
    <3>1. /\ FromOwner(j, e)
          /\ owner' = [owner EXCEPT ![j] = log[e].who]
          /\ applied' = applied \cup {<<j, e>>}
          /\ flaws' = flaws \cup IF Overtaken(j, e) THEN {"overtaken"} ELSE {}
      BY <1>4, <2>3 DEF ReceiveTransfer
    <3>2. Handles(j, e)
      BY <1>4, HandlerRows DEF Receive
    <3>3. QED
      BY <2>1, <2>3, <3>1, <3>2
      DEF Handles, TookInTurn, Took, Pending, Transfers
  <2>4. QED
    BY <2>2, <2>3
<1>5. QED
  BY <1>1, <1>2, <1>3, <1>4 DEF Receive, Finish

\* Only the event that is handled may leave what is pending.
LEMMA PendingHandled ==
  ASSUME TypeOK, NEW j \in Instances, NEW e \in DOMAIN log, Handles(j, e)
  PROVE  /\ Transfers' = Transfers
         /\ \A f \in DOMAIN log : Later(f)' = Later(f)
         /\ \A k \in Instances : Pending(k)' \subseteq Pending(k)
         /\ \A k \in Instances : \A f \in Pending(k) :
              f \in Pending(k)' \/ (k = j /\ f = e)
         /\ \A k \in Instances, f \in DOMAIN log :
              /\ Token(k, f)' => Token(k, f)
              /\ InTransit(k, f)' => InTransit(k, f)
<1>1. /\ Transfers' = Transfers
      /\ \A f \in DOMAIN log : Later(f)' = Later(f)
  BY DEF Handles, Transfers, Later
<1>2. \A k \in Instances : Pending(k)' \subseteq Pending(k)
  BY <1>1 DEF Handles, Pending
<1>3. ASSUME NEW k \in Instances, NEW f \in Pending(k), ~(k = j /\ f = e)
      PROVE  f \in Pending(k)'
  <2>1. <<k, f>> # <<j, e>>
    BY <1>3
  <2>2. QED
    BY <1>1, <2>1 DEF Handles, Pending
<1>4. \A k \in Instances, f \in DOMAIN log :
        /\ Token(k, f)' => Token(k, f)
        /\ InTransit(k, f)' => InTransit(k, f)
  BY DEF Handles, Token, InTransit
<1>5. QED
  BY <1>1, <1>2, <1>3, <1>4

\* Every instance that has the channel, or will, is sent transfer n.
Announced(i, n) ==
  \/ "missed" \in flaws'
  \/ \A k \in Instances \ {i} :
       Present(k) \/ (\E f \in DOMAIN log : InTransit(k, f)) =>
         <<k, n>> \in outbox'

LEMMA TransferAnnounced ==
  ASSUME TypeOK, NEW i \in Instances, NEW u \in Users, Transfer(i, u),
         NEW n \in DOMAIN log' \ DOMAIN log
  PROVE  Announced(i, n)
<1> DEFINE targets == Targets(i, members[i])
<1>1. log \in Seq(Event) /\ members[i] \in SUBSET Users /\ meta[i] \in Meta
  BY DEF TypeOK
<1>2. /\ log' = Append(log, Told("transfer", i, u, meta[i]))
      /\ outbox' = outbox \cup RowsTo(targets, Len(log) + 1)
      /\ flaws' = flaws \cup MissedBy(i, targets)
  BY DEF Transfer
<1>3. Told("transfer", i, u, meta[i]) \in Event
  BY <1>1, ToldType
<1>4. n = Len(log) + 1
  BY <1>1, <1>2, <1>3, AppendProperties, LenProperties, LogFacts
<1> HIDE DEF targets
<1>5. \A k \in targets : <<k, n>> \in outbox'
  BY <1>2, <1>4 DEF RowsTo
<1>6. CASE Missed(i, targets)
  BY <1>2, <1>6 DEF MissedBy, Announced
<1>7. CASE ~Missed(i, targets)
  BY <1>5, <1>7 DEF Missed, Announced, InTransit
<1>8. QED
  BY <1>6, <1>7

LEMMA LeaveAnnounced ==
  ASSUME TypeOK, NEW i \in Instances, NEW v \in Users, LeaveAsOwner(i, v),
         NEW n \in DOMAIN log' \ DOMAIN log, log'[n].kind = "transfer"
  PROVE  Announced(i, n)
<1> DEFINE u == owner[i]
           rest == members[i] \ {u}
           ev == Told("leave", i, u, meta[i])
           ew == Told("transfer", i, v, meta[i])
           targets == Targets(i, members[i])
           others == Targets(i, rest)
<1>1. /\ log' = log \o <<ev, ew>>
      /\ outbox' = outbox \cup RowsTo(targets, Len(log) + 1)
                          \cup RowsTo(others, Len(log) + 2)
      /\ flaws' = flaws \cup MissedBy(i, others)
      /\ Len(log) + 1 < MaxEvents
      /\ UNCHANGED applied
  BY DEF LeaveAsOwner
<1>2. ev \in Event /\ ev.src = i /\ ev.kind = "leave" /\ ew \in Event /\ ew.src = i
  <2>1. u \in Users /\ meta[i] \in Meta
    BY DEF LeaveAsOwner, Seat, Present, TypeOK
  <2>2. QED
    BY <2>1, ToldType
<1>3. targets \in SUBSET (Instances \ {i}) /\ others \in SUBSET (Instances \ {i})
  <2>1. members[i] \in SUBSET Users /\ rest \in SUBSET Users
    BY DEF TypeOK
  <2>2. QED
    BY <2>1, TargetsReach
<1> HIDE DEF u, rest, ev, ew, targets, others
<1>4. flaws \subseteq flaws'
  BY <1>1
<1>5. /\ DOMAIN log' = DOMAIN log \cup {Len(log) + 1, Len(log) + 2}
      /\ log'[Len(log) + 1] = ev
      /\ \A j \in others : <<j, Len(log) + 2>> \in outbox'
  BY <1>1, <1>2, <1>3, <1>4, IssueTwo
<1>6. n = Len(log) + 2
  BY <1>2, <1>5
<1>7. CASE Missed(i, others)
  BY <1>1, <1>7 DEF MissedBy, Announced
<1>8. CASE ~Missed(i, others)
  BY <1>5, <1>6, <1>8 DEF Missed, Announced, InTransit
<1>9. QED
  BY <1>7, <1>8

\* A transfer is sent to whoever has the channel or will, or the step counts as
\* a flaw.
LEMMA ActAnnounced ==
  ASSUME TypeOK, NEW i \in Instances, Act(i),
         NEW n \in DOMAIN log' \ DOMAIN log, log'[n].kind = "transfer"
  PROVE  Announced(i, n)
<1>1. ASSUME NEW u \in Users, NEW others \in SUBSET Users, NEW m \in Ids,
             NEW order \in [1 .. m -> Users], Create(i, u, others, order)
      PROVE  FALSE
  BY <1>1, CreateStep DEF Founded
<1>2. ASSUME NEW u \in Users,
             \/ AddMember(i, u)
             \/ LeaveAsMember(i, u)
             \/ Kick(i, u)
      PROVE  FALSE
  BY <1>2, AddMemberStep, LeaveAsMemberStep, KickStep DEF KeptOwner
<1>3. ASSUME NEW u \in Users, LeaveAsOwner(i, u) \/ Transfer(i, u)
      PROVE  Announced(i, n)
  BY <1>3, LeaveAnnounced, TransferAnnounced
<1>4. ASSUME NEW stamp \in 1 .. MaxStamp, NEW name \in Names,
             NEW icon \in Icons, Rename(i, stamp, name, icon)
      PROVE  FALSE
  BY <1>4, RenameStep DEF KeptOwner
<1>5. QED
  BY <1>1, <1>2, <1>3, <1>4 DEF Act

LEMMA LaterLog ==
  ASSUME TypeOK'
  PROVE  DOMAIN log' \subseteq Nat
<1>1. log' \in Seq(Event)
  BY DEF TypeOK
<1>2. QED
  BY <1>1, LenProperties

\* What issuing does to the transfers.
LEMMA IssuedTransfers ==
  ASSUME TypeOK, NEW i \in Instances, Issued(i), UNCHANGED fetching
  PROVE  /\ Transfers \subseteq Transfers'
         /\ \A f \in Transfers' \ Transfers : f \in DOMAIN log' \ DOMAIN log
         /\ \A k \in Instances :
              Pending(k)' = Pending(k) \cup
                {f \in Transfers' \ Transfers : <<k, f>> \in outbox'}
         /\ Pending(i)' = Pending(i)
         /\ \A e \in DOMAIN log :
              Later(e)' = Later(e) \cup (Transfers' \ Transfers)
         /\ \A k \in Instances, f \in DOMAIN log :
              /\ Token(k, f)' <=> Token(k, f)
              /\ InTransit(k, f)' <=> InTransit(k, f)
<1>1. /\ DOMAIN log \subseteq DOMAIN log'
      /\ \A f \in DOMAIN log : log'[f] = log[f]
      /\ \A f \in DOMAIN log, g \in DOMAIN log' \ DOMAIN log : f < g
      /\ \A r \in outbox' \ outbox : r[1] # i /\ r[2] \notin DOMAIN log
      /\ outbox \subseteq outbox'
      /\ applied' = applied
  BY DEF Issued
<1>2. /\ Transfers \subseteq Transfers'
      /\ \A f \in Transfers' \ Transfers : f \in DOMAIN log' \ DOMAIN log
  BY <1>1 DEF Transfers
<1>3. \A k \in Instances, f \in DOMAIN log :
        <<k, f>> \in outbox' <=> <<k, f>> \in outbox
  BY <1>1
<1>4. \A k \in Instances, f \in DOMAIN log' \ DOMAIN log :
        <<k, f>> \notin outbox /\ <<k, f>> \notin applied
  BY DEF TypeOK
<1>5. ASSUME NEW k \in Instances
      PROVE  Pending(k)' = Pending(k) \cup
               {f \in Transfers' \ Transfers : <<k, f>> \in outbox'}
  <2>1. \A f \in Transfers : f \in Pending(k)' <=> f \in Pending(k)
    BY <1>1, <1>2, <1>3 DEF Pending, Transfers
  <2>2. \A f \in Transfers' \ Transfers :
          f \in Pending(k)' <=> <<k, f>> \in outbox'
    BY <1>1, <1>2, <1>4 DEF Pending
  <2>3. Pending(k) \subseteq Transfers /\ Pending(k)' \subseteq Transfers'
    BY DEF Pending
  <2>4. QED
    BY <1>2, <2>1, <2>2, <2>3
<1>6. Pending(i)' = Pending(i)
  <2>1. \A f \in Transfers' \ Transfers : <<i, f>> \notin outbox'
    BY <1>1, <1>2, <1>4
  <2>2. QED
    BY <1>5, <2>1
<1>7. ASSUME NEW e \in DOMAIN log
      PROVE  Later(e)' = Later(e) \cup (Transfers' \ Transfers)
  BY <1>1, <1>2 DEF Later
<1>8. \A k \in Instances, f \in DOMAIN log : Token(k, f)' <=> Token(k, f)
  BY <1>1, <1>3 DEF Token
<1>9. \A k \in Instances, f \in DOMAIN log : InTransit(k, f)' <=> InTransit(k, f)
  BY <1>3 DEF InTransit
<1>10. QED
  BY <1>2, <1>5, <1>6, <1>7, <1>8, <1>9

-----------------------------------------------------------------------------
(* The inductive invariant.                                                *)

\* No instance holds the seat and nothing carries it: its addressee dropped it.
Stranded ==
  /\ \A i \in Instances : ~Seat(i)
  /\ \A j \in Instances, e \in DOMAIN log : ~Token(j, e)

\* The snapshot was taken where its owner is homed.
BySeat(e) == log[e].kind = "add" /\ Home[log[e].owner] = log[e].src

\* The seat is at s, or on its way there, or s dropped it.
SeatAt(s) ==
  /\ \A i \in Instances : Seat(i) => i = s
  /\ \A j \in Instances, e \in DOMAIN log : Token(j, e) => j = s
  /\ \A f \in DOMAIN log, j \in Instances :
       TransferTo(f, j) /\ ~Present(j) =>
         /\ j = s
         /\ \A g \in Transfers : g <= f

\* What an instance has not taken leads from where it believes the owner to be
\* to s, unless the instance is s itself and dropped the seat.
PresentOnTrail(s) ==
  \A j \in Instances : Present(j) =>
    \/ Trail(log, Pending(j), Home[owner[j]], s)
    \/ j = s /\ Stranded

\* So do the transfers after a snapshot taken at the seat.
SnapshotsOnTrail(s) ==
  \A e \in DOMAIN log : BySeat(e) => Trail(log, Later(e), log[e].src, s)

\* An instance that may start from that snapshot has still to be told of all
\* that came after it.
SnapshotsFollowed(s) ==
  \A j \in Instances, e \in DOMAIN log :
    BySeat(e) /\ ~Present(j) /\ InTransit(j, e) =>
      \/ Later(e) \subseteq Pending(j)
      \/ j = s /\ Stranded

OnTrail(s) ==
  SeatAt(s) /\ PresentOnTrail(s) /\ SnapshotsOnTrail(s) /\ SnapshotsFollowed(s)

\* The first of the transfers E of log L is issued where u is homed; if there
\* is none, u is w.
Follows(L, E, u, w) ==
  \/ E = {} /\ u = w
  \/ \E e \in E : L[e].src = Home[u] /\ \A f \in E : e <= f

\* w is who the last transfer named, and who follows from every snapshot.
LogInOrder(w) ==
  /\ \A e \in Transfers : Follows(log, Later(e), log[e].who, w)
  /\ \A e \in DOMAIN log :
       BySeat(e) => Follows(log, Later(e), log[e].owner, w)

\* Each instance has taken a first part of the transfers, and none after it.
PresentInOrder(w) ==
  \A j \in Instances : Present(j) =>
    \/ /\ Follows(log, Pending(j), owner[j], w)
       /\ \A e \in Pending(j) : Later(e) \subseteq Pending(j)
    \/ j = Home[w] /\ Stranded

\* OwnersTold and SnapshotsTold, with the very user.
OwnersNamed ==
  /\ \A k \in Instances :
       Present(k) /\ ~Present(Home[owner[k]]) =>
         \E f \in Transfers : log[f].who = owner[k]
  /\ \A e \in DOMAIN log :
       log[e].kind = "add" /\ ~Present(Home[log[e].owner]) =>
         \E f \in Transfers : f < e /\ log[f].who = log[e].owner

InOrder(w) == LogInOrder(w) /\ PresentInOrder(w) /\ OwnersNamed

Misled == flaws \cap {"dropped", "ahead", "missed"} # {}

OwnersInv ==
  log # << >> /\ ~Misled =>
    \E w \in Users : /\ OnTrail(Home[w])
                     /\ "overtaken" \notin flaws => InOrder(w)

\* The log may grow.
LEMMA FollowsSame ==
  ASSUME NEW L, NEW M, NEW E, NEW u, NEW w, Follows(L, E, u, w),
         \A e \in E : M[e] = L[e]
  PROVE  Follows(M, E, u, w)
BY DEF Follows

\* A transfer issued where w is homed comes last.
LEMMA FollowsExtend ==
  ASSUME NEW L, NEW E \in SUBSET Nat, NEW u, NEW w, Follows(L, E, u, w),
         NEW n \in Nat, \A e \in E : e < n, L[n].src = Home[w]
  PROVE  Follows(L, E \cup {n}, u, L[n].who)
BY DEF Follows

-----------------------------------------------------------------------------
(* The group is founded.                                                   *)

LEMMA FoundedOwners ==
  ASSUME TypeOK, TypeOK', IssuersPresent, NEW i \in Instances,
         Issued(i), Founded(i)
  PROVE  \E w \in Users : OnTrail(Home[w])' /\ InOrder(w)'
<1>1. PICK u \in Users : Home[u] = i /\ owner' = [owner EXCEPT ![i] = u]
  BY DEF Founded
<1>2. log = << >>
  BY DEF Founded
<1>3. /\ owner'[i] = u
      /\ \A k \in Instances : k # i => owner'[k] = NoOne
  BY <1>1, <1>2 DEF IssuersPresent, Present, TypeOK
<1>4. /\ \A k \in Instances : Present(k)' => k = i
      /\ \A k \in Instances : Seat(k)' => k = i
      /\ Present(i)'
  BY <1>1, <1>3, GroupAssumption DEF Present, Seat
<1>5. \A f \in DOMAIN log' : /\ log'[f].kind = "add"
                             /\ log'[f].owner = u
                             /\ log'[f].src = i
  BY <1>2, <1>3 DEF Founded, Issued
<1>6. Transfers' = {}
  BY <1>5 DEF Transfers
<1>7. /\ \A f \in DOMAIN log' : Later(f)' = {}
      /\ \A k \in Instances : Pending(k)' = {}
      /\ \A k \in Instances, f \in DOMAIN log' : ~Token(k, f)'
      /\ \A k \in Instances, f \in DOMAIN log' : ~TransferTo(f, k)'
  BY <1>5, <1>6 DEF Later, Pending, Token, TransferTo
<1>8. Trail(log', {}, i, i)
  BY TrailEmpty
<1>9. SeatAt(i)'
  BY <1>4, <1>7 DEF SeatAt
<1>10. PresentOnTrail(i)'
  BY <1>1, <1>3, <1>4, <1>7, <1>8 DEF PresentOnTrail
<1>11. SnapshotsOnTrail(i)' /\ SnapshotsFollowed(i)'
  BY <1>5, <1>7, <1>8 DEF SnapshotsOnTrail, SnapshotsFollowed
<1>12. Follows(log', {}, u, u)
  BY DEF Follows
<1>13. LogInOrder(u)'
  BY <1>5, <1>6, <1>7, <1>12 DEF LogInOrder
<1>14. PresentInOrder(u)'
  BY <1>3, <1>4, <1>7, <1>12 DEF PresentInOrder
<1>15. OwnersNamed'
  <2>1. owner'[Home[u]] # NoOne
    BY <1>1, <1>4 DEF Present
  <2>2. /\ \A k \in Instances : Present(k)' => owner'[k] = u
        /\ \A f \in DOMAIN log' : log'[f].owner = u
    BY <1>3, <1>4, <1>5
  <2>3. QED
    BY <2>1, <2>2 DEF OwnersNamed, Present
<1>16. OnTrail(Home[u])'
  BY <1>1, <1>9, <1>10, <1>11 DEF OnTrail
<1>17. QED
  BY <1>13, <1>14, <1>15, <1>16 DEF InOrder

-----------------------------------------------------------------------------
(* Events that are no transfers.                                           *)

\* What such a step leaves as it was.
LEMMA KeptOwnerFacts ==
  ASSUME TypeOK, TypeOK', NEW i \in Instances, Issued(i), KeptOwner(i),
         UNCHANGED fetching
  PROVE  /\ Transfers' = Transfers
         /\ \A k \in Instances : /\ Pending(k)' = Pending(k)
                                 /\ Present(k)' <=> Present(k)
                                 /\ Seat(k)' <=> Seat(k)
         /\ \A e \in DOMAIN log : /\ Later(e)' = Later(e)
                                  /\ BySeat(e)' <=> BySeat(e)
         /\ \A e \in DOMAIN log' \ DOMAIN log : Later(e)' = {}
         /\ \A k \in Instances, f \in DOMAIN log' :
              /\ Token(k, f)' <=> f \in DOMAIN log /\ Token(k, f)
              /\ TransferTo(f, k)' <=> f \in DOMAIN log /\ TransferTo(f, k)
              /\ f \in DOMAIN log => (InTransit(k, f)' <=> InTransit(k, f))
         /\ Stranded' <=> Stranded
<1>1. /\ Transfers \subseteq Transfers'
      /\ \A f \in Transfers' \ Transfers : f \in DOMAIN log' \ DOMAIN log
      /\ \A k \in Instances :
           Pending(k)' = Pending(k) \cup
             {f \in Transfers' \ Transfers : <<k, f>> \in outbox'}
      /\ \A e \in DOMAIN log :
           Later(e)' = Later(e) \cup (Transfers' \ Transfers)
      /\ \A k \in Instances, f \in DOMAIN log :
           /\ Token(k, f)' <=> Token(k, f)
           /\ InTransit(k, f)' <=> InTransit(k, f)
  BY IssuedTransfers
<1>2. /\ UNCHANGED owner
      /\ DOMAIN log \subseteq DOMAIN log'
      /\ \A f \in DOMAIN log : log'[f] = log[f]
      /\ \A f \in DOMAIN log' \ DOMAIN log : log'[f].kind # "transfer"
      /\ \A f \in DOMAIN log, g \in DOMAIN log' \ DOMAIN log : f < g
  BY DEF Issued, KeptOwner
<1>3. Transfers' = Transfers
  BY <1>1, <1>2 DEF Transfers
<1>4. \A k \in Instances : /\ Pending(k)' = Pending(k)
                           /\ Present(k)' <=> Present(k)
                           /\ Seat(k)' <=> Seat(k)
  BY <1>1, <1>2, <1>3 DEF Present, Seat
<1>5. \A e \in DOMAIN log : /\ Later(e)' = Later(e)
                            /\ BySeat(e)' <=> BySeat(e)
  BY <1>1, <1>2, <1>3 DEF BySeat
<1>6. \A e \in DOMAIN log' \ DOMAIN log : Later(e)' = {}
  <2> SUFFICES ASSUME NEW e \in DOMAIN log' \ DOMAIN log,
                      NEW f \in Transfers, e < f
               PROVE  FALSE
    BY <1>3 DEF Later
  <2>1. f \in DOMAIN log /\ f < e
    BY <1>2 DEF Transfers
  <2>2. f \in Nat /\ e \in Nat
    BY <2>1, LogFacts, LaterLog
  <2>3. QED
    BY <2>1, <2>2
<1>7. \A k \in Instances, f \in DOMAIN log' :
        /\ Token(k, f)' <=> f \in DOMAIN log /\ Token(k, f)
        /\ TransferTo(f, k)' <=> f \in DOMAIN log /\ TransferTo(f, k)
        /\ f \in DOMAIN log => (InTransit(k, f)' <=> InTransit(k, f))
  BY <1>1, <1>2 DEF Token, TransferTo
<1>8. Stranded' <=> Stranded
  <2>1. Stranded => Stranded'
    BY <1>4, <1>7 DEF Stranded
  <2>2. Stranded' => Stranded
    BY <1>2, <1>4, <1>7 DEF Stranded
  <2>3. QED
    BY <2>1, <2>2
<1>9. QED
  BY <1>3, <1>4, <1>5, <1>6, <1>7, <1>8

LEMMA KeptOwnerTrail ==
  ASSUME TypeOK, TypeOK', NEW i \in Instances, Issued(i), KeptOwner(i),
         UNCHANGED fetching, NEW s \in Instances, OnTrail(s)
  PROVE  OnTrail(s)'
<1>1. /\ Transfers' = Transfers
      /\ \A k \in Instances : /\ Pending(k)' = Pending(k)
                              /\ Present(k)' <=> Present(k)
                              /\ Seat(k)' <=> Seat(k)
      /\ \A e \in DOMAIN log : /\ Later(e)' = Later(e)
                               /\ BySeat(e)' <=> BySeat(e)
      /\ \A e \in DOMAIN log' \ DOMAIN log : Later(e)' = {}
      /\ \A k \in Instances, f \in DOMAIN log' :
           /\ Token(k, f)' <=> f \in DOMAIN log /\ Token(k, f)
           /\ TransferTo(f, k)' <=> f \in DOMAIN log /\ TransferTo(f, k)
           /\ f \in DOMAIN log => (InTransit(k, f)' <=> InTransit(k, f))
      /\ Stranded' <=> Stranded
  BY KeptOwnerFacts
<1>2. /\ UNCHANGED owner
      /\ DOMAIN log \subseteq DOMAIN log'
      /\ \A f \in DOMAIN log : log'[f] = log[f]
      /\ \A f \in DOMAIN log' \ DOMAIN log :
           /\ log'[f].src = i
           /\ log'[f].kind = "add" => log'[f].owner = owner[i]
  BY DEF Issued, KeptOwner
<1>3. \A E \in SUBSET Transfers : 0 \notin E /\ \A f \in E : log'[f] = log[f]
  BY <1>2, LogFacts DEF Transfers
<1>4. SeatAt(s)'
  <2>1. \A k \in Instances : Seat(k)' => k = s
    BY <1>1 DEF OnTrail, SeatAt
  <2>2. \A k \in Instances, e \in DOMAIN log' : Token(k, e)' => k = s
    BY <1>1 DEF OnTrail, SeatAt
  <2>3. \A f \in DOMAIN log', k \in Instances :
          TransferTo(f, k)' /\ ~Present(k)' =>
            k = s /\ \A g \in Transfers' : g <= f
    BY <1>1 DEF OnTrail, SeatAt
  <2>4. QED
    BY <2>1, <2>2, <2>3 DEF SeatAt
<1>5. PresentOnTrail(s)'
  <2> SUFFICES ASSUME NEW j \in Instances, Present(j)'
               PROVE  \/ Trail(log', Pending(j)', Home[owner'[j]], s)
                      \/ j = s /\ Stranded'
    BY DEF PresentOnTrail
  <2>1. CASE Trail(log, Pending(j), Home[owner[j]], s)
    <3>1. Pending(j) \in SUBSET Transfers
      BY DEF Pending
    <3>2. Trail(log', Pending(j), Home[owner[j]], s)
      BY <2>1, <3>1, <1>3, TrailSame
    <3>3. QED
      BY <3>2, <1>1, <1>2
  <2>2. CASE j = s /\ Stranded
    BY <2>2, <1>1
  <2>3. QED
    BY <2>1, <2>2, <1>1 DEF OnTrail, PresentOnTrail
<1>6. SnapshotsOnTrail(s)'
  <2> SUFFICES ASSUME NEW e \in DOMAIN log', BySeat(e)'
               PROVE  Trail(log', Later(e)', log'[e].src, s)
    BY DEF SnapshotsOnTrail
  <2>1. CASE e \in DOMAIN log
    <3>1. Trail(log, Later(e), log[e].src, s)
      BY <2>1, <1>1 DEF OnTrail, SnapshotsOnTrail
    <3>2. Later(e) \in SUBSET Transfers
      BY DEF Later
    <3>3. Trail(log', Later(e), log[e].src, s)
      BY <3>1, <3>2, <1>3, TrailSame
    <3>4. QED
      BY <3>3, <2>1, <1>1, <1>2
  <2>2. CASE e \notin DOMAIN log
    <3>1. log'[e].src = i /\ Home[owner[i]] = i
      BY <2>2, <1>2 DEF BySeat
    <3>2. i = s
      BY <3>1 DEF KeptOwner, Seat, OnTrail, SeatAt
    <3>3. QED
      BY <2>2, <3>1, <3>2, <1>1, TrailEmpty
  <2>3. QED
    BY <2>1, <2>2
<1>7. SnapshotsFollowed(s)'
  BY <1>1 DEF OnTrail, SnapshotsFollowed
<1>8. QED
  BY <1>4, <1>5, <1>6, <1>7 DEF OnTrail

\* Whoever holds the seat has been told of all transfers.
LEMMA HolderUpToDate ==
  ASSUME TypeOK, RowsSound, NEW i \in Instances, Seat(i),
         NEW w \in Users, PresentInOrder(w)
  PROVE  Pending(i) = {} /\ owner[i] = w
<1>1. Follows(log, Pending(i), owner[i], w)
  BY DEF PresentInOrder, Seat, Stranded
<1>2. \A e \in Pending(i) : log[e].src # Home[owner[i]]
  BY DEF Pending, Transfers, RowsSound, Seat
<1>3. QED
  BY <1>1, <1>2 DEF Follows

LEMMA KeptOwnerOrder ==
  ASSUME TypeOK, TypeOK', RowsSound, NEW i \in Instances, Issued(i),
         KeptOwner(i), UNCHANGED fetching, NEW w \in Users, InOrder(w)
  PROVE  InOrder(w)'
<1>1. /\ Transfers' = Transfers
      /\ \A k \in Instances : /\ Pending(k)' = Pending(k)
                              /\ Present(k)' <=> Present(k)
                              /\ Seat(k)' <=> Seat(k)
      /\ \A e \in DOMAIN log : /\ Later(e)' = Later(e)
                               /\ BySeat(e)' <=> BySeat(e)
      /\ \A e \in DOMAIN log' \ DOMAIN log : Later(e)' = {}
      /\ Stranded' <=> Stranded
  BY KeptOwnerFacts
<1>2. /\ UNCHANGED owner
      /\ Present(i)
      /\ DOMAIN log \subseteq DOMAIN log'
      /\ \A f \in DOMAIN log : log'[f] = log[f]
      /\ \A f \in DOMAIN log' \ DOMAIN log :
           /\ log'[f].src = i
           /\ log'[f].kind = "add" => log'[f].owner = owner[i]
      /\ \A f \in DOMAIN log, g \in DOMAIN log' \ DOMAIN log : f < g
  BY DEF Issued, KeptOwner
<1>3. \A E \in SUBSET Transfers : \A f \in E : log'[f] = log[f]
  BY <1>2 DEF Transfers
<1>4. \A e \in Transfers : e \in DOMAIN log
  BY DEF Transfers
<1>5. \A e \in DOMAIN log : Later(e) \in SUBSET Transfers
  BY DEF Later
<1>6. LogInOrder(w)'
  <2>1. ASSUME NEW e \in Transfers
        PROVE  Follows(log', Later(e)', log'[e].who, w)
    <3>1. Follows(log, Later(e), log[e].who, w)
      BY DEF InOrder, LogInOrder
    <3>2. Follows(log', Later(e), log[e].who, w)
      BY <3>1, <1>3, <1>4, <1>5, FollowsSame
    <3>3. QED
      BY <3>2, <1>1, <1>2, <1>4
  <2>2. ASSUME NEW e \in DOMAIN log', BySeat(e)'
        PROVE  Follows(log', Later(e)', log'[e].owner, w)
    <3>1. CASE e \in DOMAIN log
      <4>1. Follows(log, Later(e), log[e].owner, w)
        BY <3>1, <2>2, <1>1 DEF InOrder, LogInOrder
      <4>2. Follows(log', Later(e), log[e].owner, w)
        BY <4>1, <3>1, <1>3, <1>5, FollowsSame
      <4>3. QED
        BY <4>2, <3>1, <1>1, <1>2
    <3>2. CASE e \notin DOMAIN log
      <4>1. log'[e].owner = owner[i] /\ Home[owner[i]] = i
        BY <2>2, <3>2, <1>2 DEF BySeat
      <4>2. owner[i] = w
        BY <4>1, <1>2, HolderUpToDate DEF Seat, InOrder
      <4>3. QED
        BY <4>1, <4>2, <3>2, <1>1 DEF Follows
    <3>3. QED
      BY <3>1, <3>2
  <2>3. QED
    BY <2>1, <2>2, <1>1 DEF LogInOrder
<1>7. PresentInOrder(w)'
  <2> SUFFICES ASSUME NEW j \in Instances, Present(j)'
               PROVE  \/ /\ Follows(log', Pending(j)', owner'[j], w)
                         /\ \A e \in Pending(j)' : Later(e)' \subseteq Pending(j)'
                      \/ j = Home[w] /\ Stranded'
    BY DEF PresentInOrder
  <2>1. \/ /\ Follows(log, Pending(j), owner[j], w)
           /\ \A e \in Pending(j) : Later(e) \subseteq Pending(j)
        \/ j = Home[w] /\ Stranded
    BY <1>1 DEF InOrder, PresentInOrder
  <2>2. Pending(j) \in SUBSET Transfers
    BY DEF Pending
  <2>3. Follows(log, Pending(j), owner[j], w) =>
          Follows(log', Pending(j), owner[j], w)
    BY <2>2, <1>3, FollowsSame
  <2>4. \A e \in Pending(j) : Later(e)' = Later(e)
    BY <2>2, <1>1, <1>4
  <2>5. QED
    BY <2>1, <2>3, <2>4, <1>1, <1>2
<1>8. OwnersNamed'
  <2>1. ASSUME NEW k \in Instances, Present(k)', ~Present(Home[owner[k]])'
        PROVE  \E f \in Transfers' : log'[f].who = owner'[k]
    <3>1. Present(k) /\ ~Present(Home[owner[k]])
      BY <2>1, <1>2 DEF Present
    <3>2. QED
      BY <3>1, <1>1, <1>2, <1>4 DEF InOrder, OwnersNamed
  <2>2. ASSUME NEW e \in DOMAIN log', log'[e].kind = "add",
               ~Present(Home[log[e].owner])'
        PROVE  \E f \in Transfers' : f < e /\ log'[f].who = log'[e].owner
    <3>1. CASE e \in DOMAIN log
      <4>1. log[e].kind = "add" /\ ~Present(Home[log[e].owner])
        BY <2>2, <3>1, <1>2 DEF Present
      <4>2. QED
        BY <3>1, <4>1, <1>1, <1>2, <1>4 DEF InOrder, OwnersNamed
    <3>2. CASE e \notin DOMAIN log
      <4>1. log'[e].owner = owner[i]
        BY <2>2, <3>2, <1>2
      <4>2. ~Present(Home[owner[i]])
        BY <2>2, <4>1, <1>2 DEF Present
      <4>3. \E f \in Transfers : log[f].who = owner[i]
        BY <4>2, <1>2 DEF InOrder, OwnersNamed
      <4>4. QED
        BY <4>1, <4>3, <3>2, <1>1, <1>2, <1>4
    <3>3. QED
      BY <3>1, <3>2
  <2>3. QED
    BY <2>1, <2>2 DEF OwnersNamed
<1>9. QED
  BY <1>6, <1>7, <1>8 DEF InOrder

-----------------------------------------------------------------------------
(* The seat is handed over.                                                *)

\* The new transfer comes last, and everybody but its issuer has still to take
\* it.
HandsOver(i, v, n) ==
  /\ Seat(i)
  /\ owner' = [owner EXCEPT ![i] = v]
  /\ Transfers' = Transfers \cup {n}
  /\ n \in DOMAIN log' \ DOMAIN log
  /\ n \in Nat
  /\ \A f \in DOMAIN log : f < n
  /\ log'[n].kind = "transfer"
  /\ log'[n].src = i
  /\ log'[n].who = v
  /\ DOMAIN log \subseteq DOMAIN log'
  /\ \A f \in DOMAIN log : log'[f] = log[f]
  /\ \A f \in DOMAIN log' \ DOMAIN log : log'[f].kind # "add"
  /\ \A k \in Instances \ {i} :
       Present(k) \/ (\E f \in DOMAIN log : InTransit(k, f)) =>
         <<k, n>> \in outbox'
  /\ \A k \in Instances :
       Pending(k)' = Pending(k) \cup IF <<k, n>> \in outbox' THEN {n} ELSE {}
  /\ Pending(i)' = Pending(i)
  /\ \A e \in DOMAIN log : Later(e)' = Later(e) \cup {n}
  /\ Later(n)' = {}
  /\ \A k \in Instances, f \in DOMAIN log :
       /\ Token(k, f)' <=> Token(k, f)
       /\ InTransit(k, f)' <=> InTransit(k, f)

LEMMA HandedOverFacts ==
  ASSUME TypeOK, TypeOK', NEW i \in Instances, NEW v \in Users, Issued(i),
         HandedOver(i, v), UNCHANGED fetching,
         \A n \in DOMAIN log' \ DOMAIN log :
           log'[n].kind = "transfer" => Announced(i, n),
         "missed" \notin flaws'
  PROVE  \E n : HandsOver(i, v, n)
<1>1. PICK n \in DOMAIN log' \ DOMAIN log :
        /\ log'[n].kind = "transfer"
        /\ log'[n].who = v
        /\ \A f \in DOMAIN log' \ DOMAIN log :
             /\ log'[f].kind # "add"
             /\ log'[f].kind = "transfer" => f = n
  BY DEF HandedOver
<1>2. /\ Transfers \subseteq Transfers'
      /\ \A f \in Transfers' \ Transfers : f \in DOMAIN log' \ DOMAIN log
      /\ \A k \in Instances :
           Pending(k)' = Pending(k) \cup
             {f \in Transfers' \ Transfers : <<k, f>> \in outbox'}
      /\ Pending(i)' = Pending(i)
      /\ \A e \in DOMAIN log :
           Later(e)' = Later(e) \cup (Transfers' \ Transfers)
      /\ \A k \in Instances, f \in DOMAIN log :
           /\ Token(k, f)' <=> Token(k, f)
           /\ InTransit(k, f)' <=> InTransit(k, f)
  BY IssuedTransfers
<1>3. Transfers' \ Transfers = {n}
  BY <1>1, <1>2 DEF Transfers
<1>4. Transfers' = Transfers \cup {n}
  BY <1>2, <1>3
<1>5. /\ DOMAIN log \subseteq DOMAIN log'
      /\ \A f \in DOMAIN log : log'[f] = log[f]
      /\ \A f \in DOMAIN log : f < n
      /\ log'[n].src = i
  BY <1>1 DEF Issued
<1>6. n \in Nat /\ DOMAIN log \subseteq Nat
  BY <1>1, LaterLog, LogFacts
<1>7. Later(n)' = {}
  <2>1. \A f \in Transfers' : ~(n < f)
    BY <1>4, <1>5, <1>6 DEF Transfers
  <2>2. QED
    BY <2>1 DEF Later
<1>8. \A k \in Instances \ {i} :
        Present(k) \/ (\E f \in DOMAIN log : InTransit(k, f)) =>
          <<k, n>> \in outbox'
  BY <1>1 DEF Announced
<1>9. \A k \in Instances :
        Pending(k)' = Pending(k) \cup IF <<k, n>> \in outbox' THEN {n} ELSE {}
  BY <1>2, <1>3
<1>10. \A e \in DOMAIN log : Later(e)' = Later(e) \cup {n}
  BY <1>2, <1>3
<1>11. Seat(i) /\ owner' = [owner EXCEPT ![i] = v]
  BY DEF HandedOver
<1>12. HandsOver(i, v, n)
  BY <1>1, <1>2, <1>4, <1>5, <1>6, <1>7, <1>8, <1>9, <1>10, <1>11
  DEF HandsOver
<1>13. QED
  BY <1>12

LEMMA HandsOverTrail ==
  ASSUME TypeOK, TypeOK', OwnersSafe, NEW i \in Instances, NEW v \in Users,
         NEW n, HandsOver(i, v, n), NEW s \in Instances, OnTrail(s)
  PROVE  s = i /\ OnTrail(Home[v])'
<1> DEFINE r == Home[v]
<1>1. r \in Instances /\ v # NoOne
  BY GroupAssumption
<1>2. s = i
  BY DEF HandsOver, OnTrail, SeatAt
<1>3. owner'[i] = v /\ \A k \in Instances : k # i => owner'[k] = owner[k]
  BY DEF HandsOver, TypeOK
<1>4. /\ \A k \in Instances : Present(k)' <=> Present(k)
      /\ Present(i)
  BY <1>1, <1>3 DEF Present, HandsOver, Seat
<1>5. ~Stranded
  BY DEF HandsOver, Stranded
<1>6. \A E \in SUBSET Transfers : /\ 0 \notin E
                                  /\ n \notin E
                                  /\ \A f \in E : log'[f] = log[f]
  BY LogFacts DEF HandsOver, Transfers
<1>7. n # 0
  <2>1. log' \in Seq(Event) /\ n \in DOMAIN log'
    BY DEF HandsOver, TypeOK
  <2>2. QED
    BY <2>1, LenProperties
<1> HIDE DEF r
<1>8. \A E \in SUBSET Transfers : \A from : Trail(log, E, from, i) =>
        Trail(log', E \cup {n}, from, r)
  <2> SUFFICES ASSUME NEW E \in SUBSET Transfers, NEW from,
                      Trail(log, E, from, i)
               PROVE  Trail(log', E \cup {n}, from, r)
    OBVIOUS
  <2>1. Trail(log', E, from, i)
    BY <1>6, TrailSame
  <2>2. log'[n].src = i /\ Home[log'[n].who] = r
    BY DEF HandsOver, r
  <2>3. QED
    BY <2>1, <2>2, <1>6, <1>7, TrailExtend
<1>9. SeatAt(r)'
  <2>1. \A k \in Instances : Seat(k)' => k = r
    BY <1>3, <1>4 DEF Seat, HandsOver, OwnersSafe, OneHolder, r
  <2>2. \A k \in Instances, f \in DOMAIN log : ~Token(k, f)
    BY DEF HandsOver, OwnersSafe, OneHolder
  <2>3. \A k \in Instances, f \in DOMAIN log' : Token(k, f)' => f = n /\ k = r
    <3> SUFFICES ASSUME NEW k \in Instances, NEW f \in DOMAIN log', Token(k, f)'
                 PROVE  f = n /\ k = r
      OBVIOUS
    <3>1. f \in Transfers'
      BY DEF Token, Transfers
    <3>2. f \notin Transfers
      BY <2>2 DEF HandsOver, Transfers
    <3>3. f = n
      BY <3>1, <3>2 DEF HandsOver
    <3>4. QED
      BY <3>3 DEF Token, HandsOver, r
  <2>4. \A f \in DOMAIN log', k \in Instances :
          TransferTo(f, k)' /\ ~Present(k)' =>
            k = r /\ \A g \in Transfers' : g <= f
    <3> SUFFICES ASSUME NEW f \in DOMAIN log', NEW k \in Instances,
                        TransferTo(f, k)', ~Present(k)
                 PROVE  k = r /\ \A g \in Transfers' : g <= f
      BY <1>4
    <3>1. f \in Transfers'
      BY DEF TransferTo, Transfers
    <3>2. f \notin Transfers
      <4>1. f \in Transfers => TransferTo(f, k)
        BY DEF HandsOver, TransferTo, Transfers
      <4>2. ~TransferTo(f, k) \/ f \notin DOMAIN log
        BY DEF HandsOver, OwnersSafe, AbsentIsLast
      <4>3. QED
        BY <4>1, <4>2 DEF Transfers
    <3>3. f = n
      BY <3>1, <3>2 DEF HandsOver
    <3>4. k = r
      BY <3>3 DEF TransferTo, HandsOver, r
    <3>5. \A g \in Transfers' : g <= n
      BY LogFacts DEF HandsOver, Transfers
    <3>6. QED
      BY <3>3, <3>4, <3>5
  <2>5. QED
    BY <2>1, <2>3, <2>4 DEF SeatAt
<1>10. PresentOnTrail(r)'
  <2> SUFFICES ASSUME NEW j \in Instances, Present(j)
               PROVE  Trail(log', Pending(j)', Home[owner'[j]], r)
    BY <1>4 DEF PresentOnTrail
  <2>1. Trail(log, Pending(j), Home[owner[j]], i)
    BY <1>2, <1>5 DEF OnTrail, PresentOnTrail
  <2>2. Pending(j) \in SUBSET Transfers
    BY DEF Pending
  <2>3. CASE j # i
    <3>1. Pending(j)' = Pending(j) \cup {n}
      BY <2>3 DEF HandsOver
    <3>2. owner'[j] = owner[j]
      BY <2>3, <1>3
    <3>3. QED
      BY <2>1, <2>2, <3>1, <3>2, <1>8
  <2>4. CASE j = i
    <3>1. Home[owner[i]] = i /\ Pending(i)' = Pending(i)
      BY DEF HandsOver, Seat
    <3>2. Trail(log', Pending(i), i, i)
      BY <2>1, <2>2, <2>4, <3>1, <1>6, TrailSame
    <3>3. Trail(log', Pending(i), r, r)
      BY <2>2, <2>4, <3>2, <1>6, TrailTurn
    <3>4. QED
      BY <2>4, <3>1, <3>3, <1>3 DEF r
  <2>5. QED
    BY <2>3, <2>4
<1>11. SnapshotsOnTrail(r)'
  <2> SUFFICES ASSUME NEW e \in DOMAIN log', BySeat(e)'
               PROVE  Trail(log', Later(e)', log'[e].src, r)
    BY DEF SnapshotsOnTrail
  <2>1. e \in DOMAIN log /\ BySeat(e) /\ log'[e].src = log[e].src
    BY DEF BySeat, HandsOver
  <2>2. Trail(log, Later(e), log[e].src, i)
    BY <2>1, <1>2 DEF OnTrail, SnapshotsOnTrail
  <2>3. Later(e) \in SUBSET Transfers /\ Later(e)' = Later(e) \cup {n}
    BY <2>1 DEF Later, HandsOver
  <2>4. QED
    BY <2>1, <2>2, <2>3, <1>8
<1>12. SnapshotsFollowed(r)'
  <2> SUFFICES ASSUME NEW j \in Instances, NEW e \in DOMAIN log',
                      BySeat(e)', ~Present(j), InTransit(j, e)'
               PROVE  Later(e)' \subseteq Pending(j)'
    BY <1>4 DEF SnapshotsFollowed
  <2>1. e \in DOMAIN log /\ BySeat(e)
    BY DEF BySeat, HandsOver
  <2>2. InTransit(j, e) /\ j # i
    BY <2>1, <1>4 DEF HandsOver
  <2>3. Later(e) \subseteq Pending(j)
    BY <2>1, <2>2, <1>2, <1>5 DEF OnTrail, SnapshotsFollowed
  <2>4. Pending(j)' = Pending(j) \cup {n}
    BY <2>1, <2>2 DEF HandsOver
  <2>5. Later(e)' = Later(e) \cup {n}
    BY <2>1 DEF HandsOver
  <2>6. QED
    BY <2>3, <2>4, <2>5
<1>13. QED
  BY <1>2, <1>9, <1>10, <1>11, <1>12 DEF OnTrail, r

LEMMA HandsOverOrder ==
  ASSUME TypeOK, TypeOK', RowsSound, NEW i \in Instances, NEW v \in Users,
         NEW n, HandsOver(i, v, n), NEW w \in Users, Home[w] = i, InOrder(w)
  PROVE  InOrder(v)'
<1>1. owner'[i] = v /\ \A k \in Instances : k # i => owner'[k] = owner[k]
  BY DEF HandsOver, TypeOK
<1>2. /\ \A k \in Instances : Present(k)' <=> Present(k)
      /\ Present(i)
  BY <1>1, GroupAssumption DEF Present, HandsOver, Seat
<1>3. ~Stranded
  BY DEF HandsOver, Stranded
<1>4. Pending(i) = {} /\ owner[i] = w
  BY HolderUpToDate DEF HandsOver, InOrder
<1>5. \A e \in Transfers : e \in DOMAIN log /\ e \in Nat /\ e < n /\ e # n
  BY LogFacts DEF Transfers, HandsOver
<1>6. Transfers' = Transfers \cup {n} /\ n \in Nat
  BY DEF HandsOver
<1>7. \A E \in SUBSET Transfers : \A u : Follows(log, E, u, w) =>
        Follows(log', E \cup {n}, u, v)
  <2> SUFFICES ASSUME NEW E \in SUBSET Transfers, NEW u, Follows(log, E, u, w)
               PROVE  Follows(log', E \cup {n}, u, v)
    OBVIOUS
  <2>1. \A f \in E : log'[f] = log[f]
    BY <1>5 DEF HandsOver
  <2>2. Follows(log', E, u, w)
    BY <2>1, FollowsSame
  <2>3. log'[n].src = Home[w] /\ log'[n].who = v
    BY DEF HandsOver
  <2>4. E \in SUBSET Nat /\ \A e \in E : e < n
    BY <1>5
  <2>5. QED
    BY <2>2, <2>3, <2>4, <1>6, FollowsExtend
<1>8. \A e \in DOMAIN log : /\ Later(e) \in SUBSET Transfers
                            /\ Later(e)' = Later(e) \cup {n}
                            /\ log'[e] = log[e]
  BY DEF Later, HandsOver
<1>9. LogInOrder(v)'
  <2>1. ASSUME NEW e \in Transfers'
        PROVE  Follows(log', Later(e)', log'[e].who, v)
    <3>1. CASE e \in Transfers
      <4>1. Follows(log, Later(e), log[e].who, w)
        BY <3>1 DEF InOrder, LogInOrder
      <4>2. QED
        BY <3>1, <4>1, <1>5, <1>7, <1>8
    <3>2. CASE e = n
      BY <3>2 DEF HandsOver, Follows
    <3>3. QED
      BY <3>1, <3>2, <1>6
  <2>2. ASSUME NEW e \in DOMAIN log', BySeat(e)'
        PROVE  Follows(log', Later(e)', log'[e].owner, v)
    <3>1. e \in DOMAIN log /\ BySeat(e)
      BY <2>2 DEF BySeat, HandsOver
    <3>2. Follows(log, Later(e), log[e].owner, w)
      BY <3>1 DEF InOrder, LogInOrder
    <3>3. QED
      BY <3>1, <3>2, <1>7, <1>8
  <2>3. QED
    BY <2>1, <2>2 DEF LogInOrder
<1>10. PresentInOrder(v)'
  <2> SUFFICES ASSUME NEW j \in Instances, Present(j)
               PROVE  /\ Follows(log', Pending(j)', owner'[j], v)
                      /\ \A e \in Pending(j)' : Later(e)' \subseteq Pending(j)'
    BY <1>2 DEF PresentInOrder
  <2>1. CASE j = i
    <3>1. Pending(j)' = {} /\ owner'[j] = v
      BY <2>1, <1>1, <1>4 DEF HandsOver
    <3>2. QED
      BY <3>1 DEF Follows
  <2>2. CASE j # i
    <3>1. /\ Follows(log, Pending(j), owner[j], w)
          /\ \A e \in Pending(j) : Later(e) \subseteq Pending(j)
      BY <1>3 DEF InOrder, PresentInOrder
    <3>2. Pending(j)' = Pending(j) \cup {n} /\ owner'[j] = owner[j]
      BY <2>2, <1>1 DEF HandsOver
    <3>3. Pending(j) \in SUBSET Transfers
      BY DEF Pending
    <3>4. Follows(log', Pending(j)', owner'[j], v)
      BY <3>1, <3>2, <3>3, <1>7
    <3>5. \A e \in Pending(j) : Later(e)' = Later(e) \cup {n}
      BY <3>3, <1>5, <1>8
    <3>6. Later(n)' = {}
      BY DEF HandsOver
    <3>7. QED
      BY <3>1, <3>2, <3>4, <3>5, <3>6
  <2>3. QED
    BY <2>1, <2>2
<1>11. OwnersNamed'
  <2>1. ASSUME NEW k \in Instances, Present(k)', ~Present(Home[owner[k]])'
        PROVE  \E f \in Transfers' : log'[f].who = owner'[k]
    <3>1. CASE k = i
      BY <3>1, <1>1, <1>6 DEF HandsOver
    <3>2. CASE k # i
      <4>1. owner'[k] = owner[k] /\ Present(k) /\ owner[k] \in Users
        BY <2>1, <3>2, <1>1, <1>2, Homes
      <4>2. Home[owner[k]] \in Instances
        BY <4>1, Homes
      <4>3. ~Present(Home[owner[k]])
        BY <2>1, <4>1, <4>2, <1>2 DEF Present
      <4>4. PICK f \in Transfers : log[f].who = owner[k]
        BY <4>1, <4>3 DEF InOrder, OwnersNamed
      <4>5. QED
        BY <4>1, <4>4, <1>5, <1>6, <1>8
    <3>3. QED
      BY <3>1, <3>2
  <2>2. ASSUME NEW e \in DOMAIN log', log'[e].kind = "add",
               ~Present(Home[log[e].owner])'
        PROVE  \E f \in Transfers' : f < e /\ log'[f].who = log'[e].owner
    <3>1. e \in DOMAIN log /\ log'[e] = log[e]
      BY <2>2 DEF HandsOver
    <3>2. Home[log[e].owner] \in Instances
      BY <3>1, Homes
    <3>3. ~Present(Home[log[e].owner])
      BY <2>2, <3>1, <3>2, <1>2 DEF Present
    <3>4. PICK f \in Transfers : f < e /\ log[f].who = log[e].owner
      BY <2>2, <3>1, <3>3 DEF InOrder, OwnersNamed
    <3>5. QED
      BY <3>1, <3>4, <1>5, <1>6, <1>8
  <2>3. QED
    BY <2>1, <2>2 DEF OwnersNamed
<1>12. QED
  BY <1>9, <1>10, <1>11 DEF InOrder

-----------------------------------------------------------------------------
(* Events are handled.                                                     *)

\* What a handler that keeps the owners leaves as it was.
LEMMA SameOwners ==
  ASSUME TypeOK, NEW j \in Instances, NEW e \in DOMAIN log, Handles(j, e),
         UNCHANGED owner
  PROVE  /\ UNCHANGED log
         /\ Transfers' = Transfers
         /\ \A k \in Instances : /\ Present(k)' <=> Present(k)
                                 /\ Seat(k)' <=> Seat(k)
         /\ \A f \in DOMAIN log : /\ Later(f)' = Later(f)
                                  /\ BySeat(f)' <=> BySeat(f)
         /\ \A k \in Instances, f \in DOMAIN log :
              /\ Token(k, f)' => Token(k, f)
              /\ InTransit(k, f)' => InTransit(k, f)
              /\ TransferTo(f, k)' <=> TransferTo(f, k)
         /\ Stranded => Stranded'
<1>1. /\ Transfers' = Transfers
      /\ \A f \in DOMAIN log : Later(f)' = Later(f)
      /\ \A k \in Instances, f \in DOMAIN log :
           /\ Token(k, f)' => Token(k, f)
           /\ InTransit(k, f)' => InTransit(k, f)
  BY PendingHandled
<1>2. /\ UNCHANGED <<owner, log>>
      /\ \A k \in Instances : /\ Present(k)' <=> Present(k)
                              /\ Seat(k)' <=> Seat(k)
      /\ \A f \in DOMAIN log : BySeat(f)' <=> BySeat(f)
      /\ \A f \in DOMAIN log, k \in Instances :
           TransferTo(f, k)' <=> TransferTo(f, k)
  BY DEF Handles, Present, Seat, BySeat, TransferTo
<1>3. Stranded => Stranded'
  BY <1>1, <1>2 DEF Stranded
<1>4. QED
  BY <1>1, <1>2, <1>3

\* What does not depend on what is pending survives such a step.
LEMMA SameOwnersKeep ==
  ASSUME TypeOK, NEW j \in Instances, NEW e \in DOMAIN log, Handles(j, e),
         UNCHANGED owner, NEW s \in Instances, NEW w \in Users
  PROVE  /\ SeatAt(s) => SeatAt(s)'
         /\ SnapshotsOnTrail(s) => SnapshotsOnTrail(s)'
         /\ LogInOrder(w) => LogInOrder(w)'
         /\ OwnersNamed => OwnersNamed'
<1>1. /\ UNCHANGED <<owner, log>>
      /\ Transfers' = Transfers
      /\ \A k \in Instances : /\ Present(k)' <=> Present(k)
                              /\ Seat(k)' <=> Seat(k)
      /\ \A f \in DOMAIN log : /\ Later(f)' = Later(f)
                               /\ BySeat(f)' <=> BySeat(f)
      /\ \A k \in Instances, f \in DOMAIN log :
           /\ Token(k, f)' => Token(k, f)
           /\ TransferTo(f, k)' <=> TransferTo(f, k)
  BY SameOwners
<1>2. SeatAt(s) => SeatAt(s)'
  BY <1>1 DEF SeatAt
<1>3. SnapshotsOnTrail(s) => SnapshotsOnTrail(s)'
  BY <1>1 DEF SnapshotsOnTrail
<1>4. LogInOrder(w) => LogInOrder(w)'
  BY <1>1 DEF LogInOrder, Transfers
<1>5. OwnersNamed => OwnersNamed'
  BY <1>1 DEF OwnersNamed, Present
<1>6. QED
  BY <1>2, <1>3, <1>4, <1>5

\* A step that keeps the owners and what is pending.
LEMMA SamePendingKeeps ==
  ASSUME TypeOK, NEW j \in Instances, NEW e \in DOMAIN log, Handles(j, e),
         UNCHANGED owner, \A k \in Instances : Pending(k)' = Pending(k),
         NEW w \in Users
  PROVE  /\ OnTrail(Home[w]) => OnTrail(Home[w])'
         /\ InOrder(w) => InOrder(w)'
<1>1. /\ UNCHANGED <<owner, log>>
      /\ \A k \in Instances : Present(k)' <=> Present(k)
      /\ \A f \in DOMAIN log : /\ Later(f)' = Later(f)
                               /\ BySeat(f)' <=> BySeat(f)
      /\ \A k \in Instances, f \in DOMAIN log :
           InTransit(k, f)' => InTransit(k, f)
      /\ Stranded => Stranded'
  BY SameOwners
<1>2. ASSUME NEW s \in Instances, OnTrail(s)
      PROVE  OnTrail(s)'
  <2>1. SeatAt(s)' /\ SnapshotsOnTrail(s)'
    BY <1>2, SameOwnersKeep DEF OnTrail
  <2>2. PresentOnTrail(s)'
    BY <1>1, <1>2 DEF OnTrail, PresentOnTrail
  <2>3. SnapshotsFollowed(s)'
    BY <1>1, <1>2 DEF OnTrail, SnapshotsFollowed
  <2>4. QED
    BY <2>1, <2>2, <2>3 DEF OnTrail
<1>3. Home[w] \in Instances
  BY Homes
<1>4. ASSUME InOrder(w)
      PROVE  InOrder(w)'
  <2>1. LogInOrder(w)' /\ OwnersNamed'
    BY <1>3, <1>4, SameOwnersKeep DEF InOrder
  <2>2. \A k \in Instances : \A f \in Pending(k) : Later(f)' = Later(f)
    BY <1>1 DEF Pending, Transfers
  <2>3. PresentInOrder(w)'
    BY <1>1, <1>4, <2>2 DEF InOrder, PresentInOrder
  <2>4. QED
    BY <2>1, <2>3 DEF InOrder
<1>5. QED
  BY <1>2, <1>3, <1>4

\* The addressee of the seat drops it: nobody else is concerned.
LEMMA ForgotKeeps ==
  ASSUME TypeOK, OwnersSafe, NEW j \in Instances, NEW e \in DOMAIN log,
         Handles(j, e), Forgot(j, e), "dropped" \notin flaws', NEW w \in Users,
         OnTrail(Home[w])
  PROVE  /\ OnTrail(Home[w])'
         /\ InOrder(w) => InOrder(w)'
<1> DEFINE s == Home[w]
<1>1. /\ \A k \in Instances : Pending(k)' \subseteq Pending(k)
      /\ \A k \in Instances : \A f \in Pending(k) :
           f \in Pending(k)' \/ (k = j /\ f = e)
  BY PendingHandled
<1>2. CASE e \in Pending(j)'
  <2>1. \A k \in Instances : Pending(k)' = Pending(k)
    BY <1>1, <1>2
  <2>2. QED
    BY <2>1, SamePendingKeeps DEF Forgot
<1>3. CASE e \notin Pending(j)'
  <2>1. \A k \in Instances : k # j => Pending(k)' = Pending(k)
    BY <1>1
  <2>2. Token(j, e) /\ ~Present(j) /\ UNCHANGED owner
    BY DEF Forgot
  <2>3. s \in Instances
    BY Homes
  <2> HIDE DEF s
  <2>4. j = s /\ OnTrail(s)
    BY <2>2 DEF OnTrail, SeatAt, s
  <2>5. /\ UNCHANGED <<owner, log>>
        /\ Transfers' = Transfers
        /\ \A k \in Instances : /\ Present(k)' <=> Present(k)
                                /\ Seat(k)' <=> Seat(k)
        /\ \A f \in DOMAIN log : /\ Later(f)' = Later(f)
                                 /\ BySeat(f)' <=> BySeat(f)
        /\ \A k \in Instances, f \in DOMAIN log :
             /\ Token(k, f)' => Token(k, f)
             /\ InTransit(k, f)' => InTransit(k, f)
    BY <2>2, SameOwners
  <2>6. ~Stranded /\ \A k \in Instances : Present(k) => k # s
    BY <2>2, <2>4 DEF Stranded
  <2>7. Stranded'
    <3>1. \A k \in Instances : ~Seat(k)
      BY <2>2 DEF OwnersSafe, OneHolder
    <3>2. \A k \in Instances, f \in DOMAIN log : Token(k, f) => f = e /\ k = j
      BY <2>2 DEF OwnersSafe, OneHolder, Token
    <3>3. ~Token(j, e)'
      BY <1>3, <2>5 DEF Token, Pending, Transfers
    <3>4. QED
      BY <2>5, <3>1, <3>2, <3>3 DEF Stranded
  <2>8. SeatAt(s)' /\ SnapshotsOnTrail(s)'
    BY <2>3, <2>4, <2>5, SameOwnersKeep DEF OnTrail
  <2>9. PresentOnTrail(s)'
    BY <2>1, <2>4, <2>5, <2>6 DEF OnTrail, PresentOnTrail
  <2>10. SnapshotsFollowed(s)'
    BY <2>1, <2>4, <2>5, <2>6, <2>7 DEF OnTrail, SnapshotsFollowed
  <2>11. OnTrail(Home[w])'
    BY <2>8, <2>9, <2>10 DEF OnTrail, s
  <2>12. ASSUME InOrder(w)
         PROVE  InOrder(w)'
    <3>1. LogInOrder(w)' /\ OwnersNamed'
      BY <2>3, <2>5, <2>12, SameOwnersKeep DEF InOrder
    <3>2. \A k \in Instances : \A f \in Pending(k) : Later(f)' = Later(f)
      BY <2>5 DEF Pending, Transfers
    <3>3. PresentInOrder(w)'
      BY <2>1, <2>4, <2>5, <2>6, <2>12, <3>2 DEF InOrder, PresentInOrder
    <3>4. QED
      BY <3>1, <3>3 DEF InOrder
  <2>13. QED
    BY <2>11, <2>12
<1>4. QED
  BY <1>2, <1>3

\* A transfer is taken: what is left to take leads on from where it leads.
LEMMA TookKeeps ==
  ASSUME TypeOK, RowsSound, NEW j \in Instances, NEW e \in DOMAIN log,
         Handles(j, e), TookInTurn(j, e), NEW w \in Users, OnTrail(Home[w])
  PROVE  /\ OnTrail(Home[w])'
         /\ "overtaken" \notin flaws' /\ InOrder(w) => InOrder(w)'
<1> DEFINE s == Home[w]
           u == log[e].who
<1>1. /\ Transfers' = Transfers
      /\ \A f \in DOMAIN log : Later(f)' = Later(f)
      /\ \A k \in Instances : Pending(k)' \subseteq Pending(k)
      /\ \A k \in Instances : \A f \in Pending(k) :
           f \in Pending(k)' \/ (k = j /\ f = e)
      /\ \A k \in Instances, f \in DOMAIN log :
           /\ Token(k, f)' => Token(k, f)
           /\ InTransit(k, f)' => InTransit(k, f)
  BY PendingHandled
<1>2. /\ e \in Pending(j)
      /\ Present(j)
      /\ Home[owner[j]] = log[e].src
      /\ owner' = [owner EXCEPT ![j] = u]
      /\ UNCHANGED log
      /\ applied' = applied \cup {<<j, e>>}
  BY DEF TookInTurn, Took, FromOwner, Pending, Transfers
<1>3. /\ Pending(j)' = Pending(j) \ {e}
      /\ \A k \in Instances : k # j => Pending(k)' = Pending(k)
  <2>1. e \notin Pending(j)'
    BY <1>2 DEF Pending
  <2>2. QED
    BY <1>1, <2>1
<1>4. u \in Users /\ u # NoOne /\ s \in Instances
  BY Homes, GroupAssumption
<1>5. owner'[j] = u /\ \A k \in Instances : k # j => owner'[k] = owner[k]
  BY <1>2 DEF TypeOK
<1>6. Home[u] = j => Token(j, e)
  BY <1>2 DEF Token, Pending, Transfers
<1>7. ~Seat(j)
  BY <1>2 DEF Seat, RowsSound, Pending, Transfers
<1> HIDE DEF s, u
<1>8. /\ \A k \in Instances : Present(k)' <=> Present(k)
      /\ \A k \in Instances : k # j => (Seat(k)' <=> Seat(k))
      /\ Seat(j)' => Token(j, e)
      /\ \A f \in DOMAIN log : BySeat(f)' <=> BySeat(f)
      /\ \A f \in DOMAIN log, k \in Instances :
           TransferTo(f, k)' <=> TransferTo(f, k)
  BY <1>2, <1>4, <1>5, <1>6 DEF Present, Seat, BySeat, TransferTo
<1>9. Stranded => Stranded'
  BY <1>1, <1>2, <1>8 DEF Stranded
<1>10. OnTrail(s)
  BY DEF s
<1>11. SeatAt(s)'
  <2>1. \A k \in Instances : Seat(k)' => k = s
    BY <1>8, <1>10 DEF OnTrail, SeatAt
  <2>2. QED
    BY <2>1, <1>1, <1>2, <1>8, <1>10 DEF OnTrail, SeatAt
<1>12. PresentOnTrail(s)'
  <2> SUFFICES ASSUME NEW k \in Instances, Present(k)
               PROVE  \/ Trail(log, Pending(k)', Home[owner'[k]], s)
                      \/ k = s /\ Stranded'
    BY <1>2, <1>8 DEF PresentOnTrail
  <2>1. \/ Trail(log, Pending(k), Home[owner[k]], s)
        \/ k = s /\ Stranded
    BY <1>10 DEF OnTrail, PresentOnTrail
  <2>2. CASE k = j /\ Trail(log, Pending(k), Home[owner[k]], s)
    <3>1. 0 \notin Pending(j)
      BY LogFacts DEF Pending, Transfers
    <3>2. Trail(log, Pending(j) \ {e}, Home[u], s)
      BY <2>2, <3>1, <1>2, TrailTake DEF u
    <3>3. QED
      BY <2>2, <3>2, <1>3, <1>5
  <2>3. QED
    BY <2>1, <2>2, <1>3, <1>5, <1>9
<1>13. SnapshotsOnTrail(s)'
  BY <1>1, <1>2, <1>8, <1>10 DEF OnTrail, SnapshotsOnTrail
<1>14. SnapshotsFollowed(s)'
  BY <1>1, <1>2, <1>3, <1>8, <1>9, <1>10 DEF OnTrail, SnapshotsFollowed
<1>15. OnTrail(Home[w])'
  BY <1>11, <1>12, <1>13, <1>14 DEF OnTrail, s
<1>16. ASSUME "overtaken" \notin flaws', InOrder(w)
       PROVE  InOrder(w)'
  <2>1. LogInOrder(w)'
    BY <1>1, <1>2, <1>8, <1>16 DEF InOrder, LogInOrder, Transfers
  <2>2. PresentInOrder(w)'
    <3> SUFFICES ASSUME NEW k \in Instances, Present(k)
                 PROVE  \/ /\ Follows(log, Pending(k)', owner'[k], w)
                           /\ \A f \in Pending(k)' : Later(f) \subseteq Pending(k)'
                        \/ k = s /\ Stranded'
      <4>1. \A k \in Instances : \A f \in Pending(k)' : Later(f)' = Later(f)
        BY <1>1 DEF Pending, Transfers
      <4>2. QED
        BY <4>1, <1>2, <1>8 DEF PresentInOrder, s
    <3>1. \/ /\ Follows(log, Pending(k), owner[k], w)
             /\ \A f \in Pending(k) : Later(f) \subseteq Pending(k)
          \/ k = s /\ Stranded
      BY <1>16 DEF InOrder, PresentInOrder, s
    <3>2. CASE /\ k = j
               /\ Follows(log, Pending(k), owner[k], w)
               /\ \A f \in Pending(k) : Later(f) \subseteq Pending(k)
      <4>1. PICK g \in Pending(j) : /\ log[g].src = Home[owner[j]]
                                    /\ \A f \in Pending(j) : g <= f
        BY <3>2, <1>2 DEF Follows
      <4>2. g = e
        <5>1. ~Overtaken(j, e)
          BY <1>16 DEF TookInTurn
        <5>2. ~(g < e)
          BY <4>1, <5>1, <1>2 DEF Overtaken, Pending, Transfers
        <5>3. g <= e /\ g \in Nat /\ e \in Nat
          BY <4>1, <1>2, LogFacts DEF Pending, Transfers
        <5>4. QED
          BY <5>2, <5>3
      <4>3. Pending(j) \ {e} = Later(e)
        <5>1. \A f \in Pending(j) \ {e} : f \in Transfers /\ e < f
          BY <4>1, <4>2, LogFacts DEF Pending, Transfers
        <5>2. \A f \in Later(e) : f # e
          BY LogFacts DEF Later, Transfers
        <5>3. Later(e) \subseteq Pending(j)
          BY <3>2, <1>2
        <5>4. QED
          BY <5>1, <5>2, <5>3 DEF Later
      <4>4. Follows(log, Later(e), u, w)
        BY <1>2, <1>16 DEF InOrder, LogInOrder, Pending, u
      <4>5. \A f \in Later(e) : Later(f) \subseteq Later(e)
        BY LogFacts DEF Later, Transfers
      <4>6. QED
        BY <3>2, <4>3, <4>4, <4>5, <1>3, <1>5
    <3>3. QED
      BY <3>1, <3>2, <1>3, <1>5, <1>9
  <2>3. OwnersNamed'
    <3>1. ASSUME NEW k \in Instances, Present(k)', ~Present(Home[owner[k]])'
          PROVE  \E f \in Transfers' : log'[f].who = owner'[k]
      <4>1. CASE k = j
        BY <4>1, <1>1, <1>2, <1>5 DEF Pending, u
      <4>2. CASE k # j
        <5>1. owner'[k] = owner[k] /\ Present(k) /\ Home[owner[k]] \in Instances
          BY <3>1, <4>2, <1>5, <1>8, Homes
        <5>2. ~Present(Home[owner[k]])
          BY <3>1, <5>1, <1>8 DEF Present
        <5>3. QED
          BY <5>1, <5>2, <1>1, <1>2, <1>16 DEF InOrder, OwnersNamed
      <4>3. QED
        BY <4>1, <4>2
    <3>2. ASSUME NEW f \in DOMAIN log, log[f].kind = "add",
                 ~Present(Home[log[f].owner])'
          PROVE  \E g \in Transfers : g < f /\ log[g].who = log[f].owner
      <4>1. Home[log[f].owner] \in Instances
        BY Homes
      <4>2. ~Present(Home[log[f].owner])
        BY <3>2, <4>1, <1>2, <1>8 DEF Present
      <4>3. QED
        BY <3>2, <4>2, <1>16 DEF InOrder, OwnersNamed
    <3>3. QED
      BY <3>1, <3>2, <1>1, <1>2 DEF OwnersNamed
  <2>4. QED
    BY <2>1, <2>2, <2>3 DEF InOrder
<1>17. QED
  BY <1>15, <1>16

\* The channel is created from a snapshot that is not ahead of a transfer.  If
\* the snapshot's owner is at its issuer's, all transfers after it are still to
\* be taken; if it is at j, the last transfer went to j before the snapshot and
\* j has dropped it.
LEMMA BootedKeeps ==
  ASSUME TypeOK, RowsSound, IssuersPresent, OwnersSafe,
         NEW j \in Instances, NEW e \in DOMAIN log, Handles(j, e),
         Booted(j, e), e \notin Pending(j), ~Ahead(j, e),
         NEW w \in Users, OnTrail(Home[w])
  PROVE  /\ OnTrail(Home[w])'
         /\ InOrder(w) => InOrder(w)'
<1> DEFINE s == Home[w]
           o == log[e].owner
<1>1. /\ Transfers' = Transfers
      /\ \A f \in DOMAIN log : Later(f)' = Later(f)
      /\ \A k \in Instances : Pending(k)' \subseteq Pending(k)
      /\ \A k \in Instances : \A f \in Pending(k) :
           f \in Pending(k)' \/ (k = j /\ f = e)
      /\ \A k \in Instances, f \in DOMAIN log :
           /\ Token(k, f)' => Token(k, f)
           /\ InTransit(k, f)' => InTransit(k, f)
  BY PendingHandled
<1>2. \A k \in Instances : Pending(k)' = Pending(k)
  BY <1>1
<1>3. o \in Users /\ Home[o] \in Instances /\ o # NoOne /\ s \in Instances
  BY Homes, GroupAssumption
<1>4. /\ owner' = [owner EXCEPT ![j] = o]
      /\ UNCHANGED log
      /\ ~Present(j)
      /\ log[e].kind = "add"
      /\ InTransit(j, e)
  BY DEF Booted, InTransit
<1>5. owner'[j] = o /\ \A k \in Instances : k # j => owner'[k] = owner[k]
  BY <1>4 DEF TypeOK
<1>6. Home[o] \in {log[e].src, j} /\ log[e].src # j /\ Present(log[e].src)
  BY DEF Booted, RowsSound, IssuersPresent, Attributed
<1> HIDE DEF s, o
<1>7. /\ Present(j)'
      /\ \A k \in Instances : Present(k)' <=> Present(k) \/ k = j
      /\ \A k \in Instances : k # j => (Seat(k)' <=> Seat(k))
      /\ Seat(j)' <=> Home[o] = j
      /\ \A f \in DOMAIN log : BySeat(f)' <=> BySeat(f)
      /\ \A f \in DOMAIN log, k \in Instances :
           TransferTo(f, k)' <=> TransferTo(f, k)
  BY <1>3, <1>4, <1>5 DEF Present, Seat, BySeat, TransferTo
<1>8. OnTrail(s)
  BY DEF s
<1>9. \A g \in Pending(j) : e < g
  <2>1. \A g \in Pending(j) : g \in Nat /\ g # e
    BY LogFacts DEF Pending, Transfers
  <2>2. \A g \in Pending(j) : ~(g < e)
    BY DEF Ahead, Pending, Transfers
  <2>3. e \in Nat
    BY LogFacts
  <2>4. QED
    BY <2>1, <2>2, <2>3
<1>10. ASSUME Home[o] # j
       PROVE  /\ BySeat(e)
              /\ Home[o] = log[e].src
              /\ Stranded => Stranded'
              /\ Pending(j) = Later(e) \/ (j = s /\ Stranded)
  <2>1. BySeat(e) /\ Home[o] = log[e].src
    BY <1>4, <1>6, <1>10 DEF BySeat, o
  <2>2. Stranded => Stranded'
    BY <1>1, <1>4, <1>7, <1>10 DEF Stranded
  <2>3. Later(e) \subseteq Pending(j) \/ (j = s /\ Stranded)
    BY <1>4, <1>8, <2>1 DEF OnTrail, SnapshotsFollowed
  <2>4. Pending(j) \subseteq Later(e)
    BY <1>9 DEF Pending, Later
  <2>5. QED
    BY <2>1, <2>2, <2>3, <2>4
<1>11. ASSUME Home[o] = j
       PROVE  /\ j = s
              /\ \A i \in Instances : ~Seat(i)
              /\ \A k \in Instances, f \in DOMAIN log : ~Token(k, f)
              /\ Pending(j) = {}
              /\ \A f \in Transfers : Home[log[f].who] = j => Later(f) = {}
  <2>1. ~Present(Home[log[e].owner])
    BY <1>4, <1>11 DEF o
  <2>2. PICK f \in DOMAIN log : f < e /\ TransferTo(f, Home[log[e].owner])
    BY <1>4, <2>1 DEF OwnersSafe, SnapshotsTold
  <2>3. TransferTo(f, j)
    BY <2>2, <1>11 DEF o
  <2>4. j = s /\ \A g \in Transfers : g <= f
    BY <2>3, <1>4, <1>8 DEF OnTrail, SeatAt
  <2>5. Pending(j) = {}
    <3>1. \A g \in Pending(j) : g <= f /\ e < g /\ g \in Nat
      BY <2>4, <1>9, LogFacts DEF Pending, Transfers
    <3>2. e \in Nat /\ f \in Nat
      BY LogFacts
    <3>3. QED
      BY <2>2, <3>1, <3>2
  <2>6. /\ \A i \in Instances : ~Seat(i)
        /\ \A k \in Instances, g \in DOMAIN log : Token(k, g) => g = f
    BY <2>3, <1>4 DEF OwnersSafe, AbsentIsLast
  <2>7. \A k \in Instances, g \in DOMAIN log : ~Token(k, g)
    <3>1. ~Token(j, f)
      BY <2>5 DEF Pending, Token, Transfers
    <3>2. \A k \in Instances : Token(k, f) => k = j
      BY <2>3 DEF Token, TransferTo
    <3>3. QED
      BY <2>6, <3>1, <3>2
  <2>8. ASSUME NEW g \in Transfers, Home[log[g].who] = j
        PROVE  Later(g) = {}
    <3>1. TransferTo(g, j)
      BY <2>8 DEF TransferTo, Transfers
    <3>2. \A h \in Transfers : h <= g /\ h \in Nat /\ g \in Nat
      BY <3>1, <1>4, <1>8, LogFacts DEF OnTrail, SeatAt, Transfers
    <3>3. QED
      BY <3>2 DEF Later
  <2>9. QED
    BY <2>4, <2>5, <2>6, <2>7, <2>8
<1>12. \A k \in Instances : k # j /\ k = s /\ Stranded => Stranded'
  BY <1>10, <1>11
<1>13. SeatAt(s)'
  <2>1. /\ \A k \in Instances : Seat(k)' => k = s
        /\ \A k \in Instances, f \in DOMAIN log : Token(k, f)' => k = s
    BY <1>1, <1>7, <1>8, <1>11 DEF OnTrail, SeatAt
  <2>2. QED
    BY <2>1, <1>1, <1>4, <1>7, <1>8 DEF OnTrail, SeatAt
<1>14. PresentOnTrail(s)'
  <2> SUFFICES ASSUME NEW k \in Instances, Present(k)'
               PROVE  \/ Trail(log, Pending(k), Home[owner'[k]], s)
                      \/ k = s /\ Stranded'
    BY <1>2, <1>4 DEF PresentOnTrail
  <2>1. CASE k = j /\ Home[o] = j
    BY <2>1, <1>5, <1>11, TrailEmpty
  <2>2. CASE k = j /\ Home[o] # j
    <3>1. Trail(log, Later(e), Home[o], s)
      BY <2>2, <1>8, <1>10 DEF OnTrail, SnapshotsOnTrail
    <3>2. QED
      BY <2>2, <3>1, <1>5, <1>10
  <2>3. CASE k # j
    BY <2>3, <1>5, <1>7, <1>8, <1>12 DEF OnTrail, PresentOnTrail
  <2>4. QED
    BY <2>1, <2>2, <2>3
<1>15. SnapshotsOnTrail(s)'
  BY <1>1, <1>4, <1>7, <1>8 DEF OnTrail, SnapshotsOnTrail
<1>16. SnapshotsFollowed(s)'
  BY <1>1, <1>2, <1>4, <1>7, <1>8, <1>12 DEF OnTrail, SnapshotsFollowed
<1>17. OnTrail(Home[w])'
  BY <1>13, <1>14, <1>15, <1>16 DEF OnTrail, s
<1>18. ASSUME InOrder(w)
       PROVE  InOrder(w)'
  <2>1. LogInOrder(w)'
    BY <1>1, <1>4, <1>7, <1>18 DEF InOrder, LogInOrder, Transfers
  <2>2. PresentInOrder(w)'
    <3> SUFFICES ASSUME NEW k \in Instances, Present(k)'
                 PROVE  \/ /\ Follows(log, Pending(k), owner'[k], w)
                           /\ \A f \in Pending(k) : Later(f) \subseteq Pending(k)
                        \/ k = s /\ Stranded'
      <4>1. \A i \in Instances : \A f \in Pending(i) : Later(f)' = Later(f)
        BY <1>1 DEF Pending, Transfers
      <4>2. QED
        BY <4>1, <1>2, <1>4 DEF PresentInOrder, s
    <3>1. CASE k = j /\ Home[o] = j
      <4>1. PICK f \in Transfers : f < e /\ log[f].who = o
        BY <3>1, <1>4, <1>18 DEF InOrder, OwnersNamed, o
      <4>2. Later(f) = {} /\ Follows(log, Later(f), o, w)
        BY <3>1, <4>1, <1>11, <1>18 DEF InOrder, LogInOrder
      <4>3. QED
        BY <3>1, <4>2, <1>5, <1>11
    <3>2. CASE k = j /\ Home[o] # j
      <4>1. Follows(log, Later(e), o, w)
        BY <3>2, <1>10, <1>18 DEF InOrder, LogInOrder, o
      <4>2. \A f \in Later(e) : Later(f) \subseteq Later(e)
        BY LogFacts DEF Later, Transfers
      <4>3. QED
        BY <3>2, <4>1, <4>2, <1>5, <1>10
    <3>3. CASE k # j
      BY <3>3, <1>5, <1>7, <1>12, <1>18 DEF InOrder, PresentInOrder, s
    <3>4. QED
      BY <3>1, <3>2, <3>3
  <2>3. OwnersNamed'
    <3>1. ASSUME NEW k \in Instances, Present(k)', ~Present(Home[owner[k]])'
          PROVE  \E f \in Transfers' : log'[f].who = owner'[k]
      <4>1. k # j
        <5>1. \A h \in Instances : h \in {log[e].src, j} => owner'[h] # NoOne
          BY <1>6, <1>7 DEF Present
        <5>2. owner'[Home[o]] # NoOne
          BY <5>1, <1>3, <1>6
        <5>3. owner'[Home[owner'[k]]] = NoOne
          BY <3>1 DEF Present
        <5>4. QED
          BY <5>2, <5>3, <1>5
      <4>2. owner'[k] = owner[k] /\ Present(k) /\ Home[owner[k]] \in Instances
        BY <3>1, <4>1, <1>5, <1>7, Homes
      <4>3. ~Present(Home[owner[k]])
        BY <3>1, <4>2, <1>7 DEF Present
      <4>4. QED
        BY <4>2, <4>3, <1>1, <1>4, <1>18 DEF InOrder, OwnersNamed
    <3>2. ASSUME NEW f \in DOMAIN log, log[f].kind = "add",
                 ~Present(Home[log[f].owner])'
          PROVE  \E g \in Transfers : g < f /\ log[g].who = log[f].owner
      <4>1. Home[log[f].owner] \in Instances
        BY Homes
      <4>2. ~Present(Home[log[f].owner])
        BY <3>2, <4>1, <1>4, <1>7 DEF Present
      <4>3. QED
        BY <3>2, <4>2, <1>18 DEF InOrder, OwnersNamed
    <3>3. QED
      BY <3>1, <3>2, <1>1, <1>4 DEF OwnersNamed
  <2>4. QED
    BY <2>1, <2>2, <2>3 DEF InOrder
<1>19. QED
  BY <1>17, <1>18

-----------------------------------------------------------------------------
(* The invariant holds.                                                    *)

LEMMA OwnersInvStep == Inv /\ OwnersInv /\ [Next]_vars => OwnersInv'
<1> SUFFICES ASSUME Inv, OwnersInv, [Next]_vars PROVE OwnersInv'
  OBVIOUS
<1>1. TypeOK /\ RowsSound /\ IssuersPresent
  BY DEF Inv
<1>2. ~Misled => OwnersSafe
  BY DEF Inv, Misled
<1>3. \A w \in Users : Home[w] \in Instances
  BY GroupAssumption
<1>4. CASE UNCHANGED vars
  <2>1. /\ UNCHANGED <<owner, log, flaws>>
        /\ Transfers' = Transfers
        /\ \A k : /\ Present(k)' <=> Present(k)
                  /\ Seat(k)' <=> Seat(k)
                  /\ Pending(k)' = Pending(k)
        /\ \A f : /\ Later(f)' = Later(f)
                  /\ BySeat(f)' <=> BySeat(f)
        /\ \A k, f : /\ Token(k, f)' <=> Token(k, f)
                     /\ InTransit(k, f)' <=> InTransit(k, f)
                     /\ TransferTo(f, k)' <=> TransferTo(f, k)
    BY <1>4 DEF vars, BySeat, Transfers, Pending, Later, InTransit, Seat,
                Present, Token, TransferTo
  <2>2. Stranded' <=> Stranded
    BY <2>1 DEF Stranded
  <2>3. \A s : OnTrail(s)' <=> OnTrail(s)
    BY <2>1, <2>2
    DEF OnTrail, SeatAt, PresentOnTrail, SnapshotsOnTrail, SnapshotsFollowed
  <2>4. \A w : InOrder(w)' <=> InOrder(w)
    BY <2>1, <2>2 DEF InOrder, LogInOrder, PresentInOrder, OwnersNamed
  <2>5. QED
    BY <2>1, <2>3, <2>4 DEF OwnersInv, Misled
<1>5. ASSUME NEW i \in Instances, Act(i) PROVE OwnersInv'
  <2>1. /\ TypeOK'
        /\ Issued(i)
        /\ \/ Founded(i)
           \/ KeptOwner(i)
           \/ \E v \in Users : HandedOver(i, v)
    BY <1>1, <1>5, ActStep
  <2>2. UNCHANGED fetching /\ flaws \subseteq flaws'
    BY <1>5, <2>1, ActFetching DEF Issued
  <2>3. Misled => Misled'
    BY <2>2 DEF Misled
  <2>4. CASE Founded(i)
    BY <2>1, <2>4, <1>1, FoundedOwners DEF OwnersInv
  <2>5. CASE ~Founded(i) /\ ~Misled'
    <3>1. log # << >>
      BY <2>1, <2>5, <1>1
      DEF IssuersPresent, KeptOwner, HandedOver, Seat
    <3>2. PICK w \in Users : /\ OnTrail(Home[w])
                             /\ "overtaken" \notin flaws => InOrder(w)
      BY <2>3, <2>5, <3>1 DEF OwnersInv
    <3>3. OwnersSafe
      BY <2>3, <2>5, <1>2
    <3>4. CASE KeptOwner(i)
      <4>1. OnTrail(Home[w])'
        BY <3>2, <3>4, <2>1, <2>2, <1>1, <1>3, KeptOwnerTrail
      <4>2. InOrder(w) => InOrder(w)'
        BY <3>4, <2>1, <2>2, <1>1, KeptOwnerOrder
      <4>3. QED
        BY <4>1, <4>2, <3>2, <2>2 DEF OwnersInv
    <3>5. ASSUME NEW v \in Users, HandedOver(i, v)
          PROVE  OwnersInv'
      <4>1. \A n \in DOMAIN log' \ DOMAIN log :
              log'[n].kind = "transfer" => Announced(i, n)
        BY <1>1, <1>5, ActAnnounced
      <4>2. "missed" \notin flaws'
        BY <2>5 DEF Misled
      <4>3. PICK n : HandsOver(i, v, n)
        BY <3>5, <4>1, <4>2, <2>1, <2>2, <1>1, HandedOverFacts
      <4>4. Home[w] = i /\ OnTrail(Home[v])'
        BY <4>3, <3>2, <3>3, <2>1, <1>1, <1>3, HandsOverTrail
      <4>5. InOrder(w) => InOrder(v)'
        BY <4>3, <4>4, <2>1, <1>1, HandsOverOrder
      <4>6. QED
        BY <4>4, <4>5, <3>2, <2>2 DEF OwnersInv
    <3>6. QED
      BY <3>4, <3>5, <2>1, <2>5
  <2>6. QED
    BY <2>4, <2>5 DEF OwnersInv
<1>6. ASSUME NEW j \in Instances, NEW e \in DOMAIN log,
             Receive(j, e) \/ Finish(j, e)
      PROVE  OwnersInv'
  <2>1. Handles(j, e)
    BY <1>1, <1>6, HandlerRows
  <2>2. \/ PassedOver(j, e)
        \/ Forgot(j, e)
        \/ TookInTurn(j, e)
        \/ Booted(j, e) /\ e \notin Pending(j)
    BY <1>1, <1>6, HandlerOwners
  <2>3. UNCHANGED log /\ flaws \subseteq flaws'
    BY <2>1 DEF Handles
  <2> SUFFICES ASSUME ~Misled'
               PROVE  \E w \in Users :
                        /\ OnTrail(Home[w])'
                        /\ "overtaken" \notin flaws' => InOrder(w)'
    BY DEF OwnersInv
  <2>4. ~Misled /\ OwnersSafe /\ log # << >>
    BY <2>3, <1>2 DEF Misled
  <2>5. PICK w \in Users : /\ OnTrail(Home[w])
                           /\ "overtaken" \notin flaws => InOrder(w)
    BY <2>4 DEF OwnersInv
  <2>6. CASE PassedOver(j, e)
    <3>1. /\ \A k \in Instances : Pending(k)' \subseteq Pending(k)
          /\ \A k \in Instances : \A f \in Pending(k) :
               f \in Pending(k)' \/ (k = j /\ f = e)
      BY <1>1, <2>1, PendingHandled
    <3>2. UNCHANGED owner /\ e \notin Pending(j)
      BY <2>6 DEF PassedOver
    <3>3. \A k \in Instances : Pending(k)' = Pending(k)
      BY <3>1, <3>2
    <3>4. QED
      BY <3>2, <3>3, <1>1, <2>1, <2>3, <2>5, SamePendingKeeps
  <2>7. CASE Forgot(j, e)
    <3>1. "dropped" \notin flaws'
      BY DEF Misled
    <3>2. QED
      BY <3>1, <1>1, <2>1, <2>3, <2>4, <2>5, <2>7, ForgotKeeps
  <2>8. CASE TookInTurn(j, e)
    BY <1>1, <2>1, <2>3, <2>5, <2>8, TookKeeps
  <2>9. CASE Booted(j, e) /\ e \notin Pending(j)
    <3>1. ~Ahead(j, e)
      BY <2>9 DEF Misled, Booted
    <3>2. QED
      BY <3>1, <1>1, <2>1, <2>3, <2>4, <2>5, <2>9, BootedKeeps
  <2>10. QED
    BY <2>2, <2>6, <2>7, <2>8, <2>9
<1>7. QED
  BY <1>4, <1>5, <1>6 DEF Next

LEMMA OwnersInvHolds == Spec => []OwnersInv
<1>1. Init => OwnersInv
  BY DEF Init, OwnersInv
<1>2. QED
  BY <1>1, OwnersInvStep, InvHolds, PTL DEF Spec

-----------------------------------------------------------------------------
(* What the instances agree on.                                            *)

\* Who would take no transfer that is left is at the end of its trail.
LEMMA SettledAtEnd ==
  ASSUME TypeOK, NEW j \in Instances, Present(j), OwnerSettled(j)
  PROVE  /\ \A e \in Pending(j) : log[e].src # Home[owner[j]]
         /\ \A s : Trail(log, Pending(j), Home[owner[j]], s) =>
              Home[owner[j]] = s
         /\ \A w : Follows(log, Pending(j), owner[j], w) => owner[j] = w
<1>1. \A e \in Pending(j) : log[e].src # Home[owner[j]]
  BY DEF Pending, Transfers, OwnerSettled, FromOwner
<1>2. 0 \notin Pending(j)
  BY LogFacts DEF Pending, Transfers
<1>3. \A s : Trail(log, Pending(j), Home[owner[j]], s) => Home[owner[j]] = s
  BY <1>1, <1>2, TrailEnds
<1>4. \A w : Follows(log, Pending(j), owner[j], w) => owner[j] = w
  BY <1>1 DEF Follows
<1>5. QED
  BY <1>1, <1>3, <1>4

\* Instances that have taken what they would take agree with the holder of the
\* seat about the owner's home, and about the owner if no two transfers of one
\* issuer changed places.
THEOREM OwnersAgree == Spec => []OwnersAgreeWhenQuiet
<1>1. Inv /\ OwnersInv => OwnersAgreeWhenQuiet
  <2> SUFFICES ASSUME Inv, OwnersInv,
                      flaws \cap {"dropped", "ahead", "missed"} = {},
                      NEW s \in Instances, NEW j \in Instances,
                      Seat(s), Present(j), OwnerSettled(j)
               PROVE  /\ Home[owner[j]] = s
                      /\ "overtaken" \notin flaws => owner[j] = owner[s]
    BY DEF OwnersAgreeWhenQuiet
  <2>1. TypeOK /\ RowsSound /\ IssuersPresent
    BY DEF Inv
  <2>2. log # << >> /\ ~Misled
    BY <2>1 DEF IssuersPresent, Misled
  <2>3. PICK w \in Users : /\ OnTrail(Home[w])
                           /\ "overtaken" \notin flaws => InOrder(w)
    BY <2>2 DEF OwnersInv
  <2>4. s = Home[w] /\ ~Stranded
    BY <2>3 DEF OnTrail, SeatAt, Stranded
  <2>5. Home[owner[j]] = s
    BY <2>1, <2>3, <2>4, SettledAtEnd DEF OnTrail, PresentOnTrail
  <2>6. ASSUME "overtaken" \notin flaws
        PROVE  owner[j] = owner[s]
    <3>1. owner[j] = w
      BY <2>1, <2>3, <2>4, <2>6, SettledAtEnd DEF InOrder, PresentInOrder
    <3>2. owner[s] = w
      BY <2>1, <2>3, <2>6, HolderUpToDate DEF InOrder
    <3>3. QED
      BY <3>1, <3>2
  <2>7. QED
    BY <2>5, <2>6
<1>2. QED
  BY <1>1, InvHolds, OwnersInvHolds, PTL

\* When every instance has taken what it would take, one of them holds the
\* seat.
THEOREM SeatFound == Spec => []SeatFoundWhenQuiet
<1>1. Inv /\ OwnersInv /\ SeatNotLost => SeatFoundWhenQuiet
  <2> SUFFICES ASSUME Inv, OwnersInv, SeatNotLost, log # << >>,
                      flaws \cap {"dropped", "seatDropped", "missed", "ahead"} = {},
                      \A j \in Instances : OwnerSettled(j),
                      \A i \in Instances : ~Seat(i)
               PROVE  FALSE
    BY DEF SeatFoundWhenQuiet
  <2>1. TypeOK
    BY DEF Inv
  <2>2. PICK j \in Instances, e \in DOMAIN log : Token(j, e)
    BY DEF SeatNotLost
  <2>3. PICK w \in Users : OnTrail(Home[w])
    BY DEF OwnersInv, Misled
  <2>4. j = Home[w] /\ ~Stranded
    BY <2>2, <2>3 DEF OnTrail, SeatAt, Stranded
  <2>5. Present(j)
    BY <2>2 DEF OwnerSettled, Token
  <2>6. Home[owner[j]] = j
    BY <2>1, <2>3, <2>4, <2>5, SettledAtEnd DEF OnTrail, PresentOnTrail
  <2>7. QED
    BY <2>5, <2>6 DEF Seat
<1>2. QED
  BY <1>1, InvHolds, OwnersInvHolds, SeatKept, PTL

-----------------------------------------------------------------------------
(* The seat is a baton: the refinement of SeatPromise.                     *)

\* Where the seat is, in the terms of SeatPromise.
SeatIs(h, b, f) == Holders = h /\ BoundFor = b /\ Forgotten = f

\* Held, on its way, or given up by an instance without the channel.
Located ==
  /\ \A i \in Instances : Seat(i) => SeatIs({i}, {}, {})
  /\ \A j \in Instances, e \in DOMAIN log : Token(j, e) => SeatIs({}, {j}, {})
  /\ \A j \in Instances, f \in DOMAIN log :
       /\ TransferTo(f, j) /\ ~Present(j)
       /\ \A e \in DOMAIN log : ~Token(j, e)
       => SeatIs({}, {}, {j})

LEMMA SeatLocated == ~Forked /\ OwnersSafe => Located
<1> SUFFICES ASSUME ~Forked, OwnersSafe PROVE Located
  OBVIOUS
<1>1. ASSUME NEW i \in Instances, Seat(i)
      PROVE  SeatIs({i}, {}, {})
  <2>1. Holders = {i}
    BY <1>1 DEF Holders, OwnersSafe, OneHolder
  <2>2. BoundFor = {}
    BY <1>1 DEF BoundFor, OwnersSafe, OneHolder
  <2>3. Forgotten = {}
    BY <1>1 DEF Forgotten, OwnersSafe, AbsentIsLast, TransferTo
  <2>4. QED
    BY <2>1, <2>2, <2>3 DEF SeatIs
<1>2. ASSUME NEW j \in Instances, NEW e \in DOMAIN log, Token(j, e)
      PROVE  SeatIs({}, {j}, {})
  <2>1. Holders = {}
    BY <1>2 DEF Holders, OwnersSafe, OneHolder
  <2>2. \A k \in Instances, f \in DOMAIN log : Token(k, f) => k = j
    BY <1>2 DEF OwnersSafe, OneHolder, Token
  <2>3. BoundFor = {j}
    BY <1>2, <2>2 DEF BoundFor
  <2>4. ASSUME NEW k \in Instances, NEW f \in DOMAIN log,
               TransferTo(f, k), ~Present(k)
        PROVE  k = j
    BY <1>2, <2>4 DEF OwnersSafe, AbsentIsLast, Token, TransferTo
  <2>5. Forgotten = {}
    BY <2>3, <2>4 DEF Forgotten, TransferTo
  <2>6. QED
    BY <2>1, <2>3, <2>5 DEF SeatIs
<1>3. ASSUME NEW j \in Instances, NEW f \in DOMAIN log,
             TransferTo(f, j), ~Present(j),
             \A e \in DOMAIN log : ~Token(j, e)
      PROVE  SeatIs({}, {}, {j})
  <2>1. Holders = {}
    BY <1>3 DEF Holders, OwnersSafe, AbsentIsLast
  <2>2. BoundFor = {}
    BY <1>3 DEF BoundFor, OwnersSafe, AbsentIsLast, Token, TransferTo
  <2>3. ASSUME NEW k \in Instances, NEW g \in DOMAIN log,
               TransferTo(g, k), ~Present(k)
        PROVE  k = j
    BY <1>3, <2>3 DEF OwnersSafe, AbsentIsLast, TransferTo
  <2>4. Forgotten = {j}
    BY <1>3, <2>2, <2>3 DEF Forgotten, TransferTo
  <2>5. QED
    BY <2>1, <2>2, <2>4 DEF SeatIs
<1>4. QED
  BY <1>1, <1>2, <1>3 DEF Located

\* In the next state too.
LEMMA SeatLocatedNext == (~Forked /\ OwnersSafe)' => Located'
BY SeatLocated, PTL

\* The parts stay if seats, transfers on their way and channels do.
LEMMA SeatUnmoved ==
  ASSUME TypeOK, TypeOK', Forked' <=> Forked, log # << >> <=> log' # << >>,
         DOMAIN log \subseteq DOMAIN log',
         \A k \in Instances : /\ Seat(k)' <=> Seat(k)
                              /\ Present(k)' <=> Present(k),
         \A k \in Instances, f \in DOMAIN log' :
           /\ Token(k, f)' <=> f \in DOMAIN log /\ Token(k, f)
           /\ TransferTo(f, k)' <=> f \in DOMAIN log /\ TransferTo(f, k)
  PROVE  UNCHANGED Promise!seatVars
<1>1. Holders' = Holders
  BY DEF Holders
<1>2. BoundFor' = BoundFor
  BY DEF BoundFor
<1>3. Forgotten' = Forgotten
  BY <1>2 DEF Forgotten, TransferTo
<1>4. (log # << >>)' = (log # << >>) /\ Forked' = Forked
  BY DEF Forked
<1>5. QED
  BY <1>1, <1>2, <1>3, <1>4 DEF Promise!seatVars

\* Only a snapshot forks the seat.
LEMMA ActForks ==
  ASSUME NEW i \in Instances, Act(i)
  PROVE  Forked' <=> Forked
<1>1. ASSUME NEW targets
      PROVE  "ahead" \notin MissedBy(i, targets)
  BY DEF MissedBy
<1>2. ASSUME NEW u \in Users, NEW others \in SUBSET Users, NEW n \in Ids,
             NEW order \in [1 .. n -> Users], Create(i, u, others, order)
      PROVE  Forked' <=> Forked
  BY <1>2 DEF Create, Forked
<1>3. ASSUME NEW u \in Users, AddMember(i, u)
      PROVE  Forked' <=> Forked
  BY <1>3 DEF AddMember, Forked
<1>4. ASSUME NEW u \in Users, LeaveAsMember(i, u)
      PROVE  Forked' <=> Forked
  BY <1>4 DEF LeaveAsMember, Forked
<1>5. ASSUME NEW u \in Users, LeaveAsOwner(i, u)
      PROVE  Forked' <=> Forked
  BY <1>1, <1>5 DEF LeaveAsOwner, Forked
<1>6. ASSUME NEW u \in Users, Kick(i, u)
      PROVE  Forked' <=> Forked
  BY <1>6 DEF Kick, Forked
<1>7. ASSUME NEW u \in Users, Transfer(i, u)
      PROVE  Forked' <=> Forked
  BY <1>1, <1>7 DEF Transfer, Forked
<1>8. ASSUME NEW stamp \in 1 .. MaxStamp, NEW name \in Names,
             NEW icon \in Icons, Rename(i, stamp, name, icon)
      PROVE  Forked' <=> Forked
  BY <1>1, <1>8 DEF Rename, Forked
<1>9. QED
  BY <1>2, <1>3, <1>4, <1>5, <1>6, <1>7, <1>8 DEF Act

\* While the seat is not forked before and after a local operation, it is
\* founded, stays or is passed on.
LEMMA ActBaton ==
  ASSUME TypeOK, TypeOK', IssuersPresent, ~Forked, ~Forked',
         log = << >> \/ OwnersSafe, OwnersSafe',
         NEW i \in Instances, Issued(i), UNCHANGED fetching,
         \/ Founded(i)
         \/ KeptOwner(i)
         \/ \E v \in Users : HandedOver(i, v)
  PROVE  [Promise!PromiseNext]_(Promise!seatVars)
<1>1. Located'
  BY SeatLocatedNext
<1>2. CASE Founded(i)
  <2>1. DOMAIN log = {} /\ log = << >> /\ log' # << >>
    BY <1>2 DEF Founded, Issued
  <2>2. PICK u \in Users : Home[u] = i /\ owner' = [owner EXCEPT ![i] = u]
    BY <1>2 DEF Founded
  <2>3. Seat(i)'
    BY <2>2, GroupAssumption DEF Seat, Present, TypeOK
  <2>4. SeatIs({i}, {}, {})'
    BY <1>1, <2>3 DEF Located
  <2>5. BoundFor = {} /\ Forgotten = {}
    BY <2>1 DEF BoundFor, Forgotten
  <2>6. Promise!Found(i)
    BY <2>1, <2>4, <2>5 DEF Promise!Found, SeatIs, Forked
  <2>7. QED
    BY <2>6 DEF Promise!PromiseNext
<1>3. CASE KeptOwner(i)
  <2>1. log # << >> /\ log' # << >>
    BY <1>3 DEF IssuersPresent, KeptOwner, Issued
  <2>2. /\ DOMAIN log \subseteq DOMAIN log'
        /\ \A k \in Instances : /\ Present(k)' <=> Present(k)
                                /\ Seat(k)' <=> Seat(k)
        /\ \A k \in Instances, f \in DOMAIN log' :
             /\ Token(k, f)' <=> f \in DOMAIN log /\ Token(k, f)
             /\ TransferTo(f, k)' <=> f \in DOMAIN log /\ TransferTo(f, k)
    BY <1>3, KeptOwnerFacts DEF Issued
  <2>3. UNCHANGED Promise!seatVars
    BY <2>1, <2>2, SeatUnmoved
  <2>4. QED
    BY <2>3
<1>4. ASSUME NEW v \in Users, HandedOver(i, v)
      PROVE  [Promise!PromiseNext]_(Promise!seatVars)
  <2>1. Seat(i) /\ log # << >> /\ log' # << >> /\ OwnersSafe
    BY <1>4 DEF HandedOver, IssuersPresent, Seat, Issued
  <2>2. SeatIs({i}, {}, {})
    BY <2>1, SeatLocated DEF Located
  <2>3. PICK n \in DOMAIN log' \ DOMAIN log :
          /\ log'[n].kind = "transfer"
          /\ log'[n].who = v
          /\ Home[v] # i => <<Home[v], n>> \in outbox'
    BY <1>4 DEF HandedOver
  <2>4. owner'[i] = v /\ v # NoOne /\ Home[v] \in Instances
    BY <1>4, GroupAssumption DEF HandedOver, TypeOK
  <2>5. CASE Home[v] = i
    <3>1. Seat(i)'
      BY <2>4, <2>5 DEF Seat, Present
    <3>2. SeatIs({i}, {}, {})'
      BY <1>1, <3>1 DEF Located
    <3>3. UNCHANGED Promise!seatVars
      BY <2>1, <2>2, <3>2 DEF SeatIs, Promise!seatVars, Forked
    <3>4. QED
      BY <3>3
  <2>6. CASE Home[v] # i
    <3>1. <<Home[v], n>> \notin applied'
      BY <2>3 DEF TypeOK, Issued
    <3>2. Token(Home[v], n)'
      BY <2>3, <2>4, <2>6, <3>1 DEF Token
    <3>3. SeatIs({}, {Home[v]}, {})'
      BY <1>1, <2>3, <2>4, <3>2 DEF Located
    <3>4. Promise!Pass(i, Home[v])
      BY <2>1, <2>2, <2>6, <3>3 DEF SeatIs, Promise!Pass, Forked
    <3>5. QED
      BY <2>4, <3>4 DEF Promise!PromiseNext
  <2>7. QED
    BY <2>5, <2>6
<1>5. QED
  BY <1>2, <1>3, <1>4

\* A handler that takes a transfer: the seat moves, or a third instance learns
\* of it.
LEMMA TookBaton ==
  ASSUME TypeOK, TypeOK', RowsSound, ~Forked, ~Forked', OwnersSafe, OwnersSafe',
         NEW j \in Instances, NEW e \in DOMAIN log, Took(j, e)
  PROVE  [Promise!PromiseNext]_(Promise!seatVars)
<1> DEFINE u == log[e].who
<1>1. Located /\ Located'
  BY SeatLocated, SeatLocatedNext
<1>2. UNCHANGED log /\ DOMAIN log # {} /\ log # << >>
  BY DEF Took
<1>3. /\ owner'[j] = u /\ u # NoOne /\ Present(j)
      /\ \A k \in Instances : k # j => owner'[k] = owner[k]
  BY Homes, GroupAssumption DEF Took, TypeOK
<1>4. ~Seat(j)
  BY DEF Took, FromOwner, RowsSound, Seat
<1>5. CASE Home[u] = j
  <2>1. Token(j, e)
    BY <1>5 DEF Took, Token
  <2>2. Seat(j)'
    BY <1>3, <1>5 DEF Seat, Present
  <2>3. SeatIs({}, {j}, {}) /\ SeatIs({j}, {}, {})'
    BY <1>1, <2>1, <2>2 DEF Located
  <2>4. Promise!Take(j)
    BY <1>2, <2>3 DEF SeatIs, Promise!Take, Forked
  <2>5. QED
    BY <2>4 DEF Promise!PromiseNext
<1>6. CASE Home[u] # j
  <2>1. \A k \in Instances : /\ Seat(k)' <=> Seat(k)
                             /\ Present(k)' <=> Present(k)
    BY <1>3, <1>4, <1>6 DEF Seat, Present
  <2>2. ~Token(j, e)
    BY <1>6 DEF Token
  <2>3. \A k \in Instances, f \in DOMAIN log : Token(k, f)' <=> Token(k, f)
    <3> SUFFICES ASSUME NEW k \in Instances, NEW f \in DOMAIN log
                 PROVE  Token(k, f)' <=> Token(k, f)
      OBVIOUS
    <3>1. CASE k = j /\ f = e
      BY <1>2, <1>6, <3>1 DEF Token
    <3>2. CASE ~(k = j /\ f = e)
      <4>1. <<k, f>> # <<j, e>>
        BY <3>2
      <4>2. <<k, f>> \in outbox' \ applied' <=> <<k, f>> \in outbox \ applied
        BY <4>1 DEF Took
      <4>3. QED
        BY <1>2, <4>2 DEF Token
    <3>3. QED
      BY <3>1, <3>2
  <2>4. \A k \in Instances, f \in DOMAIN log :
          TransferTo(f, k)' <=> TransferTo(f, k)
    BY <1>2 DEF TransferTo
  <2>5. UNCHANGED Promise!seatVars
    BY <1>2, <2>1, <2>3, <2>4, SeatUnmoved
  <2>6. QED
    BY <2>5
<1>7. QED
  BY <1>5, <1>6

\* A handler that leaves the owner: a transfer that is over was forgotten.
LEMMA HeardBaton ==
  ASSUME TypeOK, TypeOK', ~Forked, ~Forked', OwnersSafe, OwnersSafe',
         NEW j \in Instances, NEW e \in DOMAIN log, Handles(j, e),
         PassedOver(j, e) \/ Forgot(j, e)
  PROVE  [Promise!PromiseNext]_(Promise!seatVars)
<1>1. Located /\ Located'
  BY SeatLocated, SeatLocatedNext
<1>2. UNCHANGED <<log, owner>> /\ log # << >>
  BY DEF Handles, PassedOver, Forgot
<1>3. /\ \A k \in Instances : /\ Seat(k)' <=> Seat(k)
                              /\ Present(k)' <=> Present(k)
      /\ \A k \in Instances, f \in DOMAIN log :
           TransferTo(f, k)' <=> TransferTo(f, k)
  BY <1>2 DEF Seat, Present, TransferTo
<1>4. \A k \in Instances, f \in DOMAIN log : Token(k, f)' => Token(k, f)
  BY PendingHandled
<1>5. CASE \A k \in Instances, f \in DOMAIN log : Token(k, f) => Token(k, f)'
  <2>1. UNCHANGED Promise!seatVars
    BY <1>2, <1>3, <1>4, <1>5, SeatUnmoved
  <2>2. QED
    BY <2>1
<1>6. ASSUME NEW k \in Instances, NEW f \in DOMAIN log,
             Token(k, f), ~Token(k, f)'
      PROVE  [Promise!PromiseNext]_(Promise!seatVars)
  <2>1. f \in Pending(k) /\ f \notin Pending(k)'
    BY <1>2, <1>6 DEF Token, Pending, Transfers
  <2>2. k = j /\ f = e
    BY <2>1, PendingHandled
  <2>3. ~Present(j)
    BY <2>1, <2>2 DEF PassedOver, Forgot
  <2>4. \A g \in DOMAIN log : ~Token(j, g)'
    BY <1>4, <1>6, <2>2 DEF OwnersSafe, OneHolder
  <2>5. TransferTo(f, j)' /\ ~Present(j)'
    BY <1>2, <1>3, <1>6, <2>2, <2>3 DEF Token, TransferTo
  <2>6. SeatIs({}, {j}, {}) /\ SeatIs({}, {}, {j})'
    BY <1>1, <1>2, <1>6, <2>2, <2>4, <2>5 DEF Located
  <2>7. Promise!Forget(j)
    BY <1>2, <2>6 DEF SeatIs, Promise!Forget, Forked
  <2>8. QED
    BY <2>7 DEF Promise!PromiseNext
<1>7. QED
  BY <1>5, <1>6

\* A handler that creates the channel: whoever forgot the seat finds it, or the
\* seat is gone.
LEMMA BootedBaton ==
  ASSUME TypeOK, TypeOK', RowsSound, ~Forked, ~Forked', OwnersSafe, OwnersSafe',
         NEW j \in Instances, NEW e \in DOMAIN log, Booted(j, e)
  PROVE  [Promise!PromiseNext]_(Promise!seatVars)
<1> DEFINE o == log[e].owner
<1>1. Located /\ Located'
  BY SeatLocated, SeatLocatedNext
<1>2. UNCHANGED log /\ log # << >> /\ ~Present(j) /\ ~Ahead(j, e)
  BY DEF Booted, Forked
<1>3. /\ owner'[j] = o /\ o # NoOne
      /\ \A k \in Instances : k # j => owner'[k] = owner[k]
  BY Homes, GroupAssumption DEF Booted, TypeOK
<1>4. \A k \in Instances, f \in DOMAIN log : Token(k, f)' <=> Token(k, f)
  <2> SUFFICES ASSUME NEW k \in Instances, NEW f \in DOMAIN log
               PROVE  Token(k, f)' <=> Token(k, f)
    OBVIOUS
  <2>1. CASE f = e
    BY <1>2, <2>1 DEF Token, Booted
  <2>2. CASE f # e
    <3>1. <<k, f>> # <<j, e>>
      BY <2>2
    <3>2. <<k, f>> \in outbox' \ applied' <=> <<k, f>> \in outbox \ applied
      BY <3>1 DEF Booted
    <3>3. QED
      BY <1>2, <3>2 DEF Token
  <2>3. QED
    BY <2>1, <2>2
<1>5. CASE Home[o] = j
  <2>1. ~Present(Home[log[e].owner]) /\ log[e].kind = "add"
    BY <1>2, <1>5 DEF Booted
  <2>2. PICK f \in DOMAIN log : f < e /\ TransferTo(f, j)
    BY <1>5, <2>1 DEF OwnersSafe, SnapshotsTold
  <2>3. \A g \in DOMAIN log : ~Token(j, g)
    <3> SUFFICES ASSUME NEW g \in DOMAIN log, Token(j, g)
                 PROVE  FALSE
      OBVIOUS
    <3>1. g = f
      BY <1>2, <2>2 DEF OwnersSafe, AbsentIsLast
    <3>2. QED
      BY <1>2, <2>2, <3>1 DEF Token, TransferTo, Ahead
  <2>4. SeatIs({}, {}, {j})
    BY <1>1, <1>2, <2>2, <2>3 DEF Located
  <2>5. Seat(j)'
    BY <1>3, <1>5 DEF Seat, Present
  <2>6. SeatIs({j}, {}, {})'
    BY <1>1, <2>5 DEF Located
  <2>7. Promise!Refind(j)
    BY <1>2, <2>4, <2>6 DEF SeatIs, Promise!Refind, Forked
  <2>8. QED
    BY <2>7 DEF Promise!PromiseNext
<1>6. CASE Home[o] # j
  <2>1. \A k \in Instances : Seat(k)' <=> Seat(k)
    BY <1>2, <1>3, <1>6 DEF Seat, Present
  <2>2. Present(j)' /\ \A k \in Instances : k # j => (Present(k)' <=> Present(k))
    BY <1>3 DEF Present
  <2>3. Holders' = Holders
    BY <2>1 DEF Holders
  <2>4. BoundFor' = BoundFor
    BY <1>2, <1>4 DEF BoundFor
  <2>5. Forgotten' = Forgotten \ {j}
    BY <1>2, <2>2, <2>4 DEF Forgotten
  <2>6. (log # << >>)' = (log # << >>) /\ Forked' = Forked
    BY <1>2 DEF Forked
  <2>7. CASE j \notin Forgotten
    <3>1. UNCHANGED Promise!seatVars
      BY <2>3, <2>4, <2>5, <2>6, <2>7 DEF Promise!seatVars
    <3>2. QED
      BY <3>1
  <2>8. CASE j \in Forgotten
    <3>1. PICK f \in DOMAIN log : TransferTo(f, j)
      BY <2>8 DEF Forgotten, TransferTo
    <3>2. \A g \in DOMAIN log : ~Token(j, g)
      BY <2>8 DEF Forgotten, BoundFor
    <3>3. SeatIs({}, {}, {j})
      BY <1>1, <1>2, <3>1, <3>2 DEF Located
    <3>4. Promise!Strand(j)
      BY <2>3, <2>4, <2>5, <2>6, <3>3 DEF SeatIs, Promise!Strand
    <3>5. QED
      BY <3>4 DEF Promise!PromiseNext
  <2>9. QED
    BY <2>7, <2>8
<1>7. QED
  BY <1>5, <1>6

\* Until the group is founded no snapshot can be ahead.
ForkFounded == Forked => log # << >>

LEMMA ForkFoundedHolds == Spec => []ForkFounded
<1>1. Init => ForkFounded
  BY DEF Init, ForkFounded, Forked
<1>2. Inv /\ ForkFounded /\ [Next]_vars => ForkFounded'
  <2> SUFFICES ASSUME Inv, ForkFounded, [Next]_vars
               PROVE  ForkFounded'
    OBVIOUS
  <2>1. TypeOK
    BY DEF Inv
  <2>2. CASE UNCHANGED vars
    BY <2>2 DEF vars, ForkFounded, Forked
  <2>3. ASSUME NEW i \in Instances, Act(i)
        PROVE  ForkFounded'
    BY <2>1, <2>3, ActStep DEF Issued, ForkFounded
  <2>4. ASSUME NEW j \in Instances, NEW e \in DOMAIN log,
               Receive(j, e) \/ Finish(j, e)
        PROVE  ForkFounded'
    BY <2>1, <2>4, HandlerRows DEF Handles, ForkFounded
  <2>5. QED
    BY <2>2, <2>3, <2>4 DEF Next
<1>3. QED
  BY <1>1, <1>2, InvHolds, PTL DEF Spec

\* Every step of the group is a step of the baton or leaves it where it is.
LEMMA BatonStep ==
  Inv /\ Inv' /\ ForkFounded /\ ForkFounded' /\ [Next]_vars =>
    [Promise!PromiseNext]_(Promise!seatVars)
<1> SUFFICES ASSUME Inv, Inv', ForkFounded, ForkFounded', [Next]_vars
             PROVE  [Promise!PromiseNext]_(Promise!seatVars)
  OBVIOUS
<1>1. /\ TypeOK /\ RowsSound /\ IssuersPresent /\ TypeOK'
      /\ ~Forked => OwnersSafe
      /\ ~Forked' => OwnersSafe'
  BY DEF Inv, Forked
<1>2. CASE UNCHANGED vars
  <2>1. UNCHANGED Promise!seatVars
    BY <1>2 DEF vars, Promise!seatVars, Forked, Holders, BoundFor, Forgotten,
                Seat, Present, Token
  <2>2. QED
    BY <2>1
<1>3. ASSUME Forked, Forked'
      PROVE  UNCHANGED Promise!seatVars
  <2>1. Holders = {} /\ BoundFor = {} /\ Forgotten = {}
    BY <1>3 DEF Holders, BoundFor, Forgotten
  <2>2. Holders' = {} /\ BoundFor' = {} /\ Forgotten' = {}
    BY <1>3 DEF Holders, BoundFor, Forgotten
  <2>3. (log # << >>)' = (log # << >>) /\ Forked' = Forked
    BY <1>3 DEF Forked, ForkFounded
  <2>4. QED
    BY <2>1, <2>2, <2>3 DEF Promise!seatVars
<1>4. ASSUME NEW i \in Instances, Act(i)
      PROVE  [Promise!PromiseNext]_(Promise!seatVars)
  <2>1. /\ Issued(i)
        /\ \/ Founded(i)
           \/ KeptOwner(i)
           \/ \E v \in Users : HandedOver(i, v)
    BY <1>1, <1>4, ActStep
  <2>2. Forked' <=> Forked
    BY <1>4, ActForks
  <2>3. UNCHANGED fetching
    BY <1>4, ActFetching
  <2>4. CASE Forked
    BY <1>3, <2>2, <2>4
  <2>5. CASE ~Forked
    BY <1>1, <2>1, <2>2, <2>3, <2>5, ActBaton
  <2>6. QED
    BY <2>4, <2>5
<1>5. ASSUME NEW j \in Instances, NEW e \in DOMAIN log,
             Receive(j, e) \/ Finish(j, e)
      PROVE  [Promise!PromiseNext]_(Promise!seatVars)
  <2>1. Handles(j, e)
    BY <1>1, <1>5, HandlerRows
  <2>2. Forked => Forked'
    BY <2>1 DEF Handles, Forked
  <2>3. CASE Forked
    BY <1>3, <2>2, <2>3
  <2>4. CASE ~Forked /\ Forked'
    <3>1. log # << >> /\ log' # << >>
      BY <2>1 DEF Handles
    <3>2. Holders' = {} /\ BoundFor' = {} /\ Forgotten' = {}
      BY <2>4 DEF Holders, BoundFor, Forgotten
    <3>3. Promise!Fork
      BY <2>4, <3>1, <3>2 DEF Promise!Fork
    <3>4. QED
      BY <3>3 DEF Promise!PromiseNext
  <2>5. CASE ~Forked /\ ~Forked'
    <3>1. \/ PassedOver(j, e)
          \/ Forgot(j, e)
          \/ Took(j, e)
          \/ Booted(j, e)
      BY <1>1, <1>5, HandlerOwners DEF TookInTurn
    <3>2. CASE PassedOver(j, e) \/ Forgot(j, e)
      BY <1>1, <2>1, <2>5, <3>2, HeardBaton
    <3>3. CASE Took(j, e)
      BY <1>1, <2>5, <3>3, TookBaton
    <3>4. CASE Booted(j, e)
      BY <1>1, <2>5, <3>4, BootedBaton
    <3>5. QED
      BY <3>1, <3>2, <3>3, <3>4
  <2>6. QED
    BY <2>2, <2>3, <2>4, <2>5
<1>6. QED
  BY <1>2, <1>4, <1>5 DEF Next

\* GroupDm implements SeatPromise: until a snapshot is ahead of a transfer the
\* seat is founded, passed, taken, forgotten, found again or gone, and nothing
\* else happens to it.
THEOREM BatonRefinement == Spec => SeatIsBaton
<1>1. Init => Promise!PromiseInit
  <2> SUFFICES ASSUME Init PROVE Promise!PromiseInit
    OBVIOUS
  <2>1. log = << >> /\ DOMAIN log = {} /\ ~Forked
    BY DEF Init, Forked
  <2>2. \A i \in Instances : ~Seat(i)
    BY DEF Init, Seat, Present
  <2>3. Holders = {} /\ BoundFor = {} /\ Forgotten = {}
    BY <2>1, <2>2 DEF Holders, BoundFor, Forgotten
  <2>4. QED
    BY <2>1, <2>3 DEF Promise!PromiseInit
<1>2. QED
  BY <1>1, BatonStep, InvHolds, ForkFoundedHolds, PTL
  DEF Spec, SeatIsBaton, Promise!PromiseSpec
=============================================================================
