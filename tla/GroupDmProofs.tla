--------------------------- MODULE GroupDmProofs ---------------------------
(***************************************************************************)
(* Machine-checked safety of GroupDm for every set of instances and users, *)
(* every placement of the users and every bound: types; at most one seat;  *)
(* no seat lost; a seat given up only by its holder; members reached.      *)
(***************************************************************************)
EXTENDS GroupDm, SequenceTheorems, TLAPS

-----------------------------------------------------------------------------
(* Helpers of the model.                                                   *)

\* Targets leave out the issuer and reach whoever is homed elsewhere.
LEMMA TargetsReach ==
  ASSUME NEW i \in Instances, NEW roster \in SUBSET Users
  PROVE  /\ Targets(i, roster) \subseteq Instances \ {i}
         /\ Remote(i, roster) \subseteq Instances \ {i}
         /\ \A v \in roster : Home[v] # i => Home[v] \in Targets(i, roster)
<1>1. \A v \in roster : Home[v] \in Instances
  BY GroupAssumption
<1>2. Remote(i, roster) \subseteq Instances \ {i}
  BY <1>1 DEF Remote
<1>3. \A v \in roster : Home[v] # i => Home[v] \in Remote(i, roster)
  BY DEF Remote
<1>4. QED
  BY <1>1, <1>2, <1>3 DEF Targets

LEMMA ToldType ==
  ASSUME NEW i \in Instances, NEW u \in Users, NEW m \in Meta,
         NEW kind \in {"leave", "kick", "transfer", "rename"}
  PROVE  /\ Told(kind, i, u, m) \in Event
         /\ Told(kind, i, u, m).kind = kind
         /\ Told(kind, i, u, m).src = i
         /\ Told(kind, i, u, m).who = u
BY DEF Told, Event

LEMMA AddedType ==
  ASSUME NEW i \in Instances, NEW u \in Users, NEW o \in Users,
         NEW roster \in SUBSET Users, NEW m \in Meta
  PROVE  /\ Added(i, u, o, roster, m) \in Event
         /\ Added(i, u, o, roster, m).kind = "add"
         /\ Added(i, u, o, roster, m).src = i
         /\ Added(i, u, o, roster, m).owner = o
BY DEF Added, Event

LEMMA LogFacts ==
  ASSUME TypeOK
  PROVE  /\ Len(log) \in Nat
         /\ DOMAIN log = 1 .. Len(log)
         /\ \A e \in DOMAIN log : log[e] \in Event
         /\ Len(log) + 1 \notin DOMAIN log
<1>1. log \in Seq(Event)
  BY DEF TypeOK
<1>2. Len(log) \in Nat /\ DOMAIN log = 1 .. Len(log)
  BY <1>1, LenProperties
<1>3. \A e \in DOMAIN log : log[e] \in Event
  BY <1>1, <1>2, ElementOfSeq
<1>4. QED
  BY <1>2, <1>3

\* Instance i issues events: they are new, its own, and sent to others.
Issued(i) ==
  /\ DOMAIN log \subseteq DOMAIN log'
  /\ \A f \in DOMAIN log : log'[f] = log[f]
  /\ \A f \in DOMAIN log' \ DOMAIN log : log'[f].src = i
  /\ \A f \in DOMAIN log, g \in DOMAIN log' \ DOMAIN log : f < g
  /\ log' # << >>
  /\ outbox \subseteq outbox'
  /\ \A r \in outbox' \ outbox : r[1] # i /\ r[2] \notin DOMAIN log
  /\ applied' = applied
  /\ flaws \subseteq flaws'

LEMMA IssueOne ==
  ASSUME TypeOK, NEW i \in Instances, NEW ev \in Event, ev.src = i,
         NEW targets \in SUBSET (Instances \ {i}),
         Len(log) < MaxEvents,
         log' = Append(log, ev),
         outbox' = outbox \cup RowsTo(targets, Len(log) + 1),
         UNCHANGED applied, flaws \subseteq flaws'
  PROVE  /\ Issued(i)
         /\ log' \in Seq(Event)
         /\ Len(log') <= MaxEvents
         /\ DOMAIN log' = DOMAIN log \cup {Len(log) + 1}
         /\ log'[Len(log) + 1] = ev
         /\ outbox' \subseteq Instances \X DOMAIN log'
         /\ \A j \in targets : <<j, Len(log) + 1>> \in outbox'
<1>1. log \in Seq(Event) /\ outbox \subseteq Instances \X DOMAIN log
  BY DEF TypeOK
<1>2. /\ Len(log) \in Nat
      /\ DOMAIN log = 1 .. Len(log)
  BY LogFacts
<1>3. log' \in Seq(Event) /\ Len(log') = Len(log) + 1
  BY <1>1, AppendProperties
<1>4. DOMAIN log' = 1 .. Len(log) + 1
  BY <1>3, LenProperties
<1>5. DOMAIN log' = DOMAIN log \cup {Len(log) + 1}
  BY <1>2, <1>4
<1>6. /\ \A f \in DOMAIN log : log'[f] = log[f]
      /\ log'[Len(log) + 1] = ev
  BY <1>1, <1>2, AppendProperties
<1>7. /\ outbox' \subseteq Instances \X DOMAIN log'
      /\ \A j \in targets : <<j, Len(log) + 1>> \in outbox'
      /\ outbox \subseteq outbox'
      /\ \A r \in outbox' \ outbox : r[1] # i /\ r[2] = Len(log) + 1
  BY <1>1, <1>5 DEF RowsTo
<1>8. \A f \in DOMAIN log, g \in DOMAIN log' \ DOMAIN log : f < g
  BY <1>2, <1>5
<1>9. Len(log) + 1 \notin DOMAIN log
  BY <1>2
<1>10. log' # << >>
  BY <1>2, <1>3, EmptySeq
<1>11. Len(log') <= MaxEvents
  BY <1>2, <1>3, GroupAssumption
<1>12. QED
  BY <1>3, <1>5, <1>6, <1>7, <1>8, <1>9, <1>10, <1>11 DEF Issued

LEMMA IssueTwo ==
  ASSUME TypeOK, NEW i \in Instances, NEW ev \in Event, ev.src = i,
         NEW ew \in Event, ew.src = i,
         NEW targets \in SUBSET (Instances \ {i}),
         NEW rest \in SUBSET (Instances \ {i}),
         Len(log) + 1 < MaxEvents,
         log' = log \o <<ev, ew>>,
         outbox' = outbox \cup RowsTo(targets, Len(log) + 1)
                          \cup RowsTo(rest, Len(log) + 2),
         UNCHANGED applied, flaws \subseteq flaws'
  PROVE  /\ Issued(i)
         /\ log' \in Seq(Event)
         /\ Len(log') <= MaxEvents
         /\ DOMAIN log' = DOMAIN log \cup {Len(log) + 1, Len(log) + 2}
         /\ log'[Len(log) + 1] = ev
         /\ log'[Len(log) + 2] = ew
         /\ outbox' \subseteq Instances \X DOMAIN log'
         /\ \A j \in rest : <<j, Len(log) + 2>> \in outbox'
<1>1. log \in Seq(Event) /\ outbox \subseteq Instances \X DOMAIN log
  BY DEF TypeOK
<1>2. /\ Len(log) \in Nat
      /\ DOMAIN log = 1 .. Len(log)
  BY LogFacts
<1> DEFINE pair == <<ev, ew>>
<1>3. pair \in Seq(Event) /\ Len(pair) = 2 /\ pair[1] = ev /\ pair[2] = ew
  OBVIOUS
<1>4. log' = log \o pair
  OBVIOUS
<1> HIDE DEF pair
<1>5. /\ log' \in Seq(Event)
      /\ Len(log') = Len(log) + 2
      /\ \A n \in 1 .. Len(log) + 2 :
           log'[n] = IF n <= Len(log) THEN log[n] ELSE pair[n - Len(log)]
  BY <1>1, <1>3, <1>4, ConcatProperties
<1>6. DOMAIN log' = 1 .. Len(log) + 2
  BY <1>5, LenProperties
<1>7. DOMAIN log' = DOMAIN log \cup {Len(log) + 1, Len(log) + 2}
  BY <1>2, <1>6
<1>8. /\ \A f \in DOMAIN log : log'[f] = log[f]
      /\ log'[Len(log) + 1] = ev
      /\ log'[Len(log) + 2] = ew
  <2>1. \A f \in DOMAIN log : log'[f] = log[f]
    BY <1>2, <1>5
  <2>2. log'[Len(log) + 1] = pair[1]
    BY <1>2, <1>5
  <2>3. log'[Len(log) + 2] = pair[2]
    BY <1>2, <1>5
  <2>4. QED
    BY <1>3, <2>1, <2>2, <2>3
<1>9. /\ outbox' \subseteq Instances \X DOMAIN log'
      /\ \A j \in rest : <<j, Len(log) + 2>> \in outbox'
      /\ outbox \subseteq outbox'
      /\ \A r \in outbox' \ outbox :
           r[1] # i /\ r[2] \in {Len(log) + 1, Len(log) + 2}
  BY <1>1, <1>7 DEF RowsTo
<1>10. \A f \in DOMAIN log, g \in DOMAIN log' \ DOMAIN log : f < g
  BY <1>2, <1>7
<1>11. Len(log) + 1 \notin DOMAIN log /\ Len(log) + 2 \notin DOMAIN log
  BY <1>2
<1>12. log' # << >>
  BY <1>2, <1>5, EmptySeq
<1>13. Len(log') <= MaxEvents
  BY <1>2, <1>5, GroupAssumption
<1>14. \A f \in DOMAIN log' \ DOMAIN log : log'[f].src = i
  BY <1>7, <1>8
<1>15. QED
  BY <1>5, <1>7, <1>8, <1>9, <1>10, <1>11, <1>12, <1>13, <1>14 DEF Issued

-----------------------------------------------------------------------------
(* Types, and what a step does to the owners.                              *)

\* A user of instance i creates the group.
Founded(i) ==
  /\ log = << >>
  /\ \E u \in Users : Home[u] = i /\ owner' = [owner EXCEPT ![i] = u]
  /\ \A f \in DOMAIN log' :
       /\ log'[f].kind = "add"
       /\ log'[f].owner = owner'[i]

\* Instance i issues events that leave the owner as it is.
KeptOwner(i) ==
  /\ Present(i)
  /\ UNCHANGED owner
  /\ \A f \in DOMAIN log' \ DOMAIN log :
       /\ log'[f].kind # "transfer"
       /\ log'[f].kind = "add" => log'[f].owner = owner[i]

\* The holder of the seat makes v the owner and tells v's instance.
HandedOver(i, v) ==
  /\ Seat(i)
  /\ owner' = [owner EXCEPT ![i] = v]
  /\ \E n \in DOMAIN log' \ DOMAIN log :
       /\ log'[n].kind = "transfer"
       /\ log'[n].who = v
       /\ Home[v] # i => <<Home[v], n>> \in outbox'
       /\ \A f \in DOMAIN log' \ DOMAIN log :
            /\ log'[f].kind # "add"
            /\ log'[f].kind = "transfer" => f = n

LEMMA CreateStep ==
  ASSUME TypeOK, NEW i \in Instances, NEW u \in Users,
         NEW others \in SUBSET Users, NEW n \in Ids,
         NEW order \in [1 .. n -> Users],
         Create(i, u, others, order)
  PROVE  TypeOK' /\ Issued(i) /\ Founded(i)
<1> DEFINE roster == others \cup {u}
<1>1. /\ Len(order) = n
      /\ DOMAIN order = 1 .. n
      /\ order \in Seq(Users)
      /\ n \in Nat \ {0}
  BY GroupAssumption DEF Ids
<1>2. n <= MaxEvents
  BY <1>1 DEF Create
<1>3. meta[i] \in Meta
  BY DEF TypeOK
<1>4. /\ log' = [m \in 1 .. n |-> Added(i, order[m], u, roster, meta[i])]
      /\ outbox' = Remote(i, roster) \X DOMAIN order
  BY <1>1 DEF Create
<1> HIDE DEF roster
<1>5. roster \in SUBSET Users
  BY DEF roster
<1>6. \A m \in 1 .. n : order[m] \in Users
  OBVIOUS
<1>7. \A m \in 1 .. n : /\ log'[m] \in Event
                        /\ log'[m].kind = "add"
                        /\ log'[m].src = i
                        /\ log'[m].owner = u
  <2> SUFFICES ASSUME NEW m \in 1 .. n
               PROVE  /\ log'[m] \in Event
                      /\ log'[m].kind = "add"
                      /\ log'[m].src = i
                      /\ log'[m].owner = u
    OBVIOUS
  <2>1. log'[m] = Added(i, order[m], u, roster, meta[i])
    BY <1>4
  <2>2. QED
    BY <1>3, <1>5, <1>6, <2>1, AddedType
<1>8. log' \in [1 .. n -> Event]
  BY <1>4, <1>7
<1>9. log' \in Seq(Event) /\ Len(log') = n /\ DOMAIN log' = 1 .. n
  BY <1>1, <1>8
<1>10. outbox' \subseteq (Instances \ {i}) \X DOMAIN log'
  <2>1. Remote(i, roster) \subseteq Instances \ {i}
    BY <1>5, TargetsReach
  <2>2. DOMAIN order = DOMAIN log'
    BY <1>1, <1>9
  <2>3. QED
    BY <1>4, <2>1, <2>2
<1>11. outbox' \subseteq Instances \X DOMAIN log' /\ \A r \in outbox' : r[1] # i
  BY <1>10
<1>12. log = << >> /\ DOMAIN log = {}
  BY DEF Create
<1>13. outbox = {} /\ applied = {} /\ fetching = {}
  BY <1>12 DEF TypeOK
<1>14. owner' = [owner EXCEPT ![i] = u] /\ Home[u] = i
  BY DEF Create
<1>15. owner'[i] = u /\ owner' \in [Instances -> Users \cup {NoOne}]
  BY <1>14 DEF TypeOK
<1>16. members' \in [Instances -> SUBSET Users]
  BY DEF TypeOK, Create
<1>17. UNCHANGED <<meta, applied, fetching, unheard, flaws>>
  BY DEF Create
<1>18. TypeOK'
  BY <1>2, <1>9, <1>11, <1>13, <1>15, <1>16, <1>17 DEF TypeOK
<1>19. Founded(i)
  BY <1>7, <1>9, <1>12, <1>14, <1>15 DEF Founded
<1>20. log' # << >>
  BY <1>1, <1>9, EmptySeq
<1>21. Issued(i)
  BY <1>7, <1>9, <1>11, <1>12, <1>13, <1>17, <1>20 DEF Issued
<1>22. QED
  BY <1>18, <1>19, <1>21

LEMMA AddMemberStep ==
  ASSUME TypeOK, NEW i \in Instances, NEW u \in Users, AddMember(i, u)
  PROVE  TypeOK' /\ Issued(i) /\ KeptOwner(i)
<1> DEFINE roster == members[i] \cup {u}
           ev == Added(i, u, owner[i], roster, meta[i])
<1>1. /\ roster \in SUBSET Users
      /\ owner[i] \in Users
      /\ meta[i] \in Meta
      /\ Present(i)
  BY DEF TypeOK, AddMember, Present
<1>2. /\ Len(log) < MaxEvents
      /\ log' = Append(log, ev)
      /\ outbox' = outbox \cup RowsTo(Targets(i, roster), Len(log) + 1)
      /\ UNCHANGED <<owner, meta, applied, fetching, unheard, flaws>>
      /\ members' = [members EXCEPT ![i] = roster]
  BY DEF AddMember
<1> HIDE DEF roster
<1>3. /\ ev \in Event
      /\ ev.kind = "add"
      /\ ev.src = i
      /\ ev.owner = owner[i]
  BY <1>1, AddedType
<1> HIDE DEF ev
<1>4. Targets(i, roster) \in SUBSET (Instances \ {i})
  BY <1>1, TargetsReach
<1>5. /\ Issued(i)
      /\ log' \in Seq(Event)
      /\ Len(log') <= MaxEvents
      /\ DOMAIN log' = DOMAIN log \cup {Len(log) + 1}
      /\ log'[Len(log) + 1] = ev
      /\ outbox' \subseteq Instances \X DOMAIN log'
  BY <1>2, <1>3, <1>4, IssueOne
<1>6. members' \in [Instances -> SUBSET Users]
  BY <1>1, <1>2 DEF TypeOK
<1>7. TypeOK'
  BY <1>2, <1>5, <1>6 DEF TypeOK
<1>8. QED
  BY <1>1, <1>2, <1>3, <1>5, <1>7 DEF KeptOwner

\* Instance i tells the instances in "targets" about user u.
Tells(kind, i, u, m, targets) ==
  /\ Len(log) < MaxEvents
  /\ log' = Append(log, Told(kind, i, u, m))
  /\ outbox' = outbox \cup RowsTo(targets, Len(log) + 1)
  /\ UNCHANGED <<applied, fetching, unheard>>
  /\ flaws \subseteq flaws' /\ flaws' \subseteq flaws \cup {"missed"}
  /\ owner' \in [Instances -> Users \cup {NoOne}]
  /\ members' \in [Instances -> SUBSET Users]
  /\ meta' \in [Instances -> Meta]

\* What that leaves in the log and in the outbox.
HasTold(kind, u, targets) ==
  /\ Len(log) + 1 \in DOMAIN log' \ DOMAIN log
  /\ \A f \in DOMAIN log' \ DOMAIN log :
       /\ f = Len(log) + 1
       /\ log'[f].kind = kind
       /\ log'[f].who = u
  /\ \A j \in targets : <<j, Len(log) + 1>> \in outbox'

LEMMA ToldStep ==
  ASSUME TypeOK, NEW i \in Instances, NEW u \in Users, NEW m \in Meta,
         NEW kind \in {"leave", "kick", "transfer", "rename"},
         NEW targets \in SUBSET (Instances \ {i}),
         Tells(kind, i, u, m, targets)
  PROVE  TypeOK' /\ Issued(i) /\ HasTold(kind, u, targets)
<1> DEFINE ev == Told(kind, i, u, m)
<1>1. ev \in Event /\ ev.kind = kind /\ ev.src = i /\ ev.who = u
  BY ToldType
<1>2. /\ log' = Append(log, ev)
      /\ Len(log) < MaxEvents
      /\ outbox' = outbox \cup RowsTo(targets, Len(log) + 1)
      /\ UNCHANGED <<applied, fetching, unheard>>
      /\ flaws \subseteq flaws' /\ flaws' \subseteq flaws \cup {"missed"}
      /\ owner' \in [Instances -> Users \cup {NoOne}]
      /\ members' \in [Instances -> SUBSET Users]
      /\ meta' \in [Instances -> Meta]
  BY DEF Tells
<1> HIDE DEF ev
<1>3. /\ Issued(i)
      /\ log' \in Seq(Event)
      /\ Len(log') <= MaxEvents
      /\ DOMAIN log' = DOMAIN log \cup {Len(log) + 1}
      /\ log'[Len(log) + 1] = ev
      /\ outbox' \subseteq Instances \X DOMAIN log'
      /\ \A j \in targets : <<j, Len(log) + 1>> \in outbox'
  BY <1>1, <1>2, IssueOne
<1>4. flaws' \subseteq Flaws
  BY <1>2 DEF TypeOK, Flaws
<1>5. TypeOK'
  BY <1>2, <1>3, <1>4 DEF TypeOK
<1>6. Len(log) + 1 \notin DOMAIN log
  BY LogFacts
<1>7. HasTold(kind, u, targets)
  BY <1>1, <1>3, <1>6 DEF HasTold
<1>8. QED
  BY <1>3, <1>5, <1>7

LEMMA LeaveAsMemberStep ==
  ASSUME TypeOK, NEW i \in Instances, NEW u \in Users, LeaveAsMember(i, u)
  PROVE  TypeOK' /\ Issued(i) /\ KeptOwner(i)
<1> DEFINE m == meta[i]
           targets == Targets(i, members[i])
<1>1. members[i] \in SUBSET Users /\ m \in Meta /\ Present(i)
  BY DEF TypeOK, LeaveAsMember
<1>2. targets \in SUBSET (Instances \ {i})
  BY <1>1, TargetsReach
<1>3. /\ Len(log) < MaxEvents
      /\ log' = Append(log, Told("leave", i, u, m))
      /\ outbox' = outbox \cup RowsTo(targets, Len(log) + 1)
      /\ UNCHANGED <<owner, meta, applied, fetching, unheard, flaws>>
  BY DEF LeaveAsMember
<1>4. /\ owner' \in [Instances -> Users \cup {NoOne}]
      /\ members' \in [Instances -> SUBSET Users]
      /\ meta' \in [Instances -> Meta]
  BY <1>1, <1>3 DEF TypeOK, LeaveAsMember
<1> HIDE DEF m, targets
<1>5. flaws \subseteq flaws' /\ flaws' \subseteq flaws \cup {"missed"}
  BY <1>3
<1>6. Tells("leave", i, u, m, targets)
  BY <1>3, <1>4, <1>5 DEF Tells
<1>7. TypeOK' /\ Issued(i) /\ HasTold("leave", u, targets)
  BY <1>1, <1>2, <1>6, ToldStep
<1>8. \A f \in DOMAIN log' \ DOMAIN log : log'[f].kind = "leave"
  BY <1>7 DEF HasTold
<1>9. QED
  BY <1>1, <1>3, <1>7, <1>8 DEF KeptOwner, LeaveAsMember

LEMMA KickStep ==
  ASSUME TypeOK, NEW i \in Instances, NEW u \in Users, Kick(i, u)
  PROVE  TypeOK' /\ Issued(i) /\ KeptOwner(i)
<1> DEFINE m == meta[i]
           targets == Targets(i, members[i])
<1>1. members[i] \in SUBSET Users /\ m \in Meta /\ Present(i)
  BY DEF TypeOK, Kick, Seat
<1>2. targets \in SUBSET (Instances \ {i})
  BY <1>1, TargetsReach
<1>3. /\ Len(log) < MaxEvents
      /\ log' = Append(log, Told("kick", i, u, m))
      /\ outbox' = outbox \cup RowsTo(targets, Len(log) + 1)
      /\ UNCHANGED <<owner, meta, applied, fetching, unheard, flaws>>
  BY DEF Kick
<1>4. /\ owner' \in [Instances -> Users \cup {NoOne}]
      /\ members' \in [Instances -> SUBSET Users]
      /\ meta' \in [Instances -> Meta]
  BY <1>1, <1>3 DEF TypeOK, Kick
<1> HIDE DEF m, targets
<1>5. flaws \subseteq flaws' /\ flaws' \subseteq flaws \cup {"missed"}
  BY <1>3
<1>6. Tells("kick", i, u, m, targets)
  BY <1>3, <1>4, <1>5 DEF Tells
<1>7. TypeOK' /\ Issued(i) /\ HasTold("kick", u, targets)
  BY <1>1, <1>2, <1>6, ToldStep
<1>8. \A f \in DOMAIN log' \ DOMAIN log : log'[f].kind = "kick"
  BY <1>7 DEF HasTold
<1>9. QED
  BY <1>1, <1>3, <1>7, <1>8 DEF KeptOwner, Kick

LEMMA RenameStep ==
  ASSUME TypeOK, NEW i \in Instances, NEW stamp \in 1 .. MaxStamp,
         NEW name \in Names, NEW icon \in Icons,
         Rename(i, stamp, name, icon)
  PROVE  TypeOK' /\ Issued(i) /\ KeptOwner(i)
<1> DEFINE given == [by |-> i, stamp |-> stamp, name |-> name, icon |-> icon]
           targets == Remote(i, members[i])
<1>1. members[i] \in SUBSET Users /\ owner[i] \in Users /\ Present(i)
  BY DEF TypeOK, Rename, Seat, Present
<1>2. targets \in SUBSET (Instances \ {i})
  BY <1>1, TargetsReach
<1>3. given \in Meta
  BY GroupAssumption DEF Meta
<1>4. /\ Len(log) < MaxEvents
      /\ log' = Append(log, Told("rename", i, owner[i], given))
      /\ outbox' = outbox \cup RowsTo(targets, Len(log) + 1)
      /\ UNCHANGED <<owner, members, applied, fetching, unheard>>
      /\ meta' = [meta EXCEPT ![i] = given]
      /\ flaws' = flaws \cup MissedBy(i, targets)
  BY DEF Rename
<1> HIDE DEF given, targets
<1>5. flaws \subseteq flaws' /\ flaws' \subseteq flaws \cup {"missed"}
  BY <1>4 DEF MissedBy
<1>6. /\ owner' \in [Instances -> Users \cup {NoOne}]
      /\ members' \in [Instances -> SUBSET Users]
      /\ meta' \in [Instances -> Meta]
  BY <1>3, <1>4 DEF TypeOK
<1>7. Tells("rename", i, owner[i], given, targets)
  BY <1>4, <1>5, <1>6 DEF Tells
<1>8. TypeOK' /\ Issued(i) /\ HasTold("rename", owner[i], targets)
  BY <1>1, <1>2, <1>3, <1>7, ToldStep
<1>9. \A f \in DOMAIN log' \ DOMAIN log : log'[f].kind = "rename"
  BY <1>8 DEF HasTold
<1>10. QED
  BY <1>1, <1>4, <1>8, <1>9 DEF KeptOwner

LEMMA TransferStep ==
  ASSUME TypeOK, NEW i \in Instances, NEW u \in Users, Transfer(i, u)
  PROVE  TypeOK' /\ Issued(i) /\ HandedOver(i, u)
<1> DEFINE targets == Targets(i, members[i])
<1>1. members[i] \in SUBSET Users /\ meta[i] \in Meta /\ Seat(i) /\ u \in members[i]
  BY DEF TypeOK, Transfer
<1>2. /\ targets \in SUBSET (Instances \ {i})
      /\ Home[u] # i => Home[u] \in targets
  BY <1>1, TargetsReach
<1>3. /\ Len(log) < MaxEvents
      /\ log' = Append(log, Told("transfer", i, u, meta[i]))
      /\ outbox' = outbox \cup RowsTo(targets, Len(log) + 1)
      /\ UNCHANGED <<members, meta, applied, fetching, unheard>>
      /\ owner' = [owner EXCEPT ![i] = u]
      /\ flaws' = flaws \cup MissedBy(i, targets)
  BY DEF Transfer
<1> HIDE DEF targets
<1>4. flaws \subseteq flaws' /\ flaws' \subseteq flaws \cup {"missed"}
  BY <1>3 DEF MissedBy
<1>5. /\ owner' \in [Instances -> Users \cup {NoOne}]
      /\ members' \in [Instances -> SUBSET Users]
      /\ meta' \in [Instances -> Meta]
  BY <1>3 DEF TypeOK
<1>6. Tells("transfer", i, u, meta[i], targets)
  BY <1>3, <1>4, <1>5 DEF Tells
<1>7. TypeOK' /\ Issued(i) /\ HasTold("transfer", u, targets)
  BY <1>1, <1>2, <1>6, ToldStep
<1>8. HandedOver(i, u)
  BY <1>1, <1>2, <1>3, <1>7 DEF HandedOver, HasTold
<1>9. QED
  BY <1>7, <1>8

LEMMA LeaveAsOwnerStep ==
  ASSUME TypeOK, NEW i \in Instances, NEW v \in Users, LeaveAsOwner(i, v)
  PROVE  TypeOK' /\ Issued(i) /\ HandedOver(i, v)
<1> DEFINE u == owner[i]
           rest == members[i] \ {u}
           ev == Told("leave", i, u, meta[i])
           ew == Told("transfer", i, v, meta[i])
           targets == Targets(i, members[i])
           others == Targets(i, rest)
<1>1. /\ members[i] \in SUBSET Users
      /\ rest \in SUBSET Users
      /\ meta[i] \in Meta
      /\ u \in Users
      /\ Seat(i)
      /\ v \in rest
  BY DEF TypeOK, LeaveAsOwner, Seat, Present
<1>2. /\ Len(log) + 1 < MaxEvents
      /\ log' = log \o <<ev, ew>>
      /\ outbox' = outbox \cup RowsTo(targets, Len(log) + 1)
                          \cup RowsTo(others, Len(log) + 2)
      /\ UNCHANGED <<meta, applied, fetching, unheard>>
      /\ owner' = [owner EXCEPT ![i] = v]
      /\ members' = [members EXCEPT ![i] = rest]
      /\ flaws' = flaws \cup MissedBy(i, others)
  BY DEF LeaveAsOwner
<1>3. /\ ev \in Event /\ ev.kind = "leave" /\ ev.src = i
      /\ ew \in Event /\ ew.kind = "transfer" /\ ew.src = i /\ ew.who = v
  BY <1>1, ToldType
<1> HIDE DEF u, rest, ev, ew
<1>4. /\ targets \in SUBSET (Instances \ {i})
      /\ others \in SUBSET (Instances \ {i})
      /\ Home[v] # i => Home[v] \in others
  BY <1>1, TargetsReach
<1> HIDE DEF targets, others
<1>5. flaws \subseteq flaws' /\ flaws' \subseteq Flaws
  BY <1>2 DEF MissedBy, TypeOK, Flaws
<1>6. /\ owner' \in [Instances -> Users \cup {NoOne}]
      /\ members' \in [Instances -> SUBSET Users]
  BY <1>1, <1>2 DEF TypeOK
<1>7. /\ Issued(i)
      /\ log' \in Seq(Event)
      /\ Len(log') <= MaxEvents
      /\ DOMAIN log' = DOMAIN log \cup {Len(log) + 1, Len(log) + 2}
      /\ log'[Len(log) + 1] = ev
      /\ log'[Len(log) + 2] = ew
      /\ outbox' \subseteq Instances \X DOMAIN log'
      /\ \A j \in others : <<j, Len(log) + 2>> \in outbox'
  BY <1>2, <1>3, <1>4, <1>5, IssueTwo
<1>8. TypeOK'
  BY <1>2, <1>5, <1>6, <1>7 DEF TypeOK
<1>9. Len(log) + 2 \in DOMAIN log' \ DOMAIN log
  BY <1>7, LogFacts
<1>10. \A f \in DOMAIN log' \ DOMAIN log :
         /\ log'[f].kind # "add"
         /\ log'[f].kind = "transfer" => f = Len(log) + 2
  BY <1>3, <1>7
<1>11. HandedOver(i, v)
  <2>1. log'[Len(log) + 2].kind = "transfer" /\ log'[Len(log) + 2].who = v
    BY <1>3, <1>7
  <2>2. Home[v] # i => <<Home[v], Len(log) + 2>> \in outbox'
    BY <1>4, <1>7
  <2>3. Seat(i) /\ owner' = [owner EXCEPT ![i] = v]
    BY <1>1, <1>2
  <2>4. QED
    BY <1>9, <1>10, <2>1, <2>2, <2>3 DEF HandedOver
<1>12. QED
  BY <1>7, <1>8, <1>11

\* j handles a row and keeps its owner; a token is lost only as "seatDropped".
Heard ==
  /\ UNCHANGED <<owner, log>>
  /\ outbox' \subseteq outbox
  /\ applied \subseteq applied'
  /\ flaws \subseteq flaws'
  /\ \A k \in Instances, f \in DOMAIN log :
       Token(k, f) => \/ <<k, f>> \in outbox' \ applied'
                      \/ "seatDropped" \in flaws'

\* j takes transfer e.
Took(j, e) ==
  /\ <<j, e>> \in outbox \ applied
  /\ log[e].kind = "transfer"
  /\ Present(j)
  /\ FromOwner(j, e)
  /\ owner' = [owner EXCEPT ![j] = log[e].who]
  /\ UNCHANGED log
  /\ outbox' \subseteq outbox
  /\ outbox \ {<<j, e>>} \subseteq outbox'
  /\ applied' = applied \cup {<<j, e>>}
  /\ flaws \subseteq flaws'

\* j creates its channel from the snapshot of e.
Booted(j, e) ==
  /\ <<j, e>> \in outbox \cup fetching
  /\ <<j, e>> \in fetching \/ Attributed(log[e].owner, e, j)
  /\ log[e].kind = "add"
  /\ ~Present(j)
  /\ owner' = [owner EXCEPT ![j] = log[e].owner]
  /\ UNCHANGED log
  /\ outbox' \subseteq outbox
  /\ outbox \ {<<j, e>>} \subseteq outbox'
  /\ applied \subseteq applied'
  /\ applied' \subseteq applied \cup {<<j, e>>}
  /\ flaws \subseteq flaws'
  /\ Ahead(j, e) => "ahead" \in flaws'

LEMMA AnsweredType ==
  ASSUME TypeOK, NEW j \in Instances, NEW e \in DOMAIN log, Answered(j, e)
  PROVE  /\ outbox' \subseteq outbox
         /\ outbox \ {<<j, e>>} \subseteq outbox'
         /\ unheard' \in 0 .. MaxUnheard
<1>1. unheard \in 0 .. MaxUnheard
  BY DEF TypeOK
<1>2. CASE outbox' = outbox \ {<<j, e>>} /\ UNCHANGED unheard
  BY <1>1, <1>2
<1>3. CASE /\ unheard < MaxUnheard
           /\ unheard' = unheard + 1
           /\ UNCHANGED outbox
  BY <1>1, <1>3, GroupAssumption
<1>4. QED
  BY <1>2, <1>3 DEF Answered

LEMMA JoinType ==
  ASSUME TypeOK, NEW j \in Instances, NEW e \in DOMAIN log,
         NEW roster \in SUBSET Users, Join(j, e, roster)
  PROVE  /\ members' \in [Instances -> SUBSET Users]
         /\ applied \subseteq applied'
         /\ applied' \subseteq applied \cup {<<j, e>>}
         /\ outbox' \subseteq outbox
         /\ outbox \ {<<j, e>>} \subseteq outbox'
         /\ unheard' \in 0 .. MaxUnheard
<1>1. log[e].who \in Users
  BY LogFacts DEF Event
<1>2. CASE Cardinality(roster) >= MaxMembers
  BY <1>2 DEF Join, Unanswered, TypeOK
<1>3. CASE ~(Cardinality(roster) >= MaxMembers)
  <2>1. /\ members' = [members EXCEPT ![j] = roster \cup {log[e].who}]
        /\ applied' = applied \cup {<<j, e>>}
        /\ Answered(j, e)
    BY <1>3 DEF Join
  <2>2. members' \in [Instances -> SUBSET Users]
    BY <1>1, <2>1 DEF TypeOK
  <2>3. QED
    BY <2>1, <2>2, AnsweredType
<1>4. QED
  BY <1>2, <1>3

\* What is left of a step that changes neither owner nor log.
LEMMA HeardStep ==
  ASSUME TypeOK, NEW j \in Instances, NEW e \in DOMAIN log,
         UNCHANGED <<owner, log>>,
         outbox' \subseteq outbox,
         outbox \ {<<j, e>>} \subseteq outbox',
         unheard' \in 0 .. MaxUnheard,
         applied \subseteq applied',
         applied' \subseteq applied \cup {<<j, e>>},
         fetching' \subseteq fetching \cup {<<j, e>>},
         flaws \subseteq flaws', flaws' \subseteq Flaws,
         members' \in [Instances -> SUBSET Users],
         meta' \in [Instances -> Meta],
         Token(j, e) => "seatDropped" \in flaws'
  PROVE  TypeOK' /\ Heard
<1>1. TypeOK'
  BY DEF TypeOK
<1>2. ASSUME NEW k \in Instances, NEW f \in DOMAIN log, Token(k, f)
      PROVE  <<k, f>> \in outbox' \ applied' \/ "seatDropped" \in flaws'
  <2>1. CASE k = j /\ f = e
    BY <1>2, <2>1
  <2>2. CASE ~(k = j /\ f = e)
    <3>1. <<k, f>> # <<j, e>>
      BY <2>2
    <3>2. <<k, f>> \in outbox \ applied
      BY <1>2 DEF Token
    <3>3. QED
      BY <3>1, <3>2
  <2>3. QED
    BY <2>1, <2>2
<1>3. QED
  BY <1>1, <1>2 DEF Heard

LEMMA ReceiveAddStep ==
  ASSUME TypeOK, NEW j \in Instances, NEW e \in DOMAIN log, ReceiveAdd(j, e)
  PROVE  TypeOK' /\ Heard
<1>1. members[j] \in SUBSET Users
  BY DEF TypeOK
<1>2. /\ members' \in [Instances -> SUBSET Users]
      /\ applied \subseteq applied'
      /\ applied' \subseteq applied \cup {<<j, e>>}
      /\ outbox' \subseteq outbox
      /\ outbox \ {<<j, e>>} \subseteq outbox'
      /\ unheard' \in 0 .. MaxUnheard
  BY <1>1, JoinType DEF ReceiveAdd
<1>3. UNCHANGED <<owner, meta, log, fetching, flaws>> /\ ~Token(j, e)
  BY DEF ReceiveAdd, Token
<1>4. meta' \in [Instances -> Meta] /\ flaws' \subseteq Flaws
  BY <1>3 DEF TypeOK
<1>5. QED
  BY <1>2, <1>3, <1>4, HeardStep

LEMMA BootstrapStep ==
  ASSUME TypeOK, NEW j \in Instances, NEW e \in DOMAIN log,
         <<j, e>> \in outbox \cup fetching, log[e].kind = "add", ~Present(j),
         <<j, e>> \in fetching \/ Attributed(log[e].owner, e, j),
         fetching' \subseteq fetching,
         Bootstrap(j, e)
  PROVE  TypeOK' /\ Booted(j, e)
<1>1. log[e] \in Event
  BY LogFacts
<1>2. /\ log[e].owner \in Users
      /\ log[e].roster \in SUBSET Users
      /\ log[e].meta \in Meta
  BY <1>1 DEF Event
<1>3. /\ members' \in [Instances -> SUBSET Users]
      /\ applied \subseteq applied'
      /\ applied' \subseteq applied \cup {<<j, e>>}
      /\ outbox' \subseteq outbox
      /\ outbox \ {<<j, e>>} \subseteq outbox'
      /\ unheard' \in 0 .. MaxUnheard
  BY <1>2, JoinType DEF Bootstrap
<1>4. /\ owner' = [owner EXCEPT ![j] = log[e].owner]
      /\ meta' = [meta EXCEPT ![j] = log[e].meta]
      /\ UNCHANGED log
  BY DEF Bootstrap
<1>5. /\ owner' \in [Instances -> Users \cup {NoOne}]
      /\ meta' \in [Instances -> Meta]
  BY <1>2, <1>4 DEF TypeOK
<1>6. /\ flaws' \subseteq flaws \cup {"ahead", "behind"}
      /\ flaws \subseteq flaws'
      /\ Ahead(j, e) => "ahead" \in flaws'
  BY DEF Bootstrap
<1>7. TypeOK'
  BY <1>3, <1>4, <1>5, <1>6 DEF TypeOK, Flaws
<1>8. QED
  BY <1>3, <1>4, <1>6, <1>7 DEF Booted

LEMMA ReceiveFirstAddStep ==
  ASSUME TypeOK, NEW j \in Instances, NEW e \in DOMAIN log,
         ReceiveFirstAdd(j, e)
  PROVE  TypeOK' /\ (Heard \/ Booted(j, e))
<1>1. /\ <<j, e>> \in outbox
      /\ log[e].kind = "add"
      /\ ~Present(j)
      /\ ~Token(j, e)
  BY DEF ReceiveFirstAdd, Token
<1>2. CASE /\ Answered(j, e)
           /\ flaws' = flaws \cup {"refused"}
           /\ UNCHANGED <<owner, members, meta, log, applied, fetching>>
  <2>1. /\ outbox' \subseteq outbox
        /\ outbox \ {<<j, e>>} \subseteq outbox'
        /\ unheard' \in 0 .. MaxUnheard
    BY <1>2, AnsweredType
  <2>2. /\ flaws' \subseteq Flaws
        /\ members' \in [Instances -> SUBSET Users]
        /\ meta' \in [Instances -> Meta]
    BY <1>2 DEF TypeOK, Flaws
  <2>3. QED
    BY <1>1, <1>2, <2>1, <2>2, HeardStep
<1>3. CASE /\ fetching' = fetching \cup {<<j, e>>}
           /\ UNCHANGED <<owner, members, meta, log, outbox, applied, unheard,
                          flaws>>
  <2>1. /\ flaws' \subseteq Flaws
        /\ members' \in [Instances -> SUBSET Users]
        /\ meta' \in [Instances -> Meta]
        /\ unheard' \in 0 .. MaxUnheard
    BY <1>3 DEF TypeOK
  <2>2. QED
    BY <1>1, <1>3, <2>1, HeardStep
<1>4. CASE /\ Bootstrap(j, e)
           /\ Attributed(log[e].owner, e, j)
           /\ UNCHANGED fetching
  BY <1>1, <1>4, BootstrapStep
<1>5. QED
  BY <1>2, <1>3, <1>4 DEF ReceiveFirstAdd

LEMMA FinishAddStep ==
  ASSUME TypeOK, NEW j \in Instances, NEW e \in DOMAIN log, FinishAdd(j, e)
  PROVE  TypeOK' /\ (Heard \/ Booted(j, e))
<1>1. /\ <<j, e>> \in fetching
      /\ log[e].kind = "add"
      /\ fetching' \subseteq fetching
      /\ ~Token(j, e)
  BY DEF FinishAdd, Token
<1>2. CASE Present(j)
  <2>1. UNCHANGED <<owner, members, meta, log, outbox, applied, unheard, flaws>>
    BY <1>2 DEF FinishAdd
  <2>2. /\ flaws' \subseteq Flaws
        /\ members' \in [Instances -> SUBSET Users]
        /\ meta' \in [Instances -> Meta]
        /\ unheard' \in 0 .. MaxUnheard
    BY <2>1 DEF TypeOK
  <2>3. QED
    BY <1>1, <2>1, <2>2, HeardStep
<1>3. CASE ~Present(j)
  BY <1>1, <1>3, BootstrapStep DEF FinishAdd
<1>4. QED
  BY <1>2, <1>3

LEMMA ReceiveRemoveStep ==
  ASSUME TypeOK, NEW j \in Instances, NEW e \in DOMAIN log,
         ReceiveRemove(j, e)
  PROVE  TypeOK' /\ Heard
<1>1. /\ Answered(j, e)
      /\ UNCHANGED <<owner, meta, log, fetching, flaws>>
      /\ ~Token(j, e)
  BY DEF ReceiveRemove, Token
<1>2. /\ outbox' \subseteq outbox
      /\ outbox \ {<<j, e>>} \subseteq outbox'
      /\ unheard' \in 0 .. MaxUnheard
  BY <1>1, AnsweredType
<1>3. /\ members' \in [Instances -> SUBSET Users]
      /\ applied \subseteq applied'
      /\ applied' \subseteq applied \cup {<<j, e>>}
  BY DEF ReceiveRemove, TypeOK
<1>4. meta' \in [Instances -> Meta] /\ flaws' \subseteq Flaws
  BY <1>1 DEF TypeOK
<1>5. QED
  BY <1>1, <1>2, <1>3, <1>4, HeardStep

LEMMA ReceiveTransferStep ==
  ASSUME TypeOK, NEW j \in Instances, NEW e \in DOMAIN log,
         ReceiveTransfer(j, e)
  PROVE  TypeOK' /\ (Heard \/ Took(j, e))
<1>1. /\ <<j, e>> \in outbox \ applied
      /\ log[e].kind = "transfer"
      /\ Answered(j, e)
      /\ UNCHANGED <<members, meta, log, fetching>>
  BY DEF ReceiveTransfer, Processed
<1>2. /\ outbox' \subseteq outbox
      /\ outbox \ {<<j, e>>} \subseteq outbox'
      /\ unheard' \in 0 .. MaxUnheard
  BY <1>1, AnsweredType
<1>3. members' \in [Instances -> SUBSET Users] /\ meta' \in [Instances -> Meta]
  BY <1>1 DEF TypeOK
<1>4. CASE /\ flaws' = flaws \cup
                {IF Home[log[e].who] = j THEN "seatDropped" ELSE "dropped"}
           /\ UNCHANGED <<owner, applied>>
  <2>1. flaws' \subseteq Flaws
    BY <1>4 DEF TypeOK, Flaws
  <2>2. Token(j, e) => "seatDropped" \in flaws'
    BY <1>4 DEF Token
  <2>3. QED
    BY <1>1, <1>2, <1>3, <1>4, <2>1, <2>2, HeardStep
<1>5. CASE /\ Present(j)
           /\ FromOwner(j, e)
           /\ owner' = [owner EXCEPT ![j] = log[e].who]
           /\ applied' = applied \cup {<<j, e>>}
           /\ flaws' = flaws \cup IF Overtaken(j, e) THEN {"overtaken"} ELSE {}
  <2>1. log[e].who \in Users
    BY LogFacts DEF Event
  <2>2. owner' \in [Instances -> Users \cup {NoOne}]
    BY <1>5, <2>1 DEF TypeOK
  <2>3. flaws \subseteq flaws' /\ flaws' \subseteq Flaws
    BY <1>5 DEF TypeOK, Flaws
  <2>4. TypeOK'
    BY <1>1, <1>2, <1>3, <1>5, <2>2, <2>3 DEF TypeOK
  <2>5. QED
    BY <1>1, <1>2, <1>5, <2>3, <2>4 DEF Took
<1>6. QED
  BY <1>4, <1>5 DEF ReceiveTransfer

LEMMA WriteMetaType ==
  ASSUME TypeOK, NEW j \in Instances, NEW e \in DOMAIN log, WriteMeta(j, e)
  PROVE  /\ meta' \in [Instances -> Meta]
         /\ applied' = applied \cup {<<j, e>>}
         /\ flaws \subseteq flaws'
         /\ flaws' \subseteq Flaws
         /\ outbox' \subseteq outbox
         /\ outbox \ {<<j, e>>} \subseteq outbox'
         /\ unheard' \in 0 .. MaxUnheard
<1>1. log[e].meta \in Meta
  BY LogFacts DEF Event
<1>2. /\ outbox' \subseteq outbox
      /\ outbox \ {<<j, e>>} \subseteq outbox'
      /\ unheard' \in 0 .. MaxUnheard
  BY AnsweredType DEF WriteMeta
<1>3. flaws \subseteq flaws' /\ flaws' \subseteq Flaws
  BY DEF WriteMeta, TypeOK, Flaws
<1>4. QED
  BY <1>1, <1>2, <1>3 DEF WriteMeta, TypeOK

LEMMA ReceiveRenameStep ==
  ASSUME TypeOK, NEW j \in Instances, NEW e \in DOMAIN log,
         ReceiveRename(j, e)
  PROVE  TypeOK' /\ Heard
<1>1. /\ UNCHANGED <<owner, members, log>>
      /\ ~Token(j, e)
  BY DEF ReceiveRename, Token
<1>2. members' \in [Instances -> SUBSET Users]
  BY <1>1 DEF TypeOK
<1>3. ASSUME Answered(j, e),
             flaws \subseteq flaws',
             flaws' \subseteq flaws \cup
               {"renameDropped", "renameRefused", "renameStale"},
             UNCHANGED <<meta, applied, fetching>>
      PROVE  TypeOK' /\ Heard
  <2>1. /\ outbox' \subseteq outbox
        /\ outbox \ {<<j, e>>} \subseteq outbox'
        /\ unheard' \in 0 .. MaxUnheard
    BY <1>3, AnsweredType
  <2>2. flaws' \subseteq Flaws /\ meta' \in [Instances -> Meta]
    BY <1>3 DEF TypeOK, Flaws
  <2>3. QED
    BY <1>1, <1>2, <1>3, <2>1, <2>2, HeardStep
<1>4. CASE /\ fetching' = fetching \cup {<<j, e>>}
           /\ UNCHANGED <<meta, applied, outbox, unheard, flaws>>
  <2>1. /\ flaws' \subseteq Flaws
        /\ meta' \in [Instances -> Meta]
        /\ unheard' \in 0 .. MaxUnheard
    BY <1>4 DEF TypeOK
  <2>2. QED
    BY <1>1, <1>2, <1>4, <2>1, HeardStep
<1>5. CASE WriteMeta(j, e) /\ UNCHANGED fetching
  <2>1. /\ meta' \in [Instances -> Meta]
        /\ applied' = applied \cup {<<j, e>>}
        /\ flaws \subseteq flaws'
        /\ flaws' \subseteq Flaws
        /\ outbox' \subseteq outbox
        /\ outbox \ {<<j, e>>} \subseteq outbox'
        /\ unheard' \in 0 .. MaxUnheard
    BY <1>5, WriteMetaType
  <2>2. QED
    BY <1>1, <1>2, <1>5, <2>1, HeardStep
<1>6. QED
  BY <1>3, <1>4, <1>5 DEF ReceiveRename

LEMMA FinishRenameStep ==
  ASSUME TypeOK, NEW j \in Instances, NEW e \in DOMAIN log, FinishRename(j, e)
  PROVE  TypeOK' /\ Heard
<1>1. /\ UNCHANGED <<owner, members, log>>
      /\ fetching' \subseteq fetching
      /\ WriteMeta(j, e)
      /\ ~Token(j, e)
  BY DEF FinishRename, Token
<1>2. members' \in [Instances -> SUBSET Users]
  BY <1>1 DEF TypeOK
<1>3. /\ meta' \in [Instances -> Meta]
      /\ applied' = applied \cup {<<j, e>>}
      /\ flaws \subseteq flaws'
      /\ flaws' \subseteq Flaws
      /\ outbox' \subseteq outbox
      /\ outbox \ {<<j, e>>} \subseteq outbox'
      /\ unheard' \in 0 .. MaxUnheard
  BY <1>1, WriteMetaType
<1>4. QED
  BY <1>1, <1>2, <1>3, HeardStep

LEMMA ReceiveReplayStep ==
  ASSUME TypeOK, NEW j \in Instances, NEW e \in DOMAIN log,
         ReceiveReplay(j, e)
  PROVE  TypeOK' /\ Heard
<1>1. /\ outbox' = outbox \ {<<j, e>>}
      /\ UNCHANGED <<owner, members, meta, log, applied, fetching, unheard,
                     flaws>>
      /\ ~Token(j, e)
  BY DEF ReceiveReplay, Processed, Token
<1>2. /\ flaws' \subseteq Flaws
      /\ members' \in [Instances -> SUBSET Users]
      /\ meta' \in [Instances -> Meta]
      /\ unheard' \in 0 .. MaxUnheard
  BY <1>1 DEF TypeOK
<1>3. QED
  BY <1>1, <1>2, HeardStep

-----------------------------------------------------------------------------
(* Every step, by what it does to the owners.                              *)

LEMMA ActStep ==
  ASSUME TypeOK, NEW i \in Instances, Act(i)
  PROVE  /\ TypeOK'
         /\ Issued(i)
         /\ \/ Founded(i)
            \/ KeptOwner(i)
            \/ \E v \in Users : HandedOver(i, v)
<1>1. ASSUME NEW u \in Users, NEW others \in SUBSET Users, NEW n \in Ids,
             NEW order \in [1 .. n -> Users], Create(i, u, others, order)
      PROVE  TypeOK' /\ Issued(i) /\ Founded(i)
  BY <1>1, CreateStep
<1>2. ASSUME NEW u \in Users,
             \/ AddMember(i, u)
             \/ LeaveAsMember(i, u)
             \/ Kick(i, u)
      PROVE  TypeOK' /\ Issued(i) /\ KeptOwner(i)
  BY <1>2, AddMemberStep, LeaveAsMemberStep, KickStep
<1>3. ASSUME NEW u \in Users, LeaveAsOwner(i, u) \/ Transfer(i, u)
      PROVE  TypeOK' /\ Issued(i) /\ HandedOver(i, u)
  BY <1>3, LeaveAsOwnerStep, TransferStep
<1>4. ASSUME NEW stamp \in 1 .. MaxStamp, NEW name \in Names,
             NEW icon \in Icons, Rename(i, stamp, name, icon)
      PROVE  TypeOK' /\ Issued(i) /\ KeptOwner(i)
  BY <1>4, RenameStep
<1>5. QED
  BY <1>1, <1>2, <1>3, <1>4 DEF Act

LEMMA ReceiveStep ==
  ASSUME TypeOK, NEW j \in Instances, NEW e \in DOMAIN log,
         Receive(j, e) \/ Finish(j, e)
  PROVE  TypeOK' /\ (Heard \/ Took(j, e) \/ Booted(j, e))
BY ReceiveAddStep, ReceiveFirstAddStep, FinishAddStep, ReceiveRemoveStep,
   ReceiveTransferStep, ReceiveRenameStep, FinishRenameStep, ReceiveReplayStep
DEF Receive, Finish

LEMMA InitType == Init => TypeOK
<1> SUFFICES ASSUME Init PROVE TypeOK
  OBVIOUS
<1>1. meta \in [Instances -> Meta]
  BY GroupAssumption DEF Init, Meta
<1>2. unheard \in 0 .. MaxUnheard
  BY GroupAssumption DEF Init
<1>3. log \in Seq(Event) /\ Len(log) = 0 /\ DOMAIN log = {}
  BY EmptySeq DEF Init
<1>4. Len(log) <= MaxEvents
  BY <1>3, GroupAssumption
<1>5. /\ owner \in [Instances -> Users \cup {NoOne}]
      /\ members \in [Instances -> SUBSET Users]
      /\ outbox = {} /\ applied = {} /\ fetching = {} /\ flaws = {}
  BY DEF Init
<1>6. QED
  BY <1>1, <1>2, <1>3, <1>4, <1>5 DEF TypeOK

\* Every variable keeps its type, for every set of instances and users and
\* every bound.
THEOREM TypeCorrect == Spec => []TypeOK
<1>1. TypeOK /\ [Next]_vars => TypeOK'
  <2> SUFFICES ASSUME TypeOK, [Next]_vars PROVE TypeOK'
    OBVIOUS
  <2>1. CASE UNCHANGED vars
    BY <2>1 DEF vars, TypeOK
  <2>2. ASSUME NEW i \in Instances, Act(i) PROVE TypeOK'
    BY <2>2, ActStep
  <2>3. ASSUME NEW j \in Instances, NEW e \in DOMAIN log,
               Receive(j, e) \/ Finish(j, e)
        PROVE  TypeOK'
    BY <2>3, ReceiveStep
  <2>4. QED
    BY <2>1, <2>2, <2>3 DEF Next
<1>2. QED
  BY <1>1, InitType, PTL DEF Spec

-----------------------------------------------------------------------------
(* The inductive invariant.                                                *)

\* Rows go to others than the issuer, and a download is waited for only after
\* the snapshot's owner was found to be homed at the issuer or here.
RowsSound ==
  /\ \A j \in Instances, e \in DOMAIN log :
       <<j, e>> \in outbox \cup fetching => log[e].src # j
  /\ \A j \in Instances, e \in DOMAIN log :
       <<j, e>> \in fetching /\ log[e].kind = "add" =>
         Attributed(log[e].owner, e, j)

\* Whoever issued an event has the channel.
IssuersPresent ==
  /\ log = << >> => \A i \in Instances : ~Present(i)
  /\ \A e \in DOMAIN log : Present(log[e].src)

\* The seat and the transfer that carries it are one thing.
OneHolder ==
  /\ \A i, k \in Instances : Seat(i) /\ Seat(k) => i = k
  /\ \A i, j \in Instances, e \in DOMAIN log : Seat(i) => ~Token(j, e)
  /\ \A j, k \in Instances, e, f \in DOMAIN log :
       Token(j, e) /\ Token(k, f) => e = f

TransferTo(f, j) == log[f].kind = "transfer" /\ Home[log[f].who] = j

\* An owner whose instance has no channel was made owner by a transfer.
OwnersTold ==
  \A k \in Instances :
    Present(k) /\ ~Present(Home[owner[k]]) =>
      \E f \in DOMAIN log : TransferTo(f, Home[owner[k]])

\* So was the owner a snapshot names, and before the snapshot was taken.
SnapshotsTold ==
  \A e \in DOMAIN log :
    log[e].kind = "add" /\ ~Present(Home[log[e].owner]) =>
      \E f \in DOMAIN log : f < e /\ TransferTo(f, Home[log[e].owner])

\* A transfer to an instance without the channel is the last: nobody holds the
\* seat, no other transfer carries it.
AbsentIsLast ==
  \A f \in DOMAIN log, j \in Instances :
    TransferTo(f, j) /\ ~Present(j) =>
      /\ \A i \in Instances : ~Seat(i)
      /\ \A k \in Instances, e \in DOMAIN log : Token(k, e) => e = f
      /\ \A g \in DOMAIN log, k \in Instances :
           TransferTo(g, k) /\ ~Present(k) => g = f

OwnersSafe ==
  OneHolder /\ OwnersTold /\ SnapshotsTold /\ AbsentIsLast

Inv ==
  /\ TypeOK
  /\ RowsSound
  /\ IssuersPresent
  /\ "ahead" \notin flaws => OwnersSafe

\* Users have a home, events have an issuer.
LEMMA Homes ==
  ASSUME TypeOK
  PROVE  /\ \A u \in Users : Home[u] \in Instances
         /\ \A k \in Instances : Present(k) => owner[k] \in Users
         /\ \A e \in DOMAIN log : /\ e \in Nat
                                  /\ log[e].src \in Instances
                                  /\ log[e].who \in Users
                                  /\ log[e].owner \in Users
<1>1. \A u \in Users : Home[u] \in Instances
  BY GroupAssumption
<1>2. \A k \in Instances : Present(k) => owner[k] \in Users
  BY DEF TypeOK, Present
<1>3. \A e \in DOMAIN log : log[e] \in Event
  BY LogFacts
<1>4. \A e \in DOMAIN log : e \in Nat
  BY LogFacts
<1>5. QED
  BY <1>1, <1>2, <1>3, <1>4 DEF Event

\* The four parts survive a step that changes neither owner nor log and adds
\* no rows.
LEMMA HeardSafe ==
  ASSUME TypeOK, OwnersSafe, Heard
  PROVE  OwnersSafe'
<1>1. /\ \A k \in Instances : Present(k)' = Present(k) /\ Seat(k)' = Seat(k)
      /\ \A j \in Instances, e \in DOMAIN log : Token(j, e)' => Token(j, e)
      /\ UNCHANGED <<owner, log>>
  BY DEF Heard, Present, Seat, Token
<1>2. \A f \in DOMAIN log, j \in Instances :
        TransferTo(f, j)' = TransferTo(f, j)
  BY <1>1 DEF TransferTo
<1>3. OneHolder'
  BY <1>1 DEF OwnersSafe, OneHolder
<1>4. OwnersTold'
  BY <1>1, <1>2, Homes DEF OwnersSafe, OwnersTold
<1>5. SnapshotsTold'
  BY <1>1, <1>2, Homes DEF OwnersSafe, SnapshotsTold
<1>6. AbsentIsLast'
  BY <1>1, <1>2 DEF OwnersSafe, AbsentIsLast
<1>7. QED
  BY <1>3, <1>4, <1>5, <1>6 DEF OwnersSafe

LEMMA TookSafe ==
  ASSUME TypeOK, RowsSound, OwnersSafe,
         NEW j \in Instances, NEW e \in DOMAIN log, Took(j, e)
  PROVE  OwnersSafe'
<1> DEFINE u == log[e].who
<1>1. u \in Users /\ Home[u] \in Instances /\ u # NoOne
  BY Homes, GroupAssumption
<1>2. /\ owner' = [owner EXCEPT ![j] = u]
      /\ UNCHANGED log
      /\ TransferTo(e, Home[u])
  BY DEF Took, TransferTo
<1>3. \A k \in Instances : k # j => owner'[k] = owner[k]
  BY <1>2 DEF TypeOK
<1>4. owner'[j] = u
  BY <1>2 DEF TypeOK
<1> HIDE DEF u
<1>5. Present(j) /\ \A k \in Instances : Present(k)' = Present(k)
  BY <1>1, <1>3, <1>4 DEF Took, Present
<1>6. ~Seat(j)
  <2>1. Home[owner[j]] = log[e].src /\ log[e].src # j
    BY DEF Took, FromOwner, RowsSound
  <2>2. QED
    BY <2>1 DEF Seat
<1>7. \A k \in Instances : k # j => Seat(k)' = Seat(k)
  BY <1>3, <1>5 DEF Seat
<1>8. Seat(j)' => Token(j, e)
  BY <1>4, <1>2 DEF Took, Seat, Token, TransferTo, u
<1>9. /\ \A k \in Instances, f \in DOMAIN log : Token(k, f)' => Token(k, f)
      /\ ~Token(j, e)'
  BY <1>2 DEF Took, Token
<1>10. \A f \in DOMAIN log, k \in Instances :
         TransferTo(f, k)' = TransferTo(f, k)
  BY <1>2 DEF TransferTo
<1>11. OneHolder'
  <2>1. ASSUME NEW i \in Instances, NEW k \in Instances, Seat(i)', Seat(k)'
        PROVE  i = k
    BY <2>1, <1>7, <1>8 DEF OwnersSafe, OneHolder
  <2>2. ASSUME NEW i \in Instances, NEW k \in Instances, NEW f \in DOMAIN log,
               Seat(i)', Token(k, f)'
        PROVE  FALSE
    <3>1. Token(k, f)
      BY <2>2, <1>9
    <3>2. CASE i # j
      BY <3>1, <3>2, <2>2, <1>7 DEF OwnersSafe, OneHolder
    <3>3. CASE i = j
      <4>1. Token(j, e)
        BY <3>3, <2>2, <1>8
      <4>2. f = e
        BY <3>1, <4>1 DEF OwnersSafe, OneHolder
      <4>3. k = j
        BY <3>1, <4>1, <4>2 DEF Token
      <4>4. QED
        BY <4>2, <4>3, <2>2, <1>9
    <3>4. QED
      BY <3>2, <3>3
  <2>3. \A k, i \in Instances, f, g \in DOMAIN log :
          Token(k, f)' /\ Token(i, g)' => f = g
    BY <1>9 DEF OwnersSafe, OneHolder
  <2>4. QED
    BY <2>1, <2>2, <2>3, <1>2 DEF OneHolder
<1>12. OwnersTold'
  <2> SUFFICES ASSUME NEW k \in Instances, Present(k)',
                      ~Present(Home[owner[k]])'
               PROVE  \E f \in DOMAIN log' : TransferTo(f, Home[owner[k]])'
    BY DEF OwnersTold
  <2>1. CASE k = j
    <3>1. TransferTo(e, Home[owner[k]])'
      BY <2>1, <1>2, <1>4 DEF TransferTo
    <3>2. QED
      BY <3>1, <1>2
  <2>2. CASE k # j
    <3>1. owner'[k] = owner[k]
      BY <2>2, <1>3
    <3>2. Home[owner[k]] \in Instances /\ ~Present(Home[owner[k]])
      BY <3>1, <1>5, Homes
    <3>3. PICK f \in DOMAIN log : TransferTo(f, Home[owner[k]])
      BY <3>2, <1>5 DEF OwnersSafe, OwnersTold
    <3>4. TransferTo(f, Home[owner[k]])'
      BY <3>1, <3>3, <1>2 DEF TransferTo
    <3>5. QED
      BY <3>4, <1>2
  <2>3. QED
    BY <2>1, <2>2
<1>13. SnapshotsTold'
  BY <1>2, <1>5, <1>10, Homes DEF OwnersSafe, SnapshotsTold
<1>14. AbsentIsLast'
  <2> SUFFICES ASSUME NEW f \in DOMAIN log, NEW k \in Instances,
                      TransferTo(f, k), ~Present(k)
               PROVE  /\ \A i \in Instances : ~Seat(i)'
                      /\ \A i \in Instances, g \in DOMAIN log :
                           Token(i, g)' => g = f
                      /\ \A g \in DOMAIN log, i \in Instances :
                           TransferTo(g, i) /\ ~Present(i) => g = f
    BY <1>2, <1>5, <1>10 DEF AbsentIsLast
  <2>1. /\ \A i \in Instances : ~Seat(i)
        /\ \A i \in Instances, g \in DOMAIN log : Token(i, g) => g = f
        /\ \A g \in DOMAIN log, i \in Instances :
             TransferTo(g, i) /\ ~Present(i) => g = f
    BY DEF OwnersSafe, AbsentIsLast
  <2>2. ~Token(j, e)
    <3>1. Token(j, e) => j = k
      BY <2>1 DEF Token, TransferTo
    <3>2. QED
      BY <3>1, <1>5
  <2>3. QED
    BY <2>1, <2>2, <1>7, <1>8, <1>9
<1>15. QED
  BY <1>11, <1>12, <1>13, <1>14 DEF OwnersSafe

LEMMA BootedSafe ==
  ASSUME TypeOK, RowsSound, IssuersPresent, OwnersSafe,
         NEW j \in Instances, NEW e \in DOMAIN log, Booted(j, e), ~Ahead(j, e)
  PROVE  OwnersSafe'
<1> DEFINE o == log[e].owner
<1>1. o \in Users /\ Home[o] \in Instances /\ o # NoOne
  BY Homes, GroupAssumption
<1>2. /\ owner' = [owner EXCEPT ![j] = o]
      /\ UNCHANGED log
      /\ ~Present(j)
      /\ log[e].kind = "add"
  BY DEF Booted
<1>3. \A k \in Instances : k # j => owner'[k] = owner[k]
  BY <1>2 DEF TypeOK
<1>4. owner'[j] = o
  BY <1>2 DEF TypeOK
<1>5. Home[o] \in {log[e].src, j} /\ log[e].src # j /\ Present(log[e].src)
  BY DEF Booted, RowsSound, IssuersPresent, Attributed
<1>6. /\ Present(j)'
      /\ \A k \in Instances : k # j => Present(k)' = Present(k)
      /\ \A k \in Instances : Present(k) => Present(k)'
  BY <1>1, <1>2, <1>3, <1>4 DEF Present
<1>7. \A k \in Instances : k # j => Seat(k)' = Seat(k)
  BY <1>3, <1>6 DEF Seat
<1>8. \A k \in Instances, f \in DOMAIN log : Token(k, f)' => Token(k, f)
  BY <1>2 DEF Booted, Token
<1>9. \A f \in DOMAIN log, k \in Instances :
        TransferTo(f, k)' = TransferTo(f, k)
  BY <1>2 DEF TransferTo
<1>10. Seat(j)' => Home[o] = j
  BY <1>4 DEF Seat
<1> HIDE DEF o
\* A snapshot that names a local user was preceded by a transfer to that user,
\* which is the last one and, as nothing is pending before e, carries nothing.
<1>11. ASSUME Home[o] = j
       PROVE  /\ \A i \in Instances : ~Seat(i)
              /\ \A k \in Instances, g \in DOMAIN log : ~Token(k, g)
  <2>1. ~Present(Home[log[e].owner])
    BY <1>2, <1>11 DEF o
  <2>2. PICK f \in DOMAIN log : f < e /\ TransferTo(f, Home[log[e].owner])
    BY <1>2, <2>1 DEF OwnersSafe, SnapshotsTold
  <2>3. TransferTo(f, j)
    BY <2>2, <1>11 DEF o
  <2>4. /\ \A i \in Instances : ~Seat(i)
        /\ \A k \in Instances, g \in DOMAIN log : Token(k, g) => g = f
    BY <2>3, <1>2 DEF OwnersSafe, AbsentIsLast
  <2>5. ASSUME NEW k \in Instances, NEW g \in DOMAIN log, Token(k, g)
        PROVE  FALSE
    <3>1. g = f
      BY <2>4, <2>5
    <3>2. k = j /\ <<j, f>> \in outbox
      BY <3>1, <2>3, <2>5 DEF Token, TransferTo
    <3>3. Ahead(j, e)
      BY <3>2, <2>2, <2>3 DEF Ahead, TransferTo
    <3>4. QED
      BY <3>3
  <2>6. QED
    BY <2>4, <2>5
<1>12. OneHolder'
  BY <1>2, <1>7, <1>8, <1>10, <1>11 DEF OwnersSafe, OneHolder
<1>13. OwnersTold'
  <2> SUFFICES ASSUME NEW k \in Instances, Present(k)',
                      ~Present(Home[owner[k]])'
               PROVE  \E f \in DOMAIN log' : TransferTo(f, Home[owner[k]])'
    BY DEF OwnersTold
  <2>1. k # j
    <3>1. \A h \in Instances : h \in {log[e].src, j} => owner'[h] # NoOne
      BY <1>5, <1>6 DEF Present
    <3>2. owner'[Home[o]] # NoOne
      BY <3>1, <1>1, <1>5
    <3>3. owner'[Home[owner'[k]]] = NoOne
      BY DEF Present
    <3>4. QED
      BY <3>2, <3>3, <1>4
  <2>2. owner'[k] = owner[k] /\ Present(k)
    BY <2>1, <1>3, <1>6
  <2>3. Home[owner[k]] \in Instances
    BY <2>2, Homes
  <2>4. ~Present(Home[owner[k]])
    BY <2>2, <2>3, <1>6 DEF Present
  <2>5. PICK f \in DOMAIN log : TransferTo(f, Home[owner[k]])
    BY <2>2, <2>4 DEF OwnersSafe, OwnersTold
  <2>6. TransferTo(f, Home[owner[k]])'
    BY <2>2, <2>5, <1>2 DEF TransferTo
  <2>7. QED
    BY <2>6, <1>2
<1>14. SnapshotsTold'
  BY <1>2, <1>6, <1>9, Homes DEF OwnersSafe, SnapshotsTold
<1>15. AbsentIsLast'
  <2> SUFFICES ASSUME NEW f \in DOMAIN log, NEW k \in Instances,
                      TransferTo(f, k), ~Present(k)'
               PROVE  /\ \A i \in Instances : ~Seat(i)'
                      /\ \A i \in Instances, g \in DOMAIN log :
                           Token(i, g)' => g = f
                      /\ \A g \in DOMAIN log, i \in Instances :
                           TransferTo(g, i) /\ ~Present(i)' => g = f
    BY <1>2, <1>9 DEF AbsentIsLast
  <2>1. ~Present(k) /\ k # j
    BY <1>6
  <2>2. /\ \A i \in Instances : ~Seat(i)
        /\ \A i \in Instances, g \in DOMAIN log : Token(i, g) => g = f
        /\ \A g \in DOMAIN log, i \in Instances :
             TransferTo(g, i) /\ ~Present(i) => g = f
    BY <2>1 DEF OwnersSafe, AbsentIsLast
  <2>3. Home[o] # j
    <3> SUFFICES ASSUME Home[o] = j PROVE FALSE
      OBVIOUS
    <3>1. ~Present(Home[log[e].owner])
      BY <1>2 DEF o
    <3>2. PICK g \in DOMAIN log : g < e /\ TransferTo(g, Home[log[e].owner])
      BY <1>2, <3>1 DEF OwnersSafe, SnapshotsTold
    <3>3. TransferTo(g, j)
      BY <3>2 DEF o
    <3>4. g = f
      BY <2>2, <3>3, <1>2
    <3>5. QED
      BY <3>3, <3>4, <2>1 DEF TransferTo
  <2>4. QED
    BY <2>2, <2>3, <1>6, <1>7, <1>8, <1>10
<1>16. QED
  BY <1>12, <1>13, <1>14, <1>15 DEF OwnersSafe

\* What issuing leaves as it was.
LEMMA IssuedFacts ==
  ASSUME TypeOK, NEW i \in Instances, Issued(i)
  PROVE  /\ \A f \in DOMAIN log, k \in Instances :
              TransferTo(f, k)' = TransferTo(f, k)
         /\ \A k \in Instances, f \in DOMAIN log' :
              Token(k, f)' => \/ f \in DOMAIN log /\ Token(k, f)
                              \/ /\ f \notin DOMAIN log
                                 /\ TransferTo(f, k)'
                                 /\ k # i
<1>1. \A f \in DOMAIN log, k \in Instances :
        TransferTo(f, k)' = TransferTo(f, k)
  BY DEF Issued, TransferTo
<1>2. ASSUME NEW k \in Instances, NEW f \in DOMAIN log', Token(k, f)'
      PROVE  \/ f \in DOMAIN log /\ Token(k, f)
             \/ /\ f \notin DOMAIN log
                /\ TransferTo(f, k)'
                /\ k # i
  <2>1. <<k, f>> \in outbox' \ applied'
    BY <1>2 DEF Token
  <2>2. CASE <<k, f>> \in outbox
    <3>1. f \in DOMAIN log
      BY <2>2 DEF TypeOK
    <3>2. Token(k, f)
      BY <1>2, <2>1, <2>2, <3>1 DEF Token, Issued
    <3>3. QED
      BY <3>1, <3>2
  <2>3. CASE <<k, f>> \notin outbox
    <3>1. k # i /\ f \notin DOMAIN log
      BY <2>1, <2>3 DEF Issued
    <3>2. TransferTo(f, k)'
      BY <1>2 DEF Token, TransferTo
    <3>3. QED
      BY <3>1, <3>2
  <2>4. QED
    BY <2>2, <2>3
<1>3. QED
  BY <1>1, <1>2

LEMMA FoundedSafe ==
  ASSUME TypeOK, TypeOK', IssuersPresent, NEW i \in Instances,
         Issued(i), Founded(i)
  PROVE  OwnersSafe'
<1>1. PICK u \in Users : Home[u] = i /\ owner' = [owner EXCEPT ![i] = u]
  BY DEF Founded
<1>2. log = << >> /\ DOMAIN log = {}
  <2>1. log = << >>
    BY DEF Founded
  <2>2. QED
    BY <2>1
<1>3. /\ owner'[i] = u
      /\ \A k \in Instances : k # i => owner'[k] = NoOne
  BY <1>1, <1>2 DEF IssuersPresent, Present, TypeOK
<1>4. /\ \A k \in Instances : Present(k)' <=> k = i
      /\ \A k \in Instances : Seat(k)' <=> k = i
  BY <1>1, <1>3, GroupAssumption DEF Present, Seat
<1>5. \A f \in DOMAIN log' : /\ log'[f].kind = "add"
                             /\ log'[f].owner = u
  BY <1>3 DEF Founded
<1>6. /\ \A k \in Instances, f \in DOMAIN log' : ~Token(k, f)'
      /\ \A k \in Instances, f \in DOMAIN log' : ~TransferTo(f, k)'
  BY <1>5 DEF Token, TransferTo
<1>7. OneHolder'
  BY <1>4, <1>6 DEF OneHolder
<1>8. OwnersTold'
  BY <1>1, <1>3, <1>4 DEF OwnersTold, Present
<1>9. SnapshotsTold'
  <2> SUFFICES ASSUME NEW e \in DOMAIN log'
               PROVE  Present(Home[log[e].owner])'
    BY DEF SnapshotsTold
  <2>1. Home[log'[e].owner] = i
    BY <1>1, <1>5
  <2>2. QED
    BY <2>1, <1>1, <1>3, GroupAssumption DEF Present
<1>10. AbsentIsLast'
  BY <1>6 DEF AbsentIsLast
<1>11. QED
  BY <1>7, <1>8, <1>9, <1>10 DEF OwnersSafe

LEMMA KeptOwnerSafe ==
  ASSUME TypeOK, TypeOK', OwnersSafe, NEW i \in Instances,
         Issued(i), KeptOwner(i)
  PROVE  OwnersSafe'
<1>1. /\ UNCHANGED owner
      /\ Present(i)
      /\ \A k \in Instances : Present(k)' = Present(k) /\ Seat(k)' = Seat(k)
  BY DEF KeptOwner, Present, Seat
<1>2. \A f \in DOMAIN log' \ DOMAIN log, k \in Instances : ~TransferTo(f, k)'
  BY DEF KeptOwner, TransferTo
<1>3. \A k \in Instances, f \in DOMAIN log' :
        Token(k, f)' => f \in DOMAIN log /\ Token(k, f)
  BY <1>2, IssuedFacts
<1>4. /\ \A f \in DOMAIN log, k \in Instances :
           TransferTo(f, k)' = TransferTo(f, k)
      /\ DOMAIN log \subseteq DOMAIN log'
  BY IssuedFacts DEF Issued
<1>5. OneHolder'
  BY <1>1, <1>3 DEF OwnersSafe, OneHolder
<1>6. OwnersTold'
  BY <1>1, <1>4, Homes DEF OwnersSafe, OwnersTold
<1>7. SnapshotsTold'
  <2> SUFFICES ASSUME NEW e \in DOMAIN log', log'[e].kind = "add",
                      ~Present(Home[log[e].owner])'
               PROVE  \E f \in DOMAIN log' :
                        f < e /\ TransferTo(f, Home[log[e].owner])'
    BY DEF SnapshotsTold
  <2>1. CASE e \in DOMAIN log
    <3>1. log'[e] = log[e]
      BY <2>1 DEF Issued
    <3>2. Home[log[e].owner] \in Instances /\ ~Present(Home[log[e].owner])
      BY <2>1, <3>1, <1>1, Homes
    <3>3. PICK f \in DOMAIN log : f < e /\ TransferTo(f, Home[log[e].owner])
      BY <2>1, <3>1, <3>2 DEF OwnersSafe, SnapshotsTold
    <3>4. TransferTo(f, Home[log[e].owner])'
      BY <3>1, <3>3 DEF TransferTo, Issued
    <3>5. QED
      BY <3>3, <3>4, <1>4
  <2>2. CASE e \notin DOMAIN log
    <3>1. log'[e].owner = owner[i]
      BY <2>2 DEF KeptOwner
    <3>2. Home[owner[i]] \in Instances /\ ~Present(Home[owner[i]])
      BY <3>1, <1>1, Homes
    <3>3. PICK f \in DOMAIN log : TransferTo(f, Home[owner[i]])
      BY <3>2, <1>1 DEF OwnersSafe, OwnersTold
    <3>4. TransferTo(f, Home[log[e].owner])'
      BY <3>1, <3>3 DEF TransferTo, Issued
    <3>5. f < e
      BY <2>2 DEF Issued
    <3>6. QED
      BY <3>4, <3>5, <1>4
  <2>3. QED
    BY <2>1, <2>2
<1>8. AbsentIsLast'
  BY <1>1, <1>2, <1>3, <1>4 DEF OwnersSafe, AbsentIsLast
<1>9. QED
  BY <1>5, <1>6, <1>7, <1>8 DEF OwnersSafe

LEMMA HandedOverSafe ==
  ASSUME TypeOK, TypeOK', OwnersSafe, NEW i \in Instances, NEW v \in Users,
         Issued(i), HandedOver(i, v)
  PROVE  OwnersSafe'
<1>1. PICK n \in DOMAIN log' \ DOMAIN log :
        /\ log'[n].kind = "transfer"
        /\ log'[n].who = v
        /\ \A f \in DOMAIN log' \ DOMAIN log :
             /\ log'[f].kind # "add"
             /\ log'[f].kind = "transfer" => f = n
  BY DEF HandedOver
<1>2. /\ owner' = [owner EXCEPT ![i] = v]
      /\ Seat(i)
      /\ v # NoOne
      /\ Home[v] \in Instances
  BY GroupAssumption DEF HandedOver
<1>3. owner'[i] = v /\ \A k \in Instances : k # i => owner'[k] = owner[k]
  BY <1>2 DEF TypeOK
<1>4. \A k \in Instances : Present(k)' = Present(k)
  BY <1>2, <1>3 DEF Present, Seat
<1>5. /\ \A k \in Instances : k # i => ~Seat(k) /\ ~Seat(k)'
      /\ \A k \in Instances, f \in DOMAIN log : ~Token(k, f)
      /\ Seat(i)' => Home[v] = i
  BY <1>2, <1>3, <1>4 DEF OwnersSafe, OneHolder, Seat
<1>6. \A f \in DOMAIN log, k \in Instances : ~(TransferTo(f, k) /\ ~Present(k))
  BY <1>2 DEF OwnersSafe, AbsentIsLast
<1>7. \A k \in Instances, f \in DOMAIN log' :
        Token(k, f)' => f = n /\ k = Home[v] /\ k # i
  BY <1>1, <1>5, IssuedFacts DEF TransferTo
<1>8. /\ \A f \in DOMAIN log, k \in Instances :
           TransferTo(f, k)' = TransferTo(f, k)
      /\ DOMAIN log \subseteq DOMAIN log'
      /\ \A f \in DOMAIN log' \ DOMAIN log, k \in Instances :
           TransferTo(f, k)' => f = n /\ k = Home[v]
  BY <1>1, IssuedFacts DEF Issued, TransferTo
<1>9. OneHolder'
  BY <1>5, <1>7 DEF OneHolder
<1>10. OwnersTold'
  <2> SUFFICES ASSUME NEW k \in Instances, Present(k)',
                      ~Present(Home[owner[k]])'
               PROVE  \E f \in DOMAIN log' : TransferTo(f, Home[owner[k]])'
    BY DEF OwnersTold
  <2>1. CASE k = i
    BY <2>1, <1>1, <1>3 DEF TransferTo
  <2>2. CASE k # i
    <3>1. owner'[k] = owner[k] /\ Present(k)
      BY <2>2, <1>3, <1>4
    <3>2. Home[owner[k]] \in Instances /\ ~Present(Home[owner[k]])
      BY <3>1, <1>4, Homes
    <3>3. PICK f \in DOMAIN log : TransferTo(f, Home[owner[k]])
      BY <3>1, <3>2 DEF OwnersSafe, OwnersTold
    <3>4. QED
      BY <3>2, <3>3, <1>6
  <2>3. QED
    BY <2>1, <2>2
<1>11. SnapshotsTold'
  <2> SUFFICES ASSUME NEW e \in DOMAIN log', log'[e].kind = "add",
                      ~Present(Home[log[e].owner])'
               PROVE  FALSE
    BY DEF SnapshotsTold
  <2>1. e \in DOMAIN log /\ log'[e] = log[e]
    BY <1>1 DEF Issued
  <2>2. Home[log[e].owner] \in Instances /\ ~Present(Home[log[e].owner])
    BY <2>1, <1>4, Homes
  <2>3. PICK f \in DOMAIN log : TransferTo(f, Home[log[e].owner])
    BY <2>1, <2>2 DEF OwnersSafe, SnapshotsTold
  <2>4. QED
    BY <2>2, <2>3, <1>6
<1>12. AbsentIsLast'
  <2> SUFFICES ASSUME NEW f \in DOMAIN log', NEW k \in Instances,
                      TransferTo(f, k)', ~Present(k)'
               PROVE  /\ \A j \in Instances : ~Seat(j)'
                      /\ \A j \in Instances, e \in DOMAIN log' :
                           Token(j, e)' => e = f
                      /\ \A g \in DOMAIN log', j \in Instances :
                           TransferTo(g, j)' /\ ~Present(j)' => g = f
    BY DEF AbsentIsLast
  <2>1. ~Present(k) /\ f \notin DOMAIN log
    BY <1>4, <1>6, <1>8
  <2>2. f = n /\ k = Home[v]
    BY <2>1, <1>8
  <2>3. Home[v] # i
    BY <2>1, <2>2, <1>2 DEF Seat
  <2>4. \A g \in DOMAIN log', j \in Instances :
          TransferTo(g, j)' /\ ~Present(j)' => g = f
    BY <2>2, <1>4, <1>6, <1>8
  <2>5. QED
    BY <2>2, <2>3, <2>4, <1>5, <1>7
<1>13. QED
  BY <1>9, <1>10, <1>11, <1>12 DEF OwnersSafe

-----------------------------------------------------------------------------
(* The invariant holds in every state.                                     *)

LEMMA InitInv == Init => Inv
<1> SUFFICES ASSUME Init PROVE Inv
  OBVIOUS
<1>1. TypeOK
  BY InitType
<1>2. DOMAIN log = {} /\ \A i \in Instances : ~Present(i) /\ ~Seat(i)
  BY DEF Init, Present, Seat
<1>3. RowsSound /\ IssuersPresent
  BY <1>2 DEF RowsSound, IssuersPresent
<1>4. OwnersSafe
  BY <1>2 DEF OwnersSafe, OneHolder, OwnersTold, SnapshotsTold, AbsentIsLast
<1>5. QED
  BY <1>1, <1>3, <1>4 DEF Inv

LEMMA ActFetching ==
  ASSUME NEW i \in Instances, Act(i)
  PROVE  UNCHANGED fetching
<1>1. ASSUME NEW u \in Users, NEW others \in SUBSET Users, NEW n \in Ids,
             NEW order \in [1 .. n -> Users], Create(i, u, others, order)
      PROVE  UNCHANGED fetching
  BY <1>1 DEF Create
<1>2. ASSUME NEW u \in Users, AddMember(i, u)
      PROVE  UNCHANGED fetching
  BY <1>2 DEF AddMember
<1>3. ASSUME NEW u \in Users, LeaveAsMember(i, u)
      PROVE  UNCHANGED fetching
  BY <1>3 DEF LeaveAsMember
<1>4. ASSUME NEW u \in Users, LeaveAsOwner(i, u)
      PROVE  UNCHANGED fetching
  BY <1>4 DEF LeaveAsOwner
<1>5. ASSUME NEW u \in Users, Kick(i, u)
      PROVE  UNCHANGED fetching
  BY <1>5 DEF Kick
<1>6. ASSUME NEW u \in Users, Transfer(i, u)
      PROVE  UNCHANGED fetching
  BY <1>6 DEF Transfer
<1>7. ASSUME NEW stamp \in 1 .. MaxStamp, NEW name \in Names,
             NEW icon \in Icons, Rename(i, stamp, name, icon)
      PROVE  UNCHANGED fetching
  BY <1>7 DEF Rename
<1>8. QED
  BY <1>1, <1>2, <1>3, <1>4, <1>5, <1>6, <1>7 DEF Act

LEMMA ActRows ==
  ASSUME TypeOK, TypeOK', RowsSound, IssuersPresent,
         NEW i \in Instances, Act(i), Issued(i)
  PROVE  RowsSound'
<1>1. UNCHANGED fetching
  BY ActFetching
<1>2. ASSUME NEW j \in Instances, NEW e \in DOMAIN log',
             <<j, e>> \in outbox' \cup fetching'
      PROVE  log'[e].src # j
  <2>1. CASE <<j, e>> \in outbox \cup fetching
    <3>1. e \in DOMAIN log
      BY <2>1 DEF TypeOK
    <3>2. QED
      BY <2>1, <3>1 DEF RowsSound, Issued
  <2>2. CASE <<j, e>> \notin outbox \cup fetching
    <3>1. j # i /\ e \notin DOMAIN log
      BY <1>1, <1>2, <2>2 DEF Issued
    <3>2. QED
      BY <3>1 DEF Issued
  <2>3. QED
    BY <2>1, <2>2
<1>3. ASSUME NEW j \in Instances, NEW e \in DOMAIN log',
             <<j, e>> \in fetching', log'[e].kind = "add"
      PROVE  Attributed(log[e].owner, e, j)'
  <2>1. e \in DOMAIN log /\ <<j, e>> \in fetching
    BY <1>1, <1>3 DEF TypeOK
  <2>2. log'[e] = log[e]
    BY <2>1 DEF Issued
  <2>3. Attributed(log[e].owner, e, j)
    BY <1>3, <2>1, <2>2 DEF RowsSound
  <2>4. QED
    BY <2>2, <2>3 DEF Attributed
<1>4. QED
  BY <1>2, <1>3 DEF RowsSound

LEMMA ReceiveRows ==
  ASSUME TypeOK, RowsSound, NEW j \in Instances, NEW e \in DOMAIN log,
         Receive(j, e) \/ Finish(j, e),
         UNCHANGED log, outbox' \subseteq outbox
  PROVE  RowsSound'
<1>1. \/ fetching' \subseteq fetching
      \/ /\ fetching' = fetching \cup {<<j, e>>}
         /\ <<j, e>> \in outbox
         /\ log[e].kind = "add" => Attributed(log[e].owner, e, j)
  BY DEF Receive, Finish, ReceiveAdd, ReceiveFirstAdd, FinishAdd,
         ReceiveRemove, ReceiveTransfer, ReceiveRename, FinishRename,
         ReceiveReplay
<1>2. ASSUME NEW k \in Instances, NEW f \in DOMAIN log',
             <<k, f>> \in outbox' \cup fetching'
      PROVE  log'[f].src # k
  BY <1>1, <1>2 DEF RowsSound
<1>3. ASSUME NEW k \in Instances, NEW f \in DOMAIN log',
             <<k, f>> \in fetching', log'[f].kind = "add"
      PROVE  Attributed(log[f].owner, f, k)'
  <2>1. Attributed(log[f].owner, f, k)
    BY <1>1, <1>3 DEF RowsSound
  <2>2. QED
    BY <2>1 DEF Attributed
<1>4. QED
  BY <1>2, <1>3 DEF RowsSound

LEMMA ActIssuers ==
  ASSUME TypeOK, TypeOK', IssuersPresent, NEW i \in Instances, Issued(i),
         \/ Founded(i)
         \/ KeptOwner(i)
         \/ \E v \in Users : HandedOver(i, v)
  PROVE  IssuersPresent'
<1>1. owner \in [Instances -> Users \cup {NoOne}] /\ NoOne \notin Users
  BY GroupAssumption DEF TypeOK
<1>2. /\ owner'[i] # NoOne
      /\ \A k \in Instances : owner[k] # NoOne => owner'[k] # NoOne
  BY <1>1 DEF Founded, KeptOwner, HandedOver, Seat, Present
<1>3. \A e \in DOMAIN log' : Present(log[e].src)'
  <2> SUFFICES ASSUME NEW e \in DOMAIN log'
               PROVE  owner'[log'[e].src] # NoOne
    BY DEF Present
  <2>1. CASE e \in DOMAIN log
    BY <2>1, <1>2, Homes DEF IssuersPresent, Issued, Present
  <2>2. CASE e \notin DOMAIN log
    BY <2>2, <1>2 DEF Issued
  <2>3. QED
    BY <2>1, <2>2
<1>4. log' # << >>
  BY DEF Issued
<1>5. QED
  BY <1>3, <1>4 DEF IssuersPresent

LEMMA ReceiveIssuers ==
  ASSUME TypeOK, TypeOK', IssuersPresent,
         NEW j \in Instances, NEW e \in DOMAIN log,
         Heard \/ Took(j, e) \/ Booted(j, e)
  PROVE  IssuersPresent'
<1>1. owner \in [Instances -> Users \cup {NoOne}] /\ NoOne \notin Users
  BY GroupAssumption DEF TypeOK
<1>2. log[e].who \in Users /\ log[e].owner \in Users
  BY Homes
<1>3. /\ UNCHANGED log
      /\ \A k \in Instances : owner[k] # NoOne => owner'[k] # NoOne
  BY <1>1, <1>2 DEF Heard, Took, Booted
<1>4. \A f \in DOMAIN log : owner'[log[f].src] # NoOne
  BY <1>3, Homes DEF IssuersPresent, Present
<1>5. log # << >>
  OBVIOUS
<1>6. QED
  BY <1>3, <1>4, <1>5 DEF IssuersPresent, Present

LEMMA StepInv == Inv /\ [Next]_vars => Inv'
<1> SUFFICES ASSUME Inv, [Next]_vars PROVE Inv'
  OBVIOUS
<1>1. TypeOK /\ RowsSound /\ IssuersPresent
  BY DEF Inv
<1>2. CASE UNCHANGED vars
  <2>1. TypeOK' /\ RowsSound' /\ IssuersPresent'
    BY <1>1, <1>2 DEF vars, TypeOK, RowsSound, Attributed, IssuersPresent,
                      Present
  <2>2. Heard
    BY <1>2 DEF vars, Heard, Token
  <2>3. "ahead" \notin flaws' => OwnersSafe'
    BY <1>1, <1>2, <2>2, HeardSafe DEF Inv, vars
  <2>4. QED
    BY <2>1, <2>3 DEF Inv
<1>3. ASSUME NEW i \in Instances, Act(i) PROVE Inv'
  <2>1. /\ TypeOK'
        /\ Issued(i)
        /\ \/ Founded(i)
           \/ KeptOwner(i)
           \/ \E v \in Users : HandedOver(i, v)
    BY <1>1, <1>3, ActStep
  <2>2. RowsSound'
    BY <1>1, <1>3, <2>1, ActRows
  <2>3. IssuersPresent'
    BY <1>1, <2>1, ActIssuers
  <2>4. ASSUME "ahead" \notin flaws' PROVE OwnersSafe'
    <3>1. OwnersSafe
      BY <2>1, <2>4 DEF Inv, Issued
    <3>2. QED
      BY <3>1, <1>1, <2>1, FoundedSafe, KeptOwnerSafe, HandedOverSafe
  <2>5. QED
    BY <2>1, <2>2, <2>3, <2>4 DEF Inv
<1>4. ASSUME NEW j \in Instances, NEW e \in DOMAIN log,
             Receive(j, e) \/ Finish(j, e)
      PROVE  Inv'
  <2>1. TypeOK' /\ (Heard \/ Took(j, e) \/ Booted(j, e))
    BY <1>1, <1>4, ReceiveStep
  <2>2. RowsSound'
    BY <1>1, <1>4, <2>1, ReceiveRows DEF Heard, Took, Booted
  <2>3. IssuersPresent'
    BY <1>1, <2>1, ReceiveIssuers
  <2>4. ASSUME "ahead" \notin flaws' PROVE OwnersSafe'
    <3>1. OwnersSafe
      BY <2>1, <2>4 DEF Inv, Heard, Took, Booted
    <3>2. Booted(j, e) => ~Ahead(j, e)
      BY <2>4 DEF Booted
    <3>3. QED
      BY <3>1, <3>2, <1>1, <2>1, HeardSafe, TookSafe, BootedSafe
  <2>5. QED
    BY <2>1, <2>2, <2>3, <2>4 DEF Inv
<1>5. QED
  BY <1>2, <1>3, <1>4 DEF Next

LEMMA InvHolds == Spec => []Inv
BY InitInv, StepInv, PTL DEF Spec

\* No two instances hold the seat, unless a snapshot overtook a transfer.
THEOREM OneSeat == Spec => []OneOwnerSeat
<1>1. Inv => OneOwnerSeat
  BY DEF Inv, OwnersSafe, OneHolder, OneOwnerSeat
<1>2. QED
  BY <1>1, InvHolds, PTL

-----------------------------------------------------------------------------
(* The seat is not lost, and is not taken away.                            *)

LEMMA SeatStays ==
  ASSUME TypeOK, RowsSound, NEW j \in Instances, NEW e \in DOMAIN log,
         Heard \/ Took(j, e) \/ Booted(j, e),
         NEW i \in Instances, Seat(i)
  PROVE  Seat(i)'
<1>1. CASE Heard
  BY <1>1 DEF Heard, Seat, Present
<1>2. CASE Took(j, e)
  <2>1. i # j
    BY <1>2 DEF Took, FromOwner, RowsSound, Seat
  <2>2. owner'[i] = owner[i]
    BY <1>2, <2>1 DEF Took, TypeOK
  <2>3. QED
    BY <2>2 DEF Seat, Present
<1>3. CASE Booted(j, e)
  <2>1. i # j
    BY <1>3 DEF Booted, Seat
  <2>2. owner'[i] = owner[i]
    BY <1>3, <2>1 DEF Booted, TypeOK
  <2>3. QED
    BY <2>2 DEF Seat, Present
<1>4. QED
  BY <1>1, <1>2, <1>3

\* An instance gives the seat up only by a transfer it issues.
THEOREM SeatLeaves == Spec => SeatLeavesByTransfer
<1> DEFINE Leaves ==
      \A i \in Instances :
        Seat(i) /\ ~Seat(i)' =>
          \E e \in DOMAIN log' \ DOMAIN log :
            log'[e].kind = "transfer" /\ log'[e].src = i
<1>1. Inv /\ [Next]_vars => Leaves
  <2> SUFFICES ASSUME Inv, [Next]_vars, NEW i \in Instances, Seat(i), ~Seat(i)'
               PROVE  \E e \in DOMAIN log' \ DOMAIN log :
                        log'[e].kind = "transfer" /\ log'[e].src = i
    OBVIOUS
  <2>1. TypeOK /\ RowsSound /\ IssuersPresent
    BY DEF Inv
  <2>2. CASE UNCHANGED vars
    BY <2>2 DEF vars, Seat, Present
  <2>3. ASSUME NEW j \in Instances, NEW e \in DOMAIN log,
               Receive(j, e) \/ Finish(j, e)
        PROVE  FALSE
    BY <2>1, <2>3, ReceiveStep, SeatStays
  <2>4. ASSUME NEW k \in Instances, Act(k)
        PROVE  \E e \in DOMAIN log' \ DOMAIN log :
                 log'[e].kind = "transfer" /\ log'[e].src = i
    <3>1. /\ Issued(k)
          /\ \/ Founded(k)
             \/ KeptOwner(k)
             \/ \E v \in Users : HandedOver(k, v)
      BY <2>1, <2>4, ActStep
    <3>2. CASE Founded(k)
      BY <2>1, <3>2 DEF Founded, IssuersPresent, Seat
    <3>3. CASE KeptOwner(k)
      BY <3>3 DEF KeptOwner, Seat, Present
    <3>4. ASSUME NEW v \in Users, HandedOver(k, v)
          PROVE  \E e \in DOMAIN log' \ DOMAIN log :
                   log'[e].kind = "transfer" /\ log'[e].src = i
      <4>1. k = i
        <5>1. k # i => owner'[i] = owner[i]
          BY <2>1, <3>4 DEF HandedOver, TypeOK
        <5>2. QED
          BY <5>1 DEF Seat, Present
      <4>2. PICK n \in DOMAIN log' \ DOMAIN log : log'[n].kind = "transfer"
        BY <3>4 DEF HandedOver
      <4>3. log'[n].src = i
        BY <3>1, <4>1 DEF Issued
      <4>4. QED
        BY <4>2, <4>3
    <3>5. QED
      BY <3>1, <3>2, <3>3, <3>4
  <2>5. QED
    BY <2>2, <2>3, <2>4 DEF Next
<1>2. Inv /\ [Next]_vars => [Leaves]_vars
  BY <1>1
<1>3. QED
  BY <1>2, InvHolds, PTL DEF Spec, SeatLeavesByTransfer

LEMMA TokenStays ==
  ASSUME TypeOK, TypeOK', NEW i \in Instances, Issued(i),
         NEW j \in Instances, NEW e \in DOMAIN log, Token(j, e)
  PROVE  e \in DOMAIN log' /\ Token(j, e)'
BY DEF Issued, Token

LEMMA SeatNotLostStep ==
  ASSUME Inv, SeatNotLost, Next
  PROVE  SeatNotLost'
<1>1. TypeOK /\ RowsSound /\ IssuersPresent
  BY DEF Inv
<1>2. ASSUME NEW i \in Instances, Act(i)
      PROVE  SeatNotLost'
  <2>1. /\ TypeOK'
        /\ Issued(i)
        /\ \/ Founded(i)
           \/ KeptOwner(i)
           \/ \E v \in Users : HandedOver(i, v)
    BY <1>1, <1>2, ActStep
  <2>2. CASE Founded(i)
    <3>1. PICK u \in Users : Home[u] = i /\ owner' = [owner EXCEPT ![i] = u]
      BY <2>2 DEF Founded
    <3>2. owner'[i] = u
      BY <3>1, <1>1 DEF TypeOK
    <3>3. Seat(i)'
      BY <3>1, <3>2, GroupAssumption DEF Seat, Present
    <3>4. QED
      BY <3>3 DEF SeatNotLost
  <2>3. CASE KeptOwner(i)
    <3>1. log # << >>
      BY <2>3, <1>1 DEF IssuersPresent, KeptOwner
    <3>2. CASE \E k \in Instances : Seat(k)
      BY <3>2, <2>3 DEF SeatNotLost, KeptOwner, Seat, Present
    <3>3. ASSUME NEW j \in Instances, NEW e \in DOMAIN log, Token(j, e)
          PROVE  SeatNotLost'
      BY <3>3, <1>1, <2>1, TokenStays DEF SeatNotLost
    <3>4. CASE "seatDropped" \in flaws
      BY <3>4, <2>1 DEF SeatNotLost, Issued
    <3>5. QED
      BY <3>1, <3>2, <3>3, <3>4 DEF SeatNotLost
  <2>4. ASSUME NEW v \in Users, HandedOver(i, v)
        PROVE  SeatNotLost'
    <3>1. PICK n \in DOMAIN log' \ DOMAIN log :
            /\ log'[n].kind = "transfer"
            /\ log'[n].who = v
            /\ Home[v] # i => <<Home[v], n>> \in outbox'
      BY <2>4 DEF HandedOver
    <3>2. owner'[i] = v /\ v # NoOne /\ Home[v] \in Instances
      BY <2>4, <1>1, GroupAssumption DEF HandedOver, TypeOK
    <3>3. CASE Home[v] = i
      <4>1. Seat(i)'
        BY <3>2, <3>3 DEF Seat, Present
      <4>2. QED
        BY <4>1 DEF SeatNotLost
    <3>4. CASE Home[v] # i
      <4>1. <<Home[v], n>> \notin applied'
        BY <3>1, <1>1, <2>1 DEF TypeOK, Issued
      <4>2. \E k \in Instances, e \in DOMAIN log' : Token(k, e)'
        BY <3>1, <3>2, <3>4, <4>1 DEF Token
      <4>3. QED
        BY <4>2 DEF SeatNotLost
    <3>5. QED
      BY <3>3, <3>4
  <2>5. QED
    BY <2>1, <2>2, <2>3, <2>4
<1>3. ASSUME NEW j \in Instances, NEW e \in DOMAIN log,
             Receive(j, e) \/ Finish(j, e)
      PROVE  SeatNotLost'
  <2>1. TypeOK' /\ (Heard \/ Took(j, e) \/ Booted(j, e))
    BY <1>1, <1>3, ReceiveStep
  <2>2. log # << >> /\ UNCHANGED log /\ flaws \subseteq flaws'
    BY <2>1 DEF Heard, Took, Booted
  <2>3. CASE \E i \in Instances : Seat(i)
    BY <2>3, <2>1, <1>1, SeatStays DEF SeatNotLost
  <2>4. CASE "seatDropped" \in flaws
    BY <2>4, <2>2 DEF SeatNotLost
  <2>5. ASSUME NEW k \in Instances, NEW f \in DOMAIN log, Token(k, f)
        PROVE  SeatNotLost'
    <3>1. CASE Heard
      <4>1. <<k, f>> \in outbox' \ applied' \/ "seatDropped" \in flaws'
        BY <3>1, <2>5 DEF Heard
      <4>2. <<k, f>> \in outbox' \ applied' => Token(k, f)'
        BY <2>2, <2>5 DEF Token
      <4>3. QED
        BY <4>1, <4>2, <2>2 DEF SeatNotLost
    <3>2. CASE Took(j, e) /\ k = j /\ f = e
      <4>1. owner'[j] = log[e].who /\ log[e].who # NoOne
        BY <3>2, <1>1, Homes, GroupAssumption DEF Took, TypeOK
      <4>2. Seat(j)'
        BY <4>1, <3>2, <2>5 DEF Seat, Present, Token
      <4>3. QED
        BY <4>2 DEF SeatNotLost
    <3>3. CASE (Took(j, e) /\ ~(k = j /\ f = e)) \/ Booted(j, e)
      <4>1. <<k, f>> # <<j, e>>
        <5>1. Booted(j, e) => e # f
          BY <2>5 DEF Booted, Token
        <5>2. QED
          BY <3>3, <5>1
      <4>2. <<k, f>> \in outbox' \ applied'
        BY <3>3, <4>1, <2>5 DEF Took, Booted, Token
      <4>3. Token(k, f)'
        BY <4>2, <2>2, <2>5 DEF Token
      <4>4. QED
        BY <4>3, <2>2 DEF SeatNotLost
    <3>4. QED
      BY <2>1, <3>1, <3>2, <3>3
  <2>6. QED
    BY <2>2, <2>3, <2>4, <2>5 DEF SeatNotLost
<1>4. QED
  BY <1>2, <1>3 DEF Next

\* While no instance holds the seat, a transfer carries it or its addressee
\* dropped it.
THEOREM SeatKept == Spec => []SeatNotLost
<1>1. Init => SeatNotLost
  BY DEF Init, SeatNotLost
<1>2. Inv /\ SeatNotLost /\ [Next]_vars => SeatNotLost'
  <2> SUFFICES ASSUME Inv, SeatNotLost, [Next]_vars PROVE SeatNotLost'
    OBVIOUS
  <2>1. CASE UNCHANGED vars
    BY <2>1 DEF vars, SeatNotLost, Seat, Present, Token
  <2>2. CASE Next
    BY <2>2, SeatNotLostStep
  <2>3. QED
    BY <2>1, <2>2
<1>3. QED
  BY <1>1, <1>2, InvHolds, PTL DEF Spec

-----------------------------------------------------------------------------
(* Whoever is added is reached.                                            *)

\* u is a member somewhere, or will be by an event that is on its way.
Listed(u) ==
  \/ \E i \in Instances : u \in members[i]
  \/ \E e \in DOMAIN log :
       log[e].kind = "add" /\ u \in log[e].roster \cup {log[e].who}

Reached(h) ==
  \/ Present(h)
  \/ \E e \in DOMAIN log : log[e].kind = "add" /\ <<h, e>> \in outbox

\* An event is applied, and a name's icon waited for, where the channel is.
Known ==
  \A j \in Instances, e \in DOMAIN log :
    \/ <<j, e>> \in applied
    \/ <<j, e>> \in fetching /\ log[e].kind = "rename"
    => Present(j)

ReachInv ==
  /\ Known
  /\ "refused" \notin flaws =>
       \A u \in Users : Listed(u) => Reached(Home[u])

LEMMA ActPresent ==
  ASSUME TypeOK, NEW i \in Instances,
         \/ Founded(i)
         \/ KeptOwner(i)
         \/ \E v \in Users : HandedOver(i, v),
         NEW k \in Instances, Present(k)
  PROVE  Present(k)'
BY GroupAssumption DEF Founded, KeptOwner, HandedOver, Present, TypeOK

LEMMA CreateListed ==
  ASSUME TypeOK, TypeOK', NEW i \in Instances, NEW u \in Users,
         NEW others \in SUBSET Users, NEW n \in Ids,
         NEW order \in [1 .. n -> Users],
         Create(i, u, others, order), Founded(i),
         NEW w \in Users, Listed(w)'
  PROVE  Listed(w) \/ Reached(Home[w])'
<1> DEFINE roster == others \cup {u}
<1>1. n \in Nat \ {0} /\ DOMAIN order = 1 .. n /\ Len(order) = n
  BY GroupAssumption DEF Ids
<1>2. /\ log' = [m \in 1 .. n |-> Added(i, order[m], u, roster, meta[i])]
      /\ outbox' = Remote(i, roster) \X DOMAIN order
  BY <1>1 DEF Create
<1>3. /\ members' = [members EXCEPT ![i] = roster]
      /\ owner' = [owner EXCEPT ![i] = u]
      /\ {order[m] : m \in DOMAIN order} \subseteq others
  BY DEF Create
<1>4. /\ \A m \in 1 .. n : order[m] \in roster
      /\ roster \in SUBSET Users
      /\ u \in roster
  BY <1>1, <1>3
<1> HIDE DEF roster
<1>5. DOMAIN log' = 1 .. n
  BY <1>2
<1>6. ASSUME NEW m \in 1 .. n
      PROVE  /\ log'[m].kind = "add"
             /\ log'[m].roster = roster
             /\ log'[m].who \in roster
  <2>1. log'[m] = Added(i, order[m], u, roster, meta[i])
    BY <1>2
  <2>2. QED
    BY <2>1, <1>4 DEF Added
<1>7. w \in roster \/ Listed(w)
  <2>1. CASE \E k \in Instances : w \in members'[k]
    BY <2>1, <1>3 DEF Listed, TypeOK
  <2>2. CASE \E e \in DOMAIN log' : w \in log'[e].roster \cup {log'[e].who}
    BY <2>2, <1>5, <1>6
  <2>3. QED
    BY <2>1, <2>2 DEF Listed
<1>8. ASSUME w \in roster PROVE Reached(Home[w])'
  <2>1. Home[w] \in Instances
    BY GroupAssumption
  <2>2. CASE Home[w] = i
    BY <2>1, <2>2, <1>3, GroupAssumption DEF Reached, Present, TypeOK
  <2>3. CASE Home[w] # i
    <3>1. Home[w] \in Remote(i, roster)
      BY <1>8, <2>3 DEF Remote
    <3>2. 1 \in 1 .. n
      BY <1>1
    <3>3. <<Home[w], 1>> \in outbox'
      BY <3>1, <3>2, <1>1, <1>2
    <3>4. QED
      BY <3>2, <3>3, <1>5, <1>6 DEF Reached
  <2>4. QED
    BY <2>2, <2>3
<1>9. QED
  BY <1>7, <1>8

LEMMA AddMemberListed ==
  ASSUME TypeOK, TypeOK', NEW i \in Instances, NEW u \in Users,
         AddMember(i, u), Issued(i),
         NEW w \in Users, Listed(w)'
  PROVE  Listed(w) \/ Reached(Home[w])'
<1> DEFINE roster == members[i] \cup {u}
           ev == Added(i, u, owner[i], roster, meta[i])
<1>1. /\ log \in Seq(Event)
      /\ roster \in SUBSET Users
      /\ Present(i)
      /\ owner' = owner
      /\ log' = Append(log, ev)
      /\ outbox' = outbox \cup RowsTo(Targets(i, roster), Len(log) + 1)
      /\ members' = [members EXCEPT ![i] = roster]
  BY DEF AddMember, TypeOK
<1>2. ev.kind = "add" /\ ev.roster = roster /\ ev.who = u
  BY DEF Added
<1> HIDE DEF ev
<1>3. DOMAIN log' = DOMAIN log \cup {Len(log) + 1}
  BY <1>1, LenProperties, LogFacts
<1>4. log'[Len(log) + 1] = ev
  BY <1>1, LogFacts
<1>5. w \in roster \/ Listed(w)
  BY <1>1, <1>2, <1>3, <1>4 DEF Listed, TypeOK, Issued
<1>6. ASSUME w = u PROVE Reached(Home[w])'
  <2>1. Home[w] \in Instances
    BY GroupAssumption
  <2>2. CASE Home[w] = i
    BY <2>2, <1>1 DEF Reached, Present
  <2>3. CASE Home[w] # i
    <3>1. Home[w] \in Targets(i, roster)
      BY <1>1, <1>6, <2>3, TargetsReach
    <3>2. <<Home[w], Len(log) + 1>> \in outbox'
      BY <3>1, <1>1 DEF RowsTo
    <3>3. QED
      BY <3>2, <1>2, <1>3, <1>4 DEF Reached
  <2>4. QED
    BY <2>2, <2>3
<1>7. w \in members[i] => Listed(w)
  BY DEF Listed
<1>8. QED
  BY <1>5, <1>6, <1>7

\* The other steps of a user list nobody new.
LEMMA OthersListed ==
  ASSUME TypeOK, NEW i \in Instances, Issued(i),
         \A f \in DOMAIN log' \ DOMAIN log : log'[f].kind # "add",
         \A k \in Instances : members'[k] \subseteq members[k],
         NEW w \in Users, Listed(w)'
  PROVE  Listed(w)
BY DEF Listed, Issued

LEMMA ActListed ==
  ASSUME TypeOK, TypeOK', NEW i \in Instances, Act(i), Issued(i),
         \/ Founded(i)
         \/ KeptOwner(i)
         \/ \E v \in Users : HandedOver(i, v),
         NEW w \in Users, Listed(w)'
  PROVE  Listed(w) \/ Reached(Home[w])'
<1>1. ASSUME NEW u \in Users, NEW others \in SUBSET Users, NEW n \in Ids,
             NEW order \in [1 .. n -> Users], Create(i, u, others, order)
      PROVE  Listed(w) \/ Reached(Home[w])'
  BY <1>1, CreateStep, CreateListed
<1>2. ASSUME NEW u \in Users, AddMember(i, u)
      PROVE  Listed(w) \/ Reached(Home[w])'
  BY <1>2, AddMemberListed
<1>3. ASSUME NEW u \in Users, LeaveAsMember(i, u) PROVE Listed(w)
  <2>1. \A k \in Instances : members'[k] \subseteq members[k]
    BY <1>3 DEF LeaveAsMember, TypeOK
  <2>2. log' = Append(log, Told("leave", i, u, meta[i]))
    BY <1>3 DEF LeaveAsMember
  <2>3. \A f \in DOMAIN log' \ DOMAIN log : log'[f].kind # "add"
    BY <2>2, LogFacts DEF Told, TypeOK
  <2>4. QED
    BY <2>1, <2>3, OthersListed
<1>4. ASSUME NEW u \in Users, Kick(i, u) PROVE Listed(w)
  <2>1. \A k \in Instances : members'[k] \subseteq members[k]
    BY <1>4 DEF Kick, TypeOK
  <2>2. log' = Append(log, Told("kick", i, u, meta[i]))
    BY <1>4 DEF Kick
  <2>3. \A f \in DOMAIN log' \ DOMAIN log : log'[f].kind # "add"
    BY <2>2, LogFacts DEF Told, TypeOK
  <2>4. QED
    BY <2>1, <2>3, OthersListed
<1>5. ASSUME NEW v \in Users, LeaveAsOwner(i, v) PROVE Listed(w)
  <2>1. \A k \in Instances : members'[k] \subseteq members[k]
    BY <1>5 DEF LeaveAsOwner, TypeOK
  <2>2. HandedOver(i, v)
    BY <1>5, LeaveAsOwnerStep
  <2>3. QED
    BY <2>1, <2>2, OthersListed DEF HandedOver
<1>6. ASSUME NEW u \in Users, Transfer(i, u) PROVE Listed(w)
  <2>1. \A k \in Instances : members'[k] \subseteq members[k]
    BY <1>6 DEF Transfer
  <2>2. HandedOver(i, u)
    BY <1>6, TransferStep
  <2>3. QED
    BY <2>1, <2>2, OthersListed DEF HandedOver
<1>7. ASSUME NEW stamp \in 1 .. MaxStamp, NEW name \in Names,
             NEW icon \in Icons, Rename(i, stamp, name, icon)
      PROVE  Listed(w)
  <2> DEFINE given == [by |-> i, stamp |-> stamp, name |-> name, icon |-> icon]
  <2>1. \A k \in Instances : members'[k] \subseteq members[k]
    BY <1>7 DEF Rename
  <2>2. log' = Append(log, Told("rename", i, owner[i], given))
    BY <1>7 DEF Rename
  <2>3. \A f \in DOMAIN log' \ DOMAIN log : log'[f].kind # "add"
    BY <2>2, LogFacts DEF Told, TypeOK
  <2>4. QED
    BY <2>1, <2>3, OthersListed
<1>8. QED
  BY <1>1, <1>2, <1>3, <1>4, <1>5, <1>6, <1>7 DEF Act

\* What a handler lists, and which rows it answers.
HandledRow(j, e) ==
  /\ \A k \in Instances :
       \/ members'[k] \subseteq members[k]
       \/ /\ log[e].kind = "add"
          /\ members'[k] \subseteq
               members[k] \cup log[e].roster \cup {log[e].who}
  /\ outbox' # outbox /\ log[e].kind = "add" =>
       Present(j)' \/ "refused" \in flaws'
  /\ applied' # applied => Present(j)'
  /\ \/ fetching' \subseteq fetching
     \/ /\ fetching' = fetching \cup {<<j, e>>}
        /\ log[e].kind = "add" \/ Present(j)'

LEMMA JoinListed ==
  ASSUME TypeOK, NEW j \in Instances, NEW e \in DOMAIN log,
         log[e].kind = "add",
         NEW roster \in {members[j], log[e].roster}, Join(j, e, roster)
  PROVE  \A k \in Instances :
           members'[k] \subseteq members[k] \cup log[e].roster \cup {log[e].who}
BY DEF Join, TypeOK

LEMMA BootstrapHandled ==
  ASSUME TypeOK, NEW j \in Instances, NEW e \in DOMAIN log,
         log[e].kind = "add", Bootstrap(j, e), fetching' \subseteq fetching
  PROVE  HandledRow(j, e)
<1>1. Join(j, e, log[e].roster)
  BY DEF Bootstrap
<1>2. log[e].owner \in Users
  BY Homes
<1>3. Present(j)'
  BY <1>2, GroupAssumption DEF Bootstrap, Present, TypeOK
<1>4. QED
  BY <1>1, <1>3, JoinListed DEF HandledRow

LEMMA ReceiveHandled ==
  ASSUME TypeOK, Known, NEW j \in Instances, NEW e \in DOMAIN log,
         Receive(j, e) \/ Finish(j, e)
  PROVE  HandledRow(j, e)
<1>1. CASE ReceiveAdd(j, e)
  <2>1. /\ Join(j, e, members[j])
        /\ log[e].kind = "add"
        /\ Present(j)'
        /\ UNCHANGED fetching
    BY <1>1 DEF ReceiveAdd, Present
  <2>2. \A k \in Instances :
          members'[k] \subseteq members[k] \cup log[e].roster \cup {log[e].who}
    BY <2>1, JoinListed
  <2>3. QED
    BY <2>1, <2>2 DEF HandledRow
<1>2. CASE ReceiveFirstAdd(j, e)
  <2>1. log[e].kind = "add"
    BY <1>2 DEF ReceiveFirstAdd
  <2>2. CASE Bootstrap(j, e) /\ UNCHANGED fetching
    BY <2>1, <2>2, BootstrapHandled
  <2>3. CASE ~(Bootstrap(j, e) /\ UNCHANGED fetching)
    BY <1>2, <2>3 DEF ReceiveFirstAdd, HandledRow
  <2>4. QED
    BY <2>2, <2>3
<1>3. CASE FinishAdd(j, e)
  <2>1. log[e].kind = "add" /\ fetching' \subseteq fetching
    BY <1>3 DEF FinishAdd
  <2>2. CASE Bootstrap(j, e)
    BY <2>1, <2>2, BootstrapHandled
  <2>3. CASE ~Bootstrap(j, e)
    BY <1>3, <2>3 DEF FinishAdd, HandledRow
  <2>4. QED
    BY <2>2, <2>3
<1>4. CASE ReceiveRemove(j, e)
  BY <1>4 DEF ReceiveRemove, HandledRow, Present, TypeOK
<1>5. CASE ReceiveTransfer(j, e)
  <2>1. log[e].who \in Users
    BY Homes
  <2>2. applied' # applied => Present(j)'
    BY <1>5, <2>1, GroupAssumption DEF ReceiveTransfer, Present, TypeOK
  <2>3. QED
    BY <1>5, <2>2 DEF ReceiveTransfer, HandledRow
<1>6. CASE ReceiveRename(j, e)
  BY <1>6 DEF ReceiveRename, WriteMeta, HandledRow, Present
<1>7. CASE ReceiveReplay(j, e)
  <2>1. Present(j)
    BY <1>7 DEF ReceiveReplay, Processed, Known
  <2>2. Present(j)'
    BY <1>7, <2>1 DEF ReceiveReplay, Present
  <2>3. QED
    BY <1>7, <2>2 DEF ReceiveReplay, HandledRow
<1>8. CASE FinishRename(j, e)
  BY <1>8 DEF FinishRename, WriteMeta, HandledRow, Present, Known
<1>9. QED
  BY <1>1, <1>2, <1>3, <1>4, <1>5, <1>6, <1>7, <1>8 DEF Receive, Finish

LEMMA ReceivePresent ==
  ASSUME TypeOK, NEW j \in Instances, NEW e \in DOMAIN log,
         Heard \/ Took(j, e) \/ Booted(j, e),
         NEW k \in Instances, Present(k)
  PROVE  Present(k)'
<1>1. log[e].who \in Users /\ log[e].owner \in Users
  BY Homes
<1>2. QED
  BY <1>1, GroupAssumption DEF Heard, Took, Booted, Present, TypeOK

LEMMA ReceiveReach ==
  ASSUME TypeOK, TypeOK', ReachInv, NEW j \in Instances, NEW e \in DOMAIN log,
         Receive(j, e) \/ Finish(j, e),
         Heard \/ Took(j, e) \/ Booted(j, e)
  PROVE  ReachInv'
<1>1. HandledRow(j, e)
  BY ReceiveHandled DEF ReachInv
<1>2. /\ UNCHANGED log
      /\ outbox' \subseteq outbox
      /\ flaws \subseteq flaws'
  BY DEF Heard, Took, Booted
<1>3. \A k \in Instances : Present(k) => Present(k)'
  BY ReceivePresent
<1>4. applied' \subseteq applied \cup {<<j, e>>}
  BY DEF Receive, Finish, ReceiveAdd, ReceiveFirstAdd, FinishAdd,
         ReceiveRemove, ReceiveTransfer, ReceiveRename, FinishRename,
         ReceiveReplay, Join, Bootstrap, WriteMeta
<1>5. Known'
  <2> SUFFICES ASSUME NEW k \in Instances, NEW f \in DOMAIN log,
                      \/ <<k, f>> \in applied'
                      \/ <<k, f>> \in fetching' /\ log[f].kind = "rename"
               PROVE  Present(k)'
    BY <1>2 DEF Known
  <2>1. CASE Present(k)
    BY <2>1, <1>3
  <2>2. CASE <<k, f>> \in applied'
    BY <2>2, <1>1, <1>3, <1>4 DEF ReachInv, Known, HandledRow
  <2>3. CASE <<k, f>> \in fetching' /\ log[f].kind = "rename"
    BY <2>3, <1>1, <1>3 DEF ReachInv, Known, HandledRow
  <2>4. QED
    BY <2>2, <2>3
\* Only handler j of e answers a row, and only the row of e.
<1>6. outbox \ {<<j, e>>} \subseteq outbox'
  BY DEF Receive, Finish, ReceiveAdd, ReceiveFirstAdd, FinishAdd,
         ReceiveRemove, ReceiveTransfer, ReceiveRename, FinishRename,
         ReceiveReplay, Join, Bootstrap, WriteMeta, Answered, Unanswered
<1>7. ASSUME "refused" \notin flaws', NEW u \in Users, Listed(u)'
      PROVE  Reached(Home[u])'
  <2>1. Listed(u)
    BY <1>1, <1>2, <1>7 DEF Listed, HandledRow
  <2>2. Home[u] \in Instances /\ Reached(Home[u])
    BY <2>1, <1>2, <1>7, GroupAssumption DEF ReachInv
  <2>3. CASE Present(Home[u])
    <3>1. owner'[Home[u]] # NoOne
      BY <2>2, <2>3, <1>3 DEF Present
    <3>2. QED
      BY <3>1 DEF Reached, Present
  <2>4. ASSUME NEW f \in DOMAIN log, log[f].kind = "add",
               <<Home[u], f>> \in outbox
        PROVE  Reached(Home[u])'
    <3>1. CASE <<Home[u], f>> \in outbox'
      BY <3>1, <2>4, <1>2 DEF Reached
    <3>2. CASE <<Home[u], f>> \notin outbox'
      <4>1. Home[u] = j /\ f = e
        BY <3>2, <2>4, <1>6
      <4>2. Present(j)'
        BY <4>1, <3>2, <2>4, <1>1, <1>7 DEF HandledRow
      <4>3. QED
        BY <4>1, <4>2 DEF Reached, Present
    <3>3. QED
      BY <3>1, <3>2
  <2>5. QED
    BY <2>2, <2>3, <2>4 DEF Reached
<1>8. QED
  BY <1>5, <1>7 DEF ReachInv

LEMMA ActReach ==
  ASSUME TypeOK, TypeOK', ReachInv, NEW i \in Instances, Act(i), Issued(i),
         \/ Founded(i)
         \/ KeptOwner(i)
         \/ \E v \in Users : HandedOver(i, v)
  PROVE  ReachInv'
<1>1. \A k \in Instances : Present(k) => Present(k)'
  BY ActPresent
<1>2. UNCHANGED <<applied, fetching>> /\ flaws \subseteq flaws'
  BY ActFetching DEF Issued
<1>3. Known'
  <2> SUFFICES ASSUME NEW k \in Instances, NEW f \in DOMAIN log',
                      \/ <<k, f>> \in applied
                      \/ <<k, f>> \in fetching /\ log'[f].kind = "rename"
               PROVE  Present(k)'
    BY <1>2 DEF Known
  <2>1. f \in DOMAIN log
    BY DEF TypeOK
  <2>2. log'[f] = log[f]
    BY <2>1 DEF Issued
  <2>3. QED
    BY <2>1, <2>2, <1>1 DEF ReachInv, Known
<1>4. ASSUME "refused" \notin flaws', NEW u \in Users, Listed(u)'
      PROVE  Reached(Home[u])'
  <2>1. Listed(u) \/ Reached(Home[u])'
    BY <1>4, ActListed
  <2>2. Home[u] \in Instances
    BY GroupAssumption
  <2>3. ASSUME Listed(u) PROVE Reached(Home[u])'
    <3>1. Reached(Home[u])
      BY <2>3, <1>2, <1>4 DEF ReachInv
    <3>2. CASE Present(Home[u])
      <4>1. owner'[Home[u]] # NoOne
        BY <3>2, <2>2, <1>1 DEF Present
      <4>2. QED
        BY <4>1 DEF Reached, Present
    <3>3. CASE ~Present(Home[u])
      BY <3>1, <3>3 DEF Reached, Issued
    <3>4. QED
      BY <3>2, <3>3
  <2>4. QED
    BY <2>1, <2>3
<1>5. QED
  BY <1>3, <1>4 DEF ReachInv

LEMMA ReachHolds == Spec => []ReachInv
<1>1. Init => ReachInv
  BY DEF Init, ReachInv, Known, Listed
<1>2. TypeOK /\ TypeOK' /\ ReachInv /\ [Next]_vars => ReachInv'
  <2> SUFFICES ASSUME TypeOK, TypeOK', ReachInv, [Next]_vars PROVE ReachInv'
    OBVIOUS
  <2>1. CASE UNCHANGED vars
    <3>1. Known'
      BY <2>1 DEF vars, ReachInv, Known, Present
    <3>2. \A u \in Users : Listed(u)' <=> Listed(u)
      BY <2>1 DEF vars, Listed
    <3>3. \A u \in Users : Reached(Home[u]) => Reached(Home[u])'
      BY <2>1 DEF vars, Reached, Present
    <3>4. QED
      BY <2>1, <3>1, <3>2, <3>3 DEF vars, ReachInv
  <2>2. ASSUME NEW i \in Instances, Act(i) PROVE ReachInv'
    BY <2>2, ActStep, ActReach
  <2>3. ASSUME NEW j \in Instances, NEW e \in DOMAIN log,
               Receive(j, e) \/ Finish(j, e)
        PROVE  ReachInv'
    BY <2>3, ReceiveStep, ReceiveReach
  <2>4. QED
    BY <2>1, <2>2, <2>3 DEF Next
<1>3. QED
  BY <1>1, <1>2, TypeCorrect, PTL DEF Spec

\* Once every event is delivered, each member has the group at home, unless a
\* first add was refused.
THEOREM EveryoneReached == Spec => []AddedAreReached
<1>1. TypeOK /\ ReachInv => AddedAreReached
  <2> SUFFICES ASSUME TypeOK, ReachInv, outbox = {}, "refused" \notin flaws,
                      NEW i \in Instances, NEW u \in members[i]
               PROVE  Present(Home[u])
    BY DEF AddedAreReached
  <2>1. u \in Users /\ Listed(u)
    BY DEF TypeOK, Listed
  <2>2. Reached(Home[u])
    BY <2>1 DEF ReachInv
  <2>3. QED
    BY <2>2 DEF Reached
<1>2. QED
  BY <1>1, TypeCorrect, ReachHolds, PTL
=============================================================================
