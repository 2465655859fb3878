------------------------- MODULE GroupDmNamesProofs -------------------------
(***************************************************************************)
(* Machine-checked agreement of GroupDm's instances about the group's      *)
(* name, for every set of instances and users, every placement of the      *)
(* users and every bound: when no new name is on its way, all instances    *)
(* show the same one, but for the ways to lose one that the model lists.   *)
(*                                                                         *)
(* The last name given is the newest: whoever gave an older one has either *)
(* still to hear of the last, or took it over its own and so had a clock   *)
(* that was behind.                                                        *)
(***************************************************************************)
EXTENDS GroupDmOwnersProofs

Renames == {e \in DOMAIN log : log[e].kind = "rename"}

LastName(f) == f \in Renames /\ \A g \in Renames : g <= f

\* j has nothing left to do about event f, or has applied it.
Settled(j, f) == ~InTransit(j, f) \/ <<j, f>> \in applied

\* The name the group was founded with, and those given since.
GivenNames == {log[1].meta} \cup {log[g].meta : g \in Renames}

-----------------------------------------------------------------------------
(* What issuing does to the names.                                         *)

\* Instance i gives a new name in event n.
Named(i, n) ==
  /\ Present(i)
  /\ n \notin DOMAIN log
  /\ DOMAIN log' = DOMAIN log \cup {n}
  /\ log'[n].kind = "rename"
  /\ log'[n].meta.by = i
  /\ log'[n].meta.stamp > 0
  /\ \A g \in Renames : log[g].src = i => log[g].meta.stamp < log'[n].meta.stamp
  /\ meta' = [meta EXCEPT ![i] = log'[n].meta]
  /\ Announced(i, n)

\* Instance i issues events that leave the name as it is.
KeptName(i) ==
  /\ Present(i) \/ log = << >>
  /\ UNCHANGED meta
  /\ \A f \in DOMAIN log' \ DOMAIN log :
       /\ log'[f].kind # "rename"
       /\ log'[f].kind = "add" => log'[f].meta = meta[i]
       /\ log = << >> => log'[f].kind = "add"

LEMMA Appended ==
  ASSUME TypeOK, NEW ev \in Event, log' = Append(log, ev)
  PROVE  /\ DOMAIN log' = DOMAIN log \cup {Len(log) + 1}
         /\ log'[Len(log) + 1] = ev
         /\ Len(log) + 1 \notin DOMAIN log
<1>1. log \in Seq(Event)
  BY DEF TypeOK
<1>2. Len(log) \in Nat /\ DOMAIN log = 1 .. Len(log)
  BY LogFacts
<1>3. log' \in Seq(Event) /\ Len(log') = Len(log) + 1 /\ log'[Len(log) + 1] = ev
  BY <1>1, AppendProperties
<1>4. DOMAIN log' = 1 .. Len(log) + 1
  BY <1>3, LenProperties
<1>5. QED
  BY <1>2, <1>3, <1>4

LEMMA CreateName ==
  ASSUME TypeOK, NEW i \in Instances, NEW u \in Users,
         NEW others \in SUBSET Users, NEW n \in Ids,
         NEW order \in [1 .. n -> Users], Create(i, u, others, order)
  PROVE  KeptName(i)
<1>1. DOMAIN order = 1 .. n
  OBVIOUS
<1>2. log = << >> /\ UNCHANGED meta
  BY DEF Create
<1>3. log' = [m \in DOMAIN order |->
                Added(i, order[m], u, others \cup {u}, meta[i])]
  BY DEF Create
<1>4. \A f \in DOMAIN log' : log'[f].kind = "add" /\ log'[f].meta = meta[i]
  BY <1>3 DEF Added
<1>5. QED
  BY <1>2, <1>4 DEF KeptName

LEMMA AddMemberName ==
  ASSUME TypeOK, NEW i \in Instances, NEW u \in Users, AddMember(i, u)
  PROVE  KeptName(i)
<1> DEFINE ev == Added(i, u, owner[i], members[i] \cup {u}, meta[i])
<1>1. ev \in Event /\ ev.kind = "add"
  <2>1. /\ members[i] \cup {u} \in SUBSET Users
        /\ owner[i] \in Users
        /\ meta[i] \in Meta
    BY DEF TypeOK, AddMember, Present
  <2>2. QED
    BY <2>1, AddedType
<1>2. ev.meta = meta[i]
  BY DEF Added
<1>3. Present(i) /\ UNCHANGED meta /\ log' = Append(log, ev)
  BY DEF AddMember
<1> HIDE DEF ev
<1>4. /\ DOMAIN log' = DOMAIN log \cup {Len(log) + 1}
      /\ log'[Len(log) + 1] = ev
  BY <1>1, <1>3, Appended
<1>5. QED
  BY <1>1, <1>2, <1>3, <1>4 DEF KeptName

\* Leaving, kicking and handing over tell of a member, with the name as it is.
LEMMA ToldName ==
  ASSUME TypeOK, NEW i \in Instances, NEW u \in Users,
         NEW kind \in {"leave", "kick", "transfer"}, Present(i),
         UNCHANGED meta, log' = Append(log, Told(kind, i, u, meta[i])),
         log # << >>
  PROVE  KeptName(i)
<1>1. meta[i] \in Meta
  BY DEF TypeOK
<1>2. /\ Told(kind, i, u, meta[i]) \in Event
      /\ Told(kind, i, u, meta[i]).kind = kind
  BY <1>1, ToldType
<1>3. /\ DOMAIN log' = DOMAIN log \cup {Len(log) + 1}
      /\ log'[Len(log) + 1] = Told(kind, i, u, meta[i])
  BY <1>2, Appended
<1>4. QED
  BY <1>2, <1>3 DEF KeptName

LEMMA LeaveAsOwnerName ==
  ASSUME TypeOK, NEW i \in Instances, NEW v \in Users, LeaveAsOwner(i, v),
         log # << >>
  PROVE  KeptName(i)
<1> DEFINE u == owner[i]
           ev == Told("leave", i, u, meta[i])
           ew == Told("transfer", i, v, meta[i])
           targets == Targets(i, members[i])
           rest == Targets(i, members[i] \ {u})
<1>1. /\ log' = log \o <<ev, ew>>
      /\ outbox' = outbox \cup RowsTo(targets, Len(log) + 1)
                          \cup RowsTo(rest, Len(log) + 2)
      /\ Len(log) + 1 < MaxEvents
      /\ UNCHANGED <<meta, applied>>
      /\ flaws \subseteq flaws'
      /\ Present(i)
  BY DEF LeaveAsOwner, Seat
<1>2. u \in Users /\ meta[i] \in Meta /\ members[i] \in SUBSET Users
  BY <1>1 DEF Present, TypeOK
<1>3. /\ ev \in Event /\ ev.src = i /\ ev.kind = "leave"
      /\ ew \in Event /\ ew.src = i /\ ew.kind = "transfer"
  BY <1>2, ToldType
<1>4. targets \in SUBSET (Instances \ {i}) /\ rest \in SUBSET (Instances \ {i})
  BY <1>2, TargetsReach
<1> HIDE DEF u, ev, ew, targets, rest
<1>5. /\ DOMAIN log' = DOMAIN log \cup {Len(log) + 1, Len(log) + 2}
      /\ log'[Len(log) + 1] = ev
      /\ log'[Len(log) + 2] = ew
  BY <1>1, <1>3, <1>4, IssueTwo
<1>6. QED
  BY <1>1, <1>3, <1>5 DEF KeptName

LEMMA RenameName ==
  ASSUME TypeOK, NEW i \in Instances, NEW stamp \in 1 .. MaxStamp,
         NEW name \in Names, NEW icon \in Icons,
         Rename(i, stamp, name, icon)
  PROVE  \E n : Named(i, n)
<1> DEFINE given == [by |-> i, stamp |-> stamp, name |-> name, icon |-> icon]
           ev == Told("rename", i, owner[i], given)
           targets == Remote(i, members[i])
           n == Len(log) + 1
<1>1. owner[i] \in Users /\ Present(i)
  BY DEF TypeOK, Rename, Seat, Present
<1>2. given \in Meta
  BY GroupAssumption DEF Meta
<1>3. ev \in Event /\ ev.kind = "rename" /\ ev.meta = given
  BY <1>1, <1>2, ToldType DEF Told
<1>4. /\ log' = Append(log, ev)
      /\ outbox' = outbox \cup RowsTo(targets, n)
      /\ meta' = [meta EXCEPT ![i] = given]
      /\ flaws' = flaws \cup MissedBy(i, targets)
      /\ \A g \in Renames : log[g].src = i => log[g].meta.stamp < stamp
  BY DEF Rename, Renames
<1>5. given.by = i /\ given.stamp = stamp /\ stamp > 0
  BY GroupAssumption
<1> HIDE DEF given, ev, targets
<1>6. /\ DOMAIN log' = DOMAIN log \cup {n}
      /\ log'[n] = ev
      /\ n \notin DOMAIN log
  BY <1>3, <1>4, Appended
<1> HIDE DEF n
<1>7. \A k \in targets : <<k, n>> \in outbox'
  BY <1>4 DEF RowsTo
<1>8. Announced(i, n)
  <2>1. CASE Missed(i, targets)
    BY <1>4, <2>1 DEF MissedBy, Announced
  <2>2. CASE ~Missed(i, targets)
    BY <1>7, <2>2 DEF Missed, Announced, InTransit
  <2>3. QED
    BY <2>1, <2>2
<1>9. Named(i, n)
  BY <1>1, <1>3, <1>4, <1>5, <1>6, <1>8 DEF Named
<1>10. QED
  BY <1>9

LEMMA ActName ==
  ASSUME TypeOK, IssuersPresent, NEW i \in Instances, Act(i)
  PROVE  KeptName(i) \/ \E n : Named(i, n)
<1>1. ASSUME Present(i) PROVE log # << >>
  BY <1>1 DEF IssuersPresent
<1>2. ASSUME NEW u \in Users, NEW others \in SUBSET Users, NEW n \in Ids,
             NEW order \in [1 .. n -> Users], Create(i, u, others, order)
      PROVE  KeptName(i)
  BY <1>2, CreateName
<1>3. ASSUME NEW u \in Users, AddMember(i, u) PROVE KeptName(i)
  BY <1>3, AddMemberName
<1>4. ASSUME NEW u \in Users, LeaveAsMember(i, u) PROVE KeptName(i)
  BY <1>1, <1>4, ToldName DEF LeaveAsMember
<1>5. ASSUME NEW u \in Users, LeaveAsOwner(i, u) PROVE KeptName(i)
  BY <1>1, <1>5, LeaveAsOwnerName DEF LeaveAsOwner, Seat
<1>6. ASSUME NEW u \in Users, Kick(i, u) PROVE KeptName(i)
  BY <1>1, <1>6, ToldName DEF Kick, Seat
<1>7. ASSUME NEW u \in Users, Transfer(i, u) PROVE KeptName(i)
  BY <1>1, <1>7, ToldName DEF Transfer, Seat
<1>8. ASSUME NEW stamp \in 1 .. MaxStamp, NEW name \in Names,
             NEW icon \in Icons, Rename(i, stamp, name, icon)
      PROVE  \E n : Named(i, n)
  BY <1>8, RenameName
<1>9. QED
  BY <1>2, <1>3, <1>4, <1>5, <1>6, <1>7, <1>8 DEF Act

-----------------------------------------------------------------------------
(* What handling does to the names.                                        *)

\* What every handler leaves: rows and downloads of other events, and the
\* channels there are.
Touches(j, e) ==
  /\ Handles(j, e)
  /\ fetching \ {<<j, e>>} \subseteq fetching'
  /\ \A k \in Instances : Present(k) => Present(k)'

Unrelated(j, e) ==
  /\ e \notin Renames
  /\ UNCHANGED meta
  /\ \A k \in Instances : Present(k)' <=> Present(k)

\* j creates its channel, with the snapshot's name.
Started(j, e) ==
  /\ log[e].kind = "add"
  /\ InTransit(j, e)
  /\ ~Present(j)
  /\ meta' = [meta EXCEPT ![j] = log[e].meta]
  /\ \A k \in Instances : Present(k)' => Present(k) \/ k = j
  /\ Behind(j, e) => "behind" \in flaws'

\* A rename is refused for good, or meets no channel.
NameLost == flaws' \cap {"renameDropped", "renameRefused"} # {}

\* j starts the download of a new name's icon.
Waits(j, e) ==
  /\ e \in Renames
  /\ UNCHANGED <<owner, meta, outbox, applied>>
  /\ fetching \subseteq fetching'

\* j has applied the rename, or finds it no newer than the name it has, or
\* newer and the same.
Ignores(j, e) ==
  /\ e \in Renames
  /\ Present(j)
  /\ UNCHANGED <<owner, meta, applied, fetching>>
  /\ \/ Processed(j, e)
     \/ ~Newer(j, e) /\ (SetEarlier(j, e) => "renameStale" \in flaws')
     \/ Newer(j, e) /\ Same(j, e)

Writes(j, e) ==
  /\ e \in Renames
  /\ Present(j)
  /\ UNCHANGED owner
  /\ meta' = [meta EXCEPT ![j] = log[e].meta]
  /\ applied' = applied \cup {<<j, e>>}
  /\ Newer(j, e) \/ "regressed" \in flaws'
  /\ Unversioned(j, e) => "unversioned" \in flaws'

LEMMA HandlerTouches ==
  ASSUME TypeOK, NEW j \in Instances, NEW e \in DOMAIN log,
         Receive(j, e) \/ Finish(j, e)
  PROVE  Touches(j, e)
<1>1. Handles(j, e)
  BY HandlerRows
<1>2. fetching \ {<<j, e>>} \subseteq fetching'
  BY DEF Receive, Finish, ReceiveAdd, ReceiveFirstAdd, FinishAdd,
         ReceiveRemove, ReceiveTransfer, ReceiveRename, FinishRename,
         ReceiveReplay
<1>3. \A k \in Instances : Present(k) => Present(k)'
  BY ReceiveStep, ReceivePresent
<1>4. QED
  BY <1>1, <1>2, <1>3 DEF Touches

LEMMA BootstrapName ==
  ASSUME TypeOK, NEW j \in Instances, NEW e \in DOMAIN log, Bootstrap(j, e),
         log[e].kind = "add", ~Present(j), InTransit(j, e)
  PROVE  Started(j, e)
<1>1. owner' = [owner EXCEPT ![j] = log[e].owner]
  BY DEF Bootstrap
<1>2. \A k \in Instances : k # j => owner'[k] = owner[k]
  BY <1>1 DEF TypeOK
<1>3. \A k \in Instances : Present(k)' => Present(k) \/ k = j
  BY <1>2 DEF Present
<1>4. QED
  BY <1>3 DEF Bootstrap, Started

LEMMA WriteMetaName ==
  ASSUME NEW j \in Instances, NEW e \in Renames, WriteMeta(j, e), Present(j),
         UNCHANGED owner
  PROVE  Writes(j, e)
<1>1. Newer(j, e) \/ "regressed" \in flaws'
  BY DEF WriteMeta
<1>2. Unversioned(j, e) => "unversioned" \in flaws'
  BY DEF WriteMeta
<1>3. QED
  BY <1>1, <1>2 DEF WriteMeta, Writes

LEMMA HandlerName ==
  ASSUME TypeOK, Known, NEW j \in Instances, NEW e \in DOMAIN log,
         Receive(j, e) \/ Finish(j, e)
  PROVE  \/ Unrelated(j, e)
         \/ Started(j, e)
         \/ NameLost
         \/ Waits(j, e)
         \/ Ignores(j, e)
         \/ Writes(j, e)
<1>1. CASE ReceiveAdd(j, e) \/ ReceiveRemove(j, e) \/ ReceiveReplay(j, e)
  BY <1>1 DEF ReceiveAdd, ReceiveRemove, ReceiveReplay, Unrelated, Renames,
              Present
<1>2. CASE ReceiveTransfer(j, e)
  <2>1. e \notin Renames /\ UNCHANGED meta
    BY <1>2 DEF ReceiveTransfer, Renames
  <2>2. log[e].who # NoOne
    BY Homes, GroupAssumption
  <2>3. \A k \in Instances : Present(k)' <=> Present(k)
    BY <1>2, <2>2 DEF ReceiveTransfer, Present, TypeOK
  <2>4. QED
    BY <2>1, <2>3 DEF Unrelated
<1>3. CASE ReceiveFirstAdd(j, e)
  <2>1. log[e].kind = "add" /\ ~Present(j) /\ InTransit(j, e)
    BY <1>3 DEF ReceiveFirstAdd, InTransit
  <2>2. CASE Bootstrap(j, e)
    BY <2>1, <2>2, BootstrapName
  <2>3. CASE UNCHANGED <<owner, meta>>
    BY <2>1, <2>3 DEF Unrelated, Renames, Present
  <2>4. QED
    BY <1>3, <2>2, <2>3 DEF ReceiveFirstAdd
<1>4. CASE FinishAdd(j, e)
  <2>1. log[e].kind = "add" /\ InTransit(j, e)
    BY <1>4 DEF FinishAdd, InTransit
  <2>2. CASE Bootstrap(j, e) /\ ~Present(j)
    BY <2>1, <2>2, BootstrapName
  <2>3. CASE UNCHANGED <<owner, meta>>
    BY <2>1, <2>3 DEF Unrelated, Renames, Present
  <2>4. QED
    BY <1>4, <2>2, <2>3 DEF FinishAdd
<1>5. CASE ReceiveRename(j, e)
  <2>1. e \in Renames /\ UNCHANGED owner
    BY <1>5 DEF ReceiveRename, Renames
  <2>2. CASE ~Present(j) \/ ~FromOwner(j, e)
    BY <1>5, <2>2 DEF ReceiveRename, NameLost
  <2>3. CASE Present(j) /\ FromOwner(j, e) /\ (~Newer(j, e) \/ Processed(j, e))
    BY <1>5, <2>1, <2>3 DEF ReceiveRename, Ignores
  <2>4. CASE Present(j) /\ FromOwner(j, e) /\ Newer(j, e) /\ ~Processed(j, e)
    <3>1. CASE Same(j, e) /\ UNCHANGED <<meta, applied, fetching>>
      BY <2>1, <2>4, <3>1 DEF Ignores
    <3>2. CASE /\ fetching' = fetching \cup {<<j, e>>}
               /\ UNCHANGED <<meta, applied, outbox>>
      BY <2>1, <3>2 DEF Waits
    <3>3. CASE WriteMeta(j, e)
      BY <2>1, <2>4, <3>3, WriteMetaName
    <3>4. QED
      BY <1>5, <2>4, <3>1, <3>2, <3>3 DEF ReceiveRename
  <2>5. QED
    BY <2>2, <2>3, <2>4
<1>6. CASE FinishRename(j, e)
  <2>1. Present(j)
    BY <1>6 DEF FinishRename, Known
  <2>2. e \in Renames /\ UNCHANGED owner /\ WriteMeta(j, e)
    BY <1>6 DEF FinishRename, Renames
  <2>3. QED
    BY <2>1, <2>2, WriteMetaName
<1>7. QED
  BY <1>1, <1>2, <1>3, <1>4, <1>5, <1>6 DEF Receive, Finish

-----------------------------------------------------------------------------
(* The inductive invariant.                                                *)

\* Whoever gave a name shows it or a newer one.
OwnNames ==
  \A g \in Renames : meta[log[g].src].stamp >= log[g].meta.stamp

\* j was told of the name it shows, and did not store the version.
Unstored(j, f) ==
  Shown(meta[j]) = Shown(log[f].meta) /\ <<j, f>> \notin applied

\* Whoever has nothing left to do about the last name shows it or a newer one.
LastHeard ==
  \A f \in Renames, j \in Instances :
    LastName(f) /\ Present(j) /\ Settled(j, f) =>
      meta[j].stamp >= log[f].meta.stamp \/ Unstored(j, f)

\* An instance that may start from a snapshot has still to be told of the names
\* given after it.
SnapshotsNamed ==
  \A j \in Instances, e \in DOMAIN log, f \in Renames :
    log[e].kind = "add" /\ ~Present(j) /\ InTransit(j, e) /\ e < f =>
      <<j, f>> \in outbox

\* All names shown or told are the founder's or given by a rename.
NamesKnown ==
  /\ log = << >> => \A i \in Instances : meta[i].stamp = 0
  /\ log # << >> =>
       /\ 1 \in DOMAIN log
       /\ log[1].kind = "add"
       /\ log[1].meta.stamp = 0
  /\ \A j \in Instances : Present(j) => meta[j] \in GivenNames
  /\ \A e \in DOMAIN log : log[e].kind = "add" => log[e].meta \in GivenNames

\* An instance's clock grows.
StampsGrow ==
  /\ \A g, h \in Renames :
       g < h /\ log[g].src = log[h].src =>
         log[g].meta.stamp < log[h].meta.stamp
  /\ \A g \in Renames : /\ log[g].meta.by = log[g].src
                        /\ log[g].meta.stamp > 0

LastNamed == Renames # {} => \E f \in Renames : LastName(f)

\* Whoever has nothing left to do about the last name, or shows it, gave only
\* older names.
LastIsNewest ==
  \A f, g \in Renames :
    /\ LastName(f)
    /\ g # f
    /\ \/ Settled(log[g].src, f)
       \/ meta[log[g].src] = log[f].meta
    => log[g].meta.stamp < log[f].meta.stamp

NamesSafe ==
  /\ OwnNames
  /\ LastHeard
  /\ SnapshotsNamed
  /\ NamesKnown
  /\ StampsGrow
  /\ LastNamed
  /\ LastIsNewest

Misnamed ==
  flaws \cap {"behind", "missed", "renameDropped", "renameRefused",
              "renameStale", "unversioned", "regressed"} # {}

NamesInv == ~Misnamed => NamesSafe

LEMMA Stamps ==
  ASSUME TypeOK
  PROVE  /\ \A j \in Instances : meta[j].stamp \in Nat
         /\ \A e \in DOMAIN log : log[e].meta.stamp \in Nat /\ e \in Nat
<1>1. \A m \in Meta : m.stamp \in Nat
  BY GroupAssumption DEF Meta
<1>2. \A e \in DOMAIN log : log[e].meta \in Meta /\ e \in Nat
  BY LogFacts DEF Event
<1>3. \A j \in Instances : meta[j] \in Meta
  BY DEF TypeOK
<1>4. QED
  BY <1>1, <1>2, <1>3

-----------------------------------------------------------------------------
(* Issuing keeps the invariant.                                            *)

LEMMA KeptNameKeeps ==
  ASSUME TypeOK, TypeOK', IssuersPresent, NamesSafe,
         NEW i \in Instances, Issued(i), UNCHANGED fetching, KeptName(i),
         \A k \in Instances : Present(k)' => Present(k) \/ k = i,
         \A k \in Instances : Present(k) => Present(k)'
  PROVE  NamesSafe'
<1>1. /\ DOMAIN log \subseteq DOMAIN log'
      /\ \A f \in DOMAIN log : log'[f] = log[f]
      /\ \A f \in DOMAIN log, g \in DOMAIN log' \ DOMAIN log : f < g
      /\ outbox \subseteq outbox' /\ applied' = applied
      /\ log' # << >>
  BY DEF Issued
<1>2. /\ Renames' = Renames
      /\ Renames \subseteq DOMAIN log
  BY <1>1 DEF Renames, KeptName
<1>3. \A f : LastName(f)' <=> LastName(f)
  BY <1>2 DEF LastName
<1>4. \A k \in Instances, f \in DOMAIN log : Settled(k, f)' <=> Settled(k, f)
  <2>1. \A k \in Instances, f \in DOMAIN log : InTransit(k, f)' <=> InTransit(k, f)
    BY IssuedTransfers
  <2>2. QED
    BY <1>1, <2>1 DEF Settled
<1>5. UNCHANGED meta
  BY DEF KeptName
<1>6. \A e \in DOMAIN log : log[e].src \in Instances /\ e \in Nat
  BY LogFacts DEF Event
<1>7. Present(i) \/ (log = << >> /\ Renames = {})
  BY DEF KeptName, Renames
<1>8. OwnNames'
  BY <1>1, <1>2, <1>5 DEF NamesSafe, OwnNames
<1>9. LastHeard'
  <2>1. \A k \in Instances : Present(k)' => Present(k) \/ Renames = {}
    BY <1>7
  <2>2. QED
    BY <2>1, <1>1, <1>2, <1>3, <1>4, <1>5 DEF NamesSafe, LastHeard, Unstored
<1>10. SnapshotsNamed'
  <2> SUFFICES ASSUME NEW j \in Instances, NEW e \in DOMAIN log',
                      NEW f \in Renames,
                      log'[e].kind = "add", ~Present(j)', InTransit(j, e)', e < f
               PROVE  <<j, f>> \in outbox'
    BY <1>2 DEF SnapshotsNamed
  <2>1. e \in DOMAIN log
    <3>1. f \in DOMAIN log /\ f \in Nat
      BY <1>2, <1>6
    <3>2. ASSUME e \notin DOMAIN log PROVE FALSE
      <4>1. f < e
        BY <1>1, <3>1, <3>2
      <4>2. e \in Nat
        BY LenProperties DEF TypeOK
      <4>3. QED
        BY <3>1, <4>1, <4>2
    <3>3. QED
      BY <3>2
  <2>2. ~Present(j) /\ InTransit(j, e) /\ log[e].kind = "add"
    BY <1>1, <2>1, IssuedTransfers
  <2>3. QED
    BY <1>1, <2>1, <2>2 DEF NamesSafe, SnapshotsNamed
<1>11. NamesKnown'
  <2>1. 1 \in DOMAIN log'
    <3>1. log' \in Seq(Event)
      BY DEF TypeOK
    <3>2. Len(log') \in Nat /\ DOMAIN log' = 1 .. Len(log')
      BY <3>1, LenProperties
    <3>3. Len(log') # 0
      BY <1>1, <3>1, EmptySeq
    <3>4. QED
      BY <3>2, <3>3
  <2>2. CASE log = << >>
    <3>1. /\ \A f \in DOMAIN log' : /\ log'[f].kind = "add"
                                    /\ log'[f].meta = meta[i]
          /\ meta[i].stamp = 0
      BY <2>2 DEF KeptName, NamesSafe, NamesKnown
    <3>2. \A k \in Instances : Present(k)' => k = i
      BY <2>2 DEF IssuersPresent
    <3>3. QED
      BY <1>1, <1>5, <2>1, <3>1, <3>2 DEF NamesKnown, GivenNames
  <2>3. CASE log # << >>
    <3>1. /\ 1 \in DOMAIN log
          /\ log[1].kind = "add"
          /\ log[1].meta.stamp = 0
          /\ \A k \in Instances : Present(k) => meta[k] \in GivenNames
          /\ \A e \in DOMAIN log : log[e].kind = "add" => log[e].meta \in GivenNames
      BY <2>3 DEF NamesSafe, NamesKnown
    <3>2. GivenNames' = GivenNames
      BY <1>1, <1>2, <3>1 DEF GivenNames
    <3>3. Present(i)
      BY <2>3 DEF KeptName
    <3>4. \A f \in DOMAIN log' \ DOMAIN log :
            log'[f].kind = "add" => log'[f].meta \in GivenNames
      BY <3>1, <3>3 DEF KeptName
    <3>5. \A k \in Instances : Present(k)' => meta'[k] \in GivenNames'
      BY <1>5, <3>1, <3>2, <3>3
    <3>6. \A e \in DOMAIN log' : log'[e].kind = "add" => log'[e].meta \in GivenNames'
      BY <1>1, <3>1, <3>2, <3>4
    <3>7. QED
      BY <1>1, <1>5, <2>1, <3>1, <3>5, <3>6 DEF NamesKnown
  <2>4. QED
    BY <2>2, <2>3
<1>12. StampsGrow'
  BY <1>1, <1>2 DEF NamesSafe, StampsGrow
<1>13. LastNamed'
  BY <1>2, <1>3 DEF NamesSafe, LastNamed
<1>14. LastIsNewest'
  BY <1>1, <1>2, <1>3, <1>4, <1>5, <1>6 DEF NamesSafe, LastIsNewest
<1>15. QED
  BY <1>8, <1>9, <1>10, <1>11, <1>12, <1>13, <1>14 DEF NamesSafe

LEMMA NamedKeeps ==
  ASSUME TypeOK, TypeOK', IssuersPresent, NamesSafe, "missed" \notin flaws',
         NEW i \in Instances, Issued(i), UNCHANGED fetching, NEW n, Named(i, n),
         \A k \in Instances : Present(k)' <=> Present(k)
  PROVE  NamesSafe'
<1> DEFINE new == log'[n].meta
<1>1. /\ DOMAIN log \subseteq DOMAIN log'
      /\ \A f \in DOMAIN log : log'[f] = log[f]
      /\ \A f \in DOMAIN log : f < n
      /\ outbox \subseteq outbox' /\ applied' = applied
      /\ log' # << >>
      /\ n \in DOMAIN log' /\ log'[n].src = i
  BY DEF Issued, Named
<1>2. /\ Renames' = Renames \cup {n}
      /\ Renames \subseteq DOMAIN log
      /\ n \notin DOMAIN log
      /\ DOMAIN log' = DOMAIN log \cup {n}
  BY <1>1 DEF Renames, Named
<1>3. /\ \A e \in DOMAIN log : /\ log[e].src \in Instances
                               /\ e \in Nat
                               /\ log[e].meta.stamp \in Nat
      /\ \A k \in Instances : meta[k].stamp \in Nat
  BY LogFacts, Stamps DEF Event
<1>4. n \in Nat /\ new.stamp \in Nat
  <2>1. log' \in Seq(Event)
    BY DEF TypeOK
  <2>2. DOMAIN log' = 1 .. Len(log') /\ Len(log') \in Nat
    BY <2>1, LenProperties
  <2>3. log'[n] \in Event
    BY <1>1, <2>1, <2>2, ElementOfSeq
  <2>4. QED
    BY <1>1, <2>2, <2>3, GroupAssumption DEF Event, Meta
<1>5. \A f : LastName(f)' <=> f = n
  BY <1>1, <1>2, <1>3, <1>4 DEF LastName
<1>6. /\ new.by = i
      /\ new.stamp > 0
      /\ \A g \in Renames : log[g].src = i => log[g].meta.stamp < new.stamp
      /\ meta' = [meta EXCEPT ![i] = new]
      /\ Present(i)
      /\ Announced(i, n)
  BY DEF Named
<1> HIDE DEF new
<1>7. /\ meta'[i] = new
      /\ \A k \in Instances \ {i} : meta'[k] = meta[k]
  BY <1>6 DEF TypeOK
<1>8. \A k \in Instances \ {i} :
        Present(k) \/ (\E f \in DOMAIN log : InTransit(k, f)) =>
          <<k, n>> \in outbox'
  BY <1>6 DEF Announced
<1>9. \A k \in Instances \ {i} : Present(k) => ~Settled(k, n)'
  <2>1. \A k : <<k, n>> \notin applied'
    BY <1>1, <1>2 DEF TypeOK
  <2>2. QED
    BY <1>8, <2>1 DEF Settled, InTransit
<1>10. OwnNames'
  <2>1. ASSUME NEW g \in Renames
        PROVE  meta'[log'[g].src].stamp >= log'[g].meta.stamp
    <3>1. /\ log'[g] = log[g] /\ log[g].src \in Instances
          /\ log[g].meta.stamp \in Nat
          /\ meta[log[g].src].stamp >= log[g].meta.stamp
      BY <1>1, <1>2, <1>3 DEF NamesSafe, OwnNames
    <3>2. CASE log[g].src = i
      BY <1>4, <1>6, <1>7, <3>1, <3>2
    <3>3. CASE log[g].src # i
      BY <1>7, <3>1, <3>3
    <3>4. QED
      BY <3>2, <3>3
  <2>2. meta'[log'[n].src].stamp >= log'[n].meta.stamp
    BY <1>1, <1>4, <1>7 DEF new
  <2>3. QED
    BY <1>2, <2>1, <2>2 DEF OwnNames
<1>11. LastHeard'
  <2>1. meta'[i].stamp >= log'[n].meta.stamp
    BY <1>4, <1>7 DEF new
  <2>2. QED
    BY <1>5, <1>9, <2>1 DEF LastHeard
<1>12. SnapshotsNamed'
  <2> SUFFICES ASSUME NEW j \in Instances, NEW e \in DOMAIN log',
                      NEW f \in Renames',
                      log'[e].kind = "add", ~Present(j)', InTransit(j, e)', e < f
               PROVE  <<j, f>> \in outbox'
    BY DEF SnapshotsNamed
  <2>1. e \in DOMAIN log
    BY <1>2 DEF Named
  <2>2. ~Present(j) /\ InTransit(j, e) /\ log[e].kind = "add" /\ j # i
    BY <1>1, <1>6, <2>1, IssuedTransfers
  <2>3. CASE f = n
    BY <1>8, <2>1, <2>2, <2>3
  <2>4. CASE f \in Renames
    BY <1>1, <2>1, <2>2, <2>4 DEF NamesSafe, SnapshotsNamed
  <2>5. QED
    BY <1>2, <2>3, <2>4
<1>13. NamesKnown'
  <2>1. log # << >>
    BY <1>6 DEF IssuersPresent
  <2>2. /\ 1 \in DOMAIN log
        /\ log[1].kind = "add"
        /\ log[1].meta.stamp = 0
        /\ \A k \in Instances : Present(k) => meta[k] \in GivenNames
        /\ \A e \in DOMAIN log : log[e].kind = "add" => log[e].meta \in GivenNames
    BY <2>1 DEF NamesSafe, NamesKnown
  <2>3. GivenNames \subseteq GivenNames'
    BY <1>1, <1>2, <2>2 DEF GivenNames
  <2>4. new \in GivenNames'
    BY <1>2 DEF GivenNames, new
  <2>5. \A k \in Instances : Present(k)' => meta'[k] \in GivenNames'
    <3> SUFFICES ASSUME NEW k \in Instances, Present(k)'
                 PROVE  meta'[k] \in GivenNames'
      OBVIOUS
    <3>1. CASE k = i
      BY <1>7, <2>4, <3>1 DEF GivenNames
    <3>2. CASE k # i
      <4>1. meta[k] \in GivenNames
        BY <2>2
      <4>2. meta'[k] = meta[k]
        BY <1>7, <3>2
      <4>3. QED
        BY <1>1, <1>2, <2>2, <4>1, <4>2 DEF GivenNames
    <3>3. QED
      BY <3>1, <3>2
  <2>6. \A e \in DOMAIN log : log[e].kind = "add" => log'[e].meta \in GivenNames'
    <3> SUFFICES ASSUME NEW e \in DOMAIN log, log[e].kind = "add"
                 PROVE  log'[e].meta \in GivenNames'
      OBVIOUS
    <3>1. log[e].meta \in GivenNames
      BY <2>2
    <3>2. QED
      BY <1>1, <1>2, <2>2, <3>1 DEF GivenNames
  <2>7. \A e \in DOMAIN log' : log'[e].kind = "add" => e \in DOMAIN log
    BY <1>2 DEF Named
  <2>8. QED
    BY <1>1, <1>2, <2>2, <2>5, <2>6, <2>7 DEF NamesKnown
<1>14. StampsGrow'
  <2>1. \A g \in Renames : log'[g] = log[g] /\ g < n
    BY <1>1, <1>2
  <2>2. log'[n].meta = new /\ log'[n].src = i
    BY <1>1 DEF new
  <2>3. \A g, h \in Renames' :
          g < h /\ log'[g].src = log'[h].src =>
            log'[g].meta.stamp < log'[h].meta.stamp
    <3> SUFFICES ASSUME NEW g \in Renames', NEW h \in Renames', g < h,
                        log'[g].src = log'[h].src
                 PROVE  log'[g].meta.stamp < log'[h].meta.stamp
      OBVIOUS
    <3>1. g \in Renames
      BY <1>2, <1>3, <1>4, <2>1
    <3>2. CASE h = n
      BY <1>6, <2>1, <2>2, <3>1, <3>2
    <3>3. CASE h \in Renames
      BY <2>1, <3>1, <3>3 DEF NamesSafe, StampsGrow
    <3>4. QED
      BY <1>2, <3>2, <3>3
  <2>4. \A g \in Renames' : /\ log'[g].meta.by = log'[g].src
                            /\ log'[g].meta.stamp > 0
    BY <1>2, <1>6, <2>1, <2>2 DEF NamesSafe, StampsGrow
  <2>5. QED
    BY <2>3, <2>4 DEF StampsGrow
<1>15. LastNamed'
  BY <1>2, <1>5 DEF LastNamed
<1>16. LastIsNewest'
  <2> SUFFICES ASSUME NEW g \in Renames,
                      \/ Settled(log[g].src, n)'
                      \/ meta'[log'[g].src] = log'[n].meta
               PROVE  log'[g].meta.stamp < log'[n].meta.stamp
    BY <1>2, <1>5 DEF LastIsNewest
  <2>1. log'[g] = log[g] /\ log[g].src \in Instances /\ g \in DOMAIN log
    BY <1>1, <1>2, <1>3
  <2>2. CASE log[g].src = i
    BY <1>6, <2>1, <2>2 DEF new
  <2>3. CASE log[g].src # i
    <3>1. Present(log[g].src)
      BY <2>1 DEF IssuersPresent
    <3>2. meta[log[g].src] = new
      BY <1>7, <1>9, <2>1, <2>3, <3>1 DEF new, Settled, InTransit
    <3>3. new \in GivenNames
      BY <2>1, <3>1, <3>2, <1>6 DEF NamesSafe, NamesKnown
    <3>4. new.stamp # 0
      BY <1>4, <1>6
    <3>5. PICK h \in Renames : new = log[h].meta
      BY <2>1, <3>3, <3>4 DEF GivenNames, NamesSafe, NamesKnown, IssuersPresent
    <3>6. log[h].src = i
      BY <1>6, <3>5 DEF NamesSafe, StampsGrow
    <3>7. QED
      BY <1>4, <1>6, <3>5, <3>6
  <2>4. QED
    BY <2>2, <2>3
<1>17. QED
  BY <1>10, <1>11, <1>12, <1>13, <1>14, <1>15, <1>16 DEF NamesSafe

-----------------------------------------------------------------------------
(* Handling keeps the invariant.                                           *)

LEMMA HandlingKeeps ==
  ASSUME TypeOK, NamesSafe, NEW j \in Instances, NEW e \in DOMAIN log,
         Touches(j, e), e \in Renames => Present(j) \/ UNCHANGED outbox
  PROVE  /\ log' = log
         /\ Renames' = Renames
         /\ \A f : LastName(f)' <=> LastName(f)
         /\ \A k \in Instances, f \in DOMAIN log :
              Settled(k, f)' => Settled(k, f) \/ (k = j /\ f = e)
         /\ SnapshotsNamed'
         /\ StampsGrow'
         /\ LastNamed'
         /\ GivenNames' = GivenNames
<1>1. log' = log
  BY DEF Touches, Handles
<1>2. Renames' = Renames /\ GivenNames' = GivenNames
  BY <1>1 DEF Renames, GivenNames
<1>3. \A f : LastName(f)' <=> LastName(f)
  BY <1>2 DEF LastName
<1>4. \A k \in Instances, f \in DOMAIN log :
        Settled(k, f)' => Settled(k, f) \/ (k = j /\ f = e)
  BY DEF Settled, InTransit, Touches, Handles
<1>5. SnapshotsNamed'
  <2> SUFFICES ASSUME NEW k \in Instances, NEW g \in DOMAIN log,
                      NEW f \in Renames,
                      log[g].kind = "add", ~Present(k)', InTransit(k, g)', g < f
               PROVE  <<k, f>> \in outbox'
    BY <1>1, <1>2 DEF SnapshotsNamed
  <2>1. ~Present(k) /\ InTransit(k, g)
    BY DEF Touches, Handles, InTransit
  <2>2. <<k, f>> \in outbox
    BY <2>1 DEF NamesSafe, SnapshotsNamed
  <2>3. QED
    BY <2>1, <2>2 DEF Touches, Handles
<1>6. StampsGrow' /\ LastNamed'
  BY <1>1, <1>2, <1>3 DEF NamesSafe, StampsGrow, LastNamed
<1>7. QED
  BY <1>1, <1>2, <1>3, <1>4, <1>5, <1>6

\* A step that shows no new name, and settles none that its instance does not
\* show yet, without its version perhaps.
LEMMA SameNamesKeep ==
  ASSUME TypeOK, NamesSafe, NEW j \in Instances, NEW e \in DOMAIN log,
         Touches(j, e), e \in Renames => Present(j) \/ UNCHANGED outbox,
         UNCHANGED meta, \A k \in Instances : Present(k)' <=> Present(k),
         e \in Renames => UNCHANGED applied,
         LastName(e) =>
           \/ Settled(j, e)' => Settled(j, e)
           \/ /\ meta[j].stamp >= log[e].meta.stamp
              /\ meta[j] = log[e].meta
           \/ Newer(j, e) /\ Same(j, e) /\ <<j, e>> \notin applied
  PROVE  NamesSafe'
<1>1. /\ log' = log
      /\ Renames' = Renames
      /\ \A f : LastName(f)' <=> LastName(f)
      /\ \A k \in Instances, f \in DOMAIN log :
           Settled(k, f)' => Settled(k, f) \/ (k = j /\ f = e)
      /\ SnapshotsNamed' /\ StampsGrow' /\ LastNamed'
      /\ GivenNames' = GivenNames
  BY HandlingKeeps
<1>2. Renames \subseteq DOMAIN log /\ \A g \in Renames : log[g].src \in Instances
  BY LogFacts DEF Renames, Event
<1>3. \A k \in Instances : \A f \in Renames :
        /\ LastName(f)
        /\ Settled(k, f)'
        => \/ Settled(k, f)
           \/ meta[k].stamp >= log[f].meta.stamp /\ meta[k] = log[f].meta
           \/ log[f].meta.stamp > meta[k].stamp /\ Unstored(k, f)
  BY <1>1, <1>2 DEF Unstored, Newer, Same
<1>4. OwnNames'
  BY <1>1 DEF NamesSafe, OwnNames
<1>5. LastHeard'
  <2> SUFFICES ASSUME NEW f \in Renames, NEW k \in Instances, LastName(f),
                      Present(k), Settled(k, f)'
               PROVE  meta[k].stamp >= log[f].meta.stamp \/ Unstored(k, f)'
    BY <1>1 DEF LastHeard
  <2>1. meta[k].stamp >= log[f].meta.stamp \/ Unstored(k, f)
    BY <1>3 DEF NamesSafe, LastHeard
  <2>2. <<k, f>> \in applied' => <<k, f>> \in applied
    BY DEF Touches, Handles
  <2>3. QED
    BY <1>1, <2>1, <2>2 DEF Unstored
<1>6. NamesKnown'
  BY <1>1 DEF NamesSafe, NamesKnown
<1>7. LastIsNewest'
  <2> SUFFICES ASSUME NEW f \in Renames, NEW g \in Renames, LastName(f), g # f,
                      NEW k \in Instances, k = log[g].src,
                      Settled(k, f)' \/ meta[k] = log[f].meta
               PROVE  log[g].meta.stamp < log[f].meta.stamp
    BY <1>1, <1>2 DEF LastIsNewest, Settled, InTransit
  <2>1. CASE Settled(k, f) \/ meta[k] = log[f].meta
    BY <2>1 DEF NamesSafe, LastIsNewest
  <2>2. CASE log[f].meta.stamp > meta[k].stamp
    <3>1. meta[k].stamp >= log[g].meta.stamp
      BY DEF NamesSafe, OwnNames
    <3>2. /\ k \in Instances
          /\ f \in DOMAIN log /\ g \in DOMAIN log
          /\ meta[k].stamp \in Nat
          /\ log[f].meta.stamp \in Nat
          /\ log[g].meta.stamp \in Nat
      BY <1>2, Stamps
    <3>3. QED
      BY <2>2, <3>1, <3>2
  <2>3. QED
    BY <1>3, <2>1, <2>2
<1>8. QED
  BY <1>1, <1>4, <1>5, <1>6, <1>7 DEF NamesSafe

\* j, showing the name told by e, gave only older names than the last if it has
\* nothing left to do about that one, or shows it.
OwnAreOlder(j, e) ==
  \A f, g \in Renames :
    /\ LastName(f)
    /\ g # f
    /\ log[g].src = j
    /\ Settled(j, f)' \/ log[e].meta = log[f].meta
    => log[g].meta.stamp < log[f].meta.stamp

\* A step after which its instance shows a newer name than before, or has just
\* got its channel.
LEMMA NewNameKeeps ==
  ASSUME TypeOK, NamesSafe, NEW j \in Instances, NEW e \in DOMAIN log,
         Touches(j, e), e \in Renames => Present(j) \/ UNCHANGED outbox,
         meta' = [meta EXCEPT ![j] = log[e].meta],
         log[e].meta \in GivenNames,
         \A k \in Instances : Present(k)' => Present(k) \/ k = j,
         \A g \in Renames :
           log[g].src = j => log[g].meta.stamp < log[e].meta.stamp,
         \A f \in Renames :
           LastName(f) /\ Settled(j, f)' =>
             log[e].meta.stamp >= log[f].meta.stamp,
         OwnAreOlder(j, e)
  PROVE  NamesSafe'
<1>1. /\ log' = log
      /\ Renames' = Renames
      /\ \A f : LastName(f)' <=> LastName(f)
      /\ \A k \in Instances, f \in DOMAIN log :
           Settled(k, f)' => Settled(k, f) \/ (k = j /\ f = e)
      /\ SnapshotsNamed' /\ StampsGrow' /\ LastNamed'
      /\ GivenNames' = GivenNames
  BY HandlingKeeps
<1>2. Renames \subseteq DOMAIN log /\ \A g \in Renames : log[g].src \in Instances
  BY LogFacts DEF Renames, Event
<1>3. /\ meta'[j] = log[e].meta
      /\ \A k \in Instances \ {j} : meta'[k] = meta[k]
  BY DEF TypeOK
<1>4. /\ \A g \in Renames : log[g].meta.stamp \in Nat
      /\ log[e].meta.stamp \in Nat
  BY <1>2, Stamps
<1>5. OwnNames'
  <2>1. ASSUME NEW g \in Renames
        PROVE  meta'[log[g].src].stamp >= log[g].meta.stamp
    <3>1. CASE log[g].src = j
      BY <1>3, <1>4, <3>1
    <3>2. CASE log[g].src # j
      BY <1>2, <1>3, <3>2 DEF NamesSafe, OwnNames
    <3>3. QED
      BY <3>1, <3>2
  <2>2. QED
    BY <1>1, <2>1 DEF OwnNames
<1>6. LastHeard'
  <2> SUFFICES ASSUME NEW f \in Renames, NEW k \in Instances, LastName(f),
                      Present(k)', Settled(k, f)'
               PROVE  meta'[k].stamp >= log[f].meta.stamp \/ Unstored(k, f)'
    BY <1>1 DEF LastHeard
  <2>1. CASE k = j
    BY <1>3, <2>1
  <2>2. CASE k # j
    <3>1. meta[k].stamp >= log[f].meta.stamp \/ Unstored(k, f)
      BY <1>1, <1>2, <2>2 DEF NamesSafe, LastHeard
    <3>2. <<k, f>> \in applied' => <<k, f>> \in applied
      BY <2>2 DEF Touches, Handles
    <3>3. QED
      BY <1>1, <1>3, <2>2, <3>1, <3>2 DEF Unstored
  <2>3. QED
    BY <2>1, <2>2
<1>7. NamesKnown'
  <2>1. log # << >>
    OBVIOUS
  <2>2. /\ 1 \in DOMAIN log
        /\ log[1].kind = "add"
        /\ log[1].meta.stamp = 0
        /\ \A k \in Instances : Present(k) => meta[k] \in GivenNames
        /\ \A g \in DOMAIN log : log[g].kind = "add" => log[g].meta \in GivenNames
    BY <2>1 DEF NamesSafe, NamesKnown
  <2>3. \A k \in Instances : Present(k)' => meta'[k] \in GivenNames
    BY <1>3, <2>2
  <2>4. QED
    BY <1>1, <2>1, <2>2, <2>3 DEF NamesKnown
<1>8. LastIsNewest'
  <2> SUFFICES ASSUME NEW f \in Renames, NEW g \in Renames, LastName(f), g # f,
                      NEW k \in Instances, k = log[g].src,
                      Settled(k, f)' \/ meta'[k] = log[f].meta
               PROVE  log[g].meta.stamp < log[f].meta.stamp
    BY <1>1, <1>2 DEF LastIsNewest, Settled, InTransit
  <2>1. CASE k = j
    BY <1>3, <2>1 DEF OwnAreOlder
  <2>2. CASE k # j
    <3>1. Settled(k, f) \/ meta[k] = log[f].meta
      BY <1>1, <1>2, <1>3, <2>2
    <3>2. QED
      BY <3>1 DEF NamesSafe, LastIsNewest
  <2>3. QED
    BY <2>1, <2>2
<1>9. QED
  BY <1>1, <1>5, <1>6, <1>7, <1>8 DEF NamesSafe

LEMMA StartedKeeps ==
  ASSUME TypeOK, IssuersPresent, Known, NamesSafe, "behind" \notin flaws',
         NEW j \in Instances, NEW e \in DOMAIN log, Touches(j, e), Started(j, e)
  PROVE  NamesSafe'
<1>1. /\ e \notin Renames
      /\ ~Present(j)
      /\ InTransit(j, e)
      /\ log[e].kind = "add"
      /\ ~Behind(j, e)
  BY DEF Started, Renames
<1>2. \A g \in Renames : /\ g \in DOMAIN log
                         /\ g \in Nat
                         /\ log[g].src # j
                         /\ log[g].meta.stamp \in Nat
  BY <1>1, Stamps DEF Renames, IssuersPresent
<1>3. log[e].meta \in GivenNames
  BY <1>1 DEF NamesSafe, NamesKnown
<1>4. e \in Nat /\ log[e].meta.stamp \in Nat
  BY Stamps
<1>5. ASSUME NEW f \in Renames, Settled(j, f)'
      PROVE  log[e].meta.stamp >= log[f].meta.stamp
  <2>1. Settled(j, f)
    BY <1>1, <1>2, <1>5, HandlingKeeps
  <2>2. <<j, f>> \notin applied
    BY <1>1, <1>2 DEF Known
  <2>3. <<j, f>> \notin outbox
    BY <2>1, <2>2 DEF Settled, InTransit
  <2>4. ~(e < f)
    BY <1>1, <2>3 DEF NamesSafe, SnapshotsNamed
  <2>5. f < e
    BY <1>1, <1>2, <1>4, <2>4
  <2>6. ~(log[f].meta.stamp > log[e].meta.stamp)
    BY <1>1, <1>2, <2>3, <2>5 DEF Behind, Renames
  <2>7. QED
    BY <1>2, <1>4, <2>6
<1>6. OwnAreOlder(j, e)
  BY <1>2 DEF OwnAreOlder
<1>7. QED
  BY <1>1, <1>2, <1>3, <1>5, <1>6, NewNameKeeps DEF Started

LEMMA IgnoresKeeps ==
  ASSUME TypeOK, NamesSafe, "renameStale" \notin flaws',
         NEW j \in Instances, NEW e \in DOMAIN log, Touches(j, e), Ignores(j, e)
  PROVE  NamesSafe'
<1>1. Present(j) /\ UNCHANGED <<owner, meta>>
  BY DEF Ignores
<1>2. \A k \in Instances : Present(k)' <=> Present(k)
  BY <1>1 DEF Present
<1>3. ASSUME LastName(e), ~Settled(j, e), ~Newer(j, e)
      PROVE  /\ meta[j].stamp >= log[e].meta.stamp
             /\ meta[j] = log[e].meta
  <2>1. ~Newer(j, e) /\ ~SetEarlier(j, e)
    BY <1>3 DEF Ignores, Settled, Processed
  <2>2. meta[j].stamp >= log[e].meta.stamp
    BY <2>1, Stamps DEF Newer
  <2>3. PICK f \in Renames : log[f].meta = meta[j] /\ ~(f < e)
    BY <2>1 DEF SetEarlier, Renames
  <2>4. f <= e /\ f \in Nat /\ e \in Nat
    BY <1>3, Stamps DEF LastName, Renames
  <2>5. QED
    BY <2>2, <2>3, <2>4
<1>4. ASSUME ~Settled(j, e), Newer(j, e)
      PROVE  Same(j, e) /\ <<j, e>> \notin applied
  BY <1>4 DEF Ignores, Settled, Processed
<1>5. UNCHANGED applied
  BY DEF Ignores
<1>6. QED
  BY <1>1, <1>2, <1>3, <1>4, <1>5, SameNamesKeep

LEMMA WritesKeeps ==
  ASSUME TypeOK, NamesSafe, flaws' \cap {"regressed", "unversioned"} = {},
         NEW j \in Instances, NEW e \in DOMAIN log, Touches(j, e), Writes(j, e)
  PROVE  NamesSafe'
<1>1. /\ Present(j)
      /\ e \in Renames
      /\ UNCHANGED owner
      /\ meta' = [meta EXCEPT ![j] = log[e].meta]
      /\ log[e].meta.stamp > meta[j].stamp
      /\ ~Unversioned(j, e)
  BY DEF Writes, Newer
<1>2. \A k \in Instances : Present(k)' => Present(k)
  BY <1>1 DEF Present
<1>3. log[e].meta \in GivenNames
  BY <1>1 DEF GivenNames
<1>4. /\ meta[j].stamp \in Nat
      /\ \A g \in Renames : log[g].meta.stamp \in Nat /\ g \in DOMAIN log
  BY <1>1, Stamps DEF Renames
<1>5. \A g \in Renames : log[g].src = j => log[g].meta.stamp <= meta[j].stamp
  BY <1>4 DEF NamesSafe, OwnNames
<1>6. ASSUME NEW f \in Renames, f # e, LastName(f), Settled(j, f)'
      PROVE  Settled(j, f) /\ log[e].meta.stamp >= log[f].meta.stamp
  <2>1. Settled(j, f)
    BY <1>1, <1>4, <1>6, HandlingKeeps
  <2>2. CASE meta[j].stamp >= log[f].meta.stamp
    BY <1>1, <1>4, <2>1, <2>2
  <2>3. CASE Unstored(j, f)
    <3>1. <<j, f>> \notin outbox \cup fetching \cup applied
      BY <2>1, <2>3 DEF Unstored, Settled, InTransit
    <3>2. e < f
      BY <1>1, <1>4, <1>6, Stamps DEF LastName
    <3>3. ~(log[f].meta.stamp > log[e].meta.stamp)
      BY <1>1, <1>4, <3>1, <3>2 DEF Unversioned, Renames
    <3>4. QED
      BY <1>1, <1>4, <2>1, <3>3
  <2>4. QED
    BY <1>1, <1>6, <2>1, <2>2, <2>3 DEF NamesSafe, LastHeard
<1>7. \A f \in Renames :
        LastName(f) /\ Settled(j, f)' => log[e].meta.stamp >= log[f].meta.stamp
  BY <1>1, <1>4, <1>6
<1>8. ASSUME NEW f \in Renames, NEW g \in Renames, LastName(f), g # f,
             log[g].src = j, Settled(j, f)' \/ log[e].meta = log[f].meta
      PROVE  log[g].meta.stamp < log[f].meta.stamp
  <2>1. CASE log[e].meta = log[f].meta
    BY <1>1, <1>4, <1>5, <1>8, <2>1
  <2>2. CASE Settled(j, f)' /\ f # e
    BY <1>6, <1>8, <2>2 DEF NamesSafe, LastIsNewest
  <2>3. QED
    BY <1>8, <2>1, <2>2
<1>9. \A g \in Renames : log[g].src = j => log[g].meta.stamp < log[e].meta.stamp
  BY <1>1, <1>4, <1>5
<1>10. OwnAreOlder(j, e)
  BY <1>8 DEF OwnAreOlder
<1>11. \A k \in Instances : Present(k)' => Present(k) \/ k = j
  BY <1>2
<1>12. QED
  BY <1>1, <1>3, <1>7, <1>9, <1>10, <1>11, NewNameKeeps

LEMMA HandlerNamesKeep ==
  ASSUME TypeOK, IssuersPresent, Known, NamesSafe, ~Misnamed',
         NEW j \in Instances, NEW e \in DOMAIN log,
         Receive(j, e) \/ Finish(j, e)
  PROVE  NamesSafe'
<1>1. Touches(j, e)
  BY HandlerTouches
<1>2. flaws' \cap {"behind", "renameDropped", "renameRefused", "renameStale",
                   "unversioned", "regressed"} = {}
  BY DEF Misnamed
<1>3. CASE Unrelated(j, e)
  <2>1. e \notin Renames /\ UNCHANGED meta
    BY <1>3 DEF Unrelated
  <2>2. \A k \in Instances : Present(k)' <=> Present(k)
    BY <1>3 DEF Unrelated
  <2>3. ~LastName(e)
    BY <2>1 DEF LastName
  <2>4. QED
    BY <1>1, <2>1, <2>2, <2>3, SameNamesKeep
<1>4. CASE Waits(j, e)
  <2>1. UNCHANGED <<meta, outbox>> /\ \A k \in Instances : Present(k)' <=> Present(k)
    BY <1>4 DEF Waits, Present
  <2>2. (Settled(j, e)' => Settled(j, e)) /\ UNCHANGED applied
    BY <1>4 DEF Waits, Settled, InTransit
  <2>3. QED
    BY <1>1, <2>1, <2>2, SameNamesKeep
<1>5. ~NameLost
  BY <1>2 DEF NameLost
<1>6. QED
  BY <1>1, <1>2, <1>3, <1>4, <1>5, HandlerName, StartedKeeps, IgnoresKeeps,
     WritesKeeps

LEMMA NamesInvStep == Inv /\ ReachInv /\ TypeOK' /\ NamesInv /\ [Next]_vars => NamesInv'
<1> SUFFICES ASSUME Inv, ReachInv, TypeOK', NamesInv, [Next]_vars, ~Misnamed'
             PROVE  NamesSafe'
  BY DEF NamesInv
<1>1. TypeOK /\ IssuersPresent /\ Known
  BY DEF Inv, ReachInv
<1>2. CASE UNCHANGED vars
  <2>1. /\ UNCHANGED <<owner, meta, log, outbox, applied, fetching>>
        /\ Misnamed' <=> Misnamed
        /\ Renames' = Renames
        /\ GivenNames' = GivenNames
    BY <1>2 DEF vars, Misnamed, Renames, GivenNames
  <2>2. NamesSafe
    BY <2>1 DEF NamesInv
  <2>3. \A f : LastName(f)' <=> LastName(f)
    BY <2>1 DEF LastName
  <2>4. /\ \A k \in Instances : Present(k)' <=> Present(k)
        /\ \A k, f : Settled(k, f)' <=> Settled(k, f)
        /\ \A k, f : InTransit(k, f)' <=> InTransit(k, f)
    BY <2>1 DEF Present, Settled, InTransit
  <2>5. OwnNames' /\ LastHeard' /\ SnapshotsNamed'
    BY <2>1, <2>2, <2>3, <2>4
    DEF NamesSafe, OwnNames, LastHeard, SnapshotsNamed, Unstored
  <2>6. NamesKnown' /\ StampsGrow' /\ LastNamed'
    BY <2>1, <2>2, <2>3, <2>4 DEF NamesSafe, NamesKnown, StampsGrow, LastNamed
  <2>7. LastIsNewest'
    BY <2>1, <2>2, <2>3 DEF NamesSafe, LastIsNewest, Settled, InTransit
  <2>8. QED
    BY <2>5, <2>6, <2>7 DEF NamesSafe
<1>3. ASSUME NEW i \in Instances, Act(i) PROVE NamesSafe'
  <2>1. /\ Issued(i)
        /\ \/ Founded(i)
           \/ KeptOwner(i)
           \/ \E v \in Users : HandedOver(i, v)
    BY <1>1, <1>3, ActStep
  <2>2. UNCHANGED fetching
    BY <1>3, ActFetching
  <2>3. NamesSafe
    <3>1. flaws \subseteq flaws'
      BY <2>1 DEF Issued
    <3>2. ~Misnamed
      BY <3>1 DEF Misnamed
    <3>3. QED
      BY <3>2 DEF NamesInv
  <2>4. \A k \in Instances : Present(k) => Present(k)'
    BY <1>1, <2>1, ActPresent
  <2>5. \A k \in Instances : Present(k)' => Present(k) \/ k = i
    BY <1>1, <2>1 DEF Founded, KeptOwner, HandedOver, Present, TypeOK
  <2>6. CASE KeptName(i)
    BY <1>1, <2>1, <2>2, <2>3, <2>4, <2>5, <2>6, KeptNameKeeps
  <2>7. ASSUME NEW n, Named(i, n) PROVE NamesSafe'
    <3>1. "missed" \notin flaws'
      BY DEF Misnamed
    <3>2. \A k \in Instances : Present(k)' <=> Present(k)
      BY <2>4, <2>5, <2>7 DEF Named
    <3>3. QED
      BY <1>1, <2>1, <2>2, <2>3, <2>7, <3>1, <3>2, NamedKeeps
  <2>8. QED
    BY <1>1, <1>3, <2>6, <2>7, ActName
<1>4. ASSUME NEW j \in Instances, NEW e \in DOMAIN log,
             Receive(j, e) \/ Finish(j, e)
      PROVE  NamesSafe'
  <2>1. flaws \subseteq flaws'
    BY <1>1, <1>4, HandlerTouches DEF Touches, Handles
  <2>2. NamesSafe
    BY <2>1 DEF NamesInv, Misnamed
  <2>3. QED
    BY <1>1, <1>4, <2>2, HandlerNamesKeep
<1>5. QED
  BY <1>2, <1>3, <1>4 DEF Next

LEMMA InitNames == Init => NamesInv
<1> SUFFICES ASSUME Init PROVE NamesSafe
  BY DEF NamesInv
<1>1. /\ log = << >>
      /\ \A i \in Instances : meta[i].stamp = 0 /\ ~Present(i)
  BY DEF Init, Present
<1>2. Renames = {}
  BY <1>1 DEF Renames
<1>3. QED
  BY <1>1, <1>2 DEF NamesSafe, OwnNames, LastHeard, SnapshotsNamed, NamesKnown,
     StampsGrow, LastNamed, LastIsNewest

LEMMA NamesInvHolds == Spec => []NamesInv
BY InitNames, NamesInvStep, InvHolds, ReachHolds, TypeCorrect, PTL DEF Spec

-----------------------------------------------------------------------------
(* What the instances agree on.                                            *)

\* When no new name is on its way all instances show one name: the last given,
\* but for the ways to lose one for good.
THEOREM NamesAgree == Spec => []NamesAgreeWhenQuiet
<1>1. Inv /\ NamesInv => NamesAgreeWhenQuiet
  <2> SUFFICES ASSUME Inv, NamesInv,
                      flaws \cap {"behind", "missed", "renameDropped",
                                  "renameRefused", "renameStale",
                                  "unversioned", "regressed"} = {},
                      NamesSettled,
                      NEW s \in Instances, NEW j \in Instances,
                      Seat(s), Present(j)
               PROVE  Shown(meta[j]) = Shown(meta[s])
    BY DEF NamesAgreeWhenQuiet
  <2>1. TypeOK /\ IssuersPresent /\ NamesSafe
    BY DEF Inv, NamesInv, Misnamed
  <2>2. Present(s) /\ log # << >>
    BY <2>1 DEF Seat, IssuersPresent
  <2>3. meta[s] \in GivenNames /\ meta[j] \in GivenNames
    BY <2>1, <2>2 DEF NamesSafe, NamesKnown
  <2>4. CASE Renames = {}
    BY <2>3, <2>4 DEF GivenNames
  <2>5. CASE Renames # {}
    <3>1. PICK f \in Renames : LastName(f)
      BY <2>1, <2>5 DEF NamesSafe, LastNamed
    <3>2. \A k \in Instances : Settled(k, f)
      BY DEF NamesSettled, Settled, InTransit, Renames
    <3>3. ASSUME NEW k \in Instances, Present(k),
                 meta[k].stamp >= log[f].meta.stamp
          PROVE  meta[k] = log[f].meta
      <4>1. meta[k].stamp >= log[f].meta.stamp
        BY <3>3
      <4>2. /\ log[f].meta.stamp \in Nat
            /\ log[f].meta.stamp > 0
            /\ log[1].meta.stamp = 0
        BY <2>1, <2>2, <3>1, Stamps DEF NamesSafe, StampsGrow, NamesKnown, Renames
      <4>3. PICK g \in Renames : meta[k] = log[g].meta
        BY <2>1, <3>3, <4>1, <4>2 DEF NamesSafe, NamesKnown, GivenNames
      <4>4. log[g].src \in Instances /\ log[g].meta.stamp \in Nat
        BY <2>1, LogFacts, Stamps DEF Renames, Event
      <4>5. g # f => log[g].meta.stamp < log[f].meta.stamp
        BY <2>1, <3>1, <3>2, <4>4 DEF NamesSafe, LastIsNewest
      <4>6. QED
        BY <4>1, <4>2, <4>3, <4>4, <4>5
    <3>4. ASSUME NEW k \in Instances, Present(k)
          PROVE  Shown(meta[k]) = Shown(log[f].meta)
      <4>1. meta[k].stamp >= log[f].meta.stamp \/ Unstored(k, f)
        BY <2>1, <3>1, <3>2, <3>4 DEF NamesSafe, LastHeard
      <4>2. QED
        BY <3>3, <3>4, <4>1 DEF Unstored
    <3>5. QED
      BY <2>2, <3>4
  <2>6. QED
    BY <2>4, <2>5
<1>2. QED
  BY <1>1, InvHolds, NamesInvHolds, PTL
=============================================================================
