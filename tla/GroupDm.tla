------------------------------- MODULE GroupDm -------------------------------
(***************************************************************************)
(* A group conversation replicated on several instances: one dm_channels   *)
(* row and one set of dm_members per instance, kept together by relayed    *)
(* events.  A member acts on the instance it is homed at, and its client   *)
(* sends owner-only requests to the owner's instance.  Each event reaches  *)
(* the other instances through the outbox rows of its issuer, which are    *)
(* retried with a backoff of their own: a row may overtake an older one    *)
(* (RelayOutbox), and an answer may be lost.                               *)
(*                                                                         *)
(* An instance holds the seat when it believes that one of its own users   *)
(* owns the group; only there are kick, transfer and rename possible.      *)
(*                                                                         *)
(* Covered: creation, adding, leaving with the owner's automatic transfer, *)
(* kicking, transfer, renaming and the four inbound handlers, with the     *)
(* icon download two of them wait for.  Left out: messages in the group,   *)
(* expiry of rows after the TTL, deletion of accounts, the purge of an     *)
(* empty group after 24 hours, calls.  An inbound event that is rejected   *)
(* for a reason that is not terminal changes nothing and its row stays:    *)
(* it has no action.                                                       *)
(***************************************************************************)
EXTENDS Naturals, Sequences, FiniteSets

CONSTANTS
  Instances,
  Users,
  Home,        \* the instance each user is homed at
  NoOne,       \* owner where there is no channel
  Names,       \* names a group may be given
  NoName,      \* the null name of a group that has none
  Icons,       \* pictures a group may be given
  NoIcon,      \* the null icon
  MaxMembers,  \* members of a group (10 in the code)
  Founders,    \* bound: instances the group may be created on
  MaxEvents,   \* bound: events issued
  MaxStamp,    \* bound: the instances' clocks
  Lossy,       \* bound: instances whose answers may be lost
  MaxUnheard   \* bound: answers lost

ASSUME GroupAssumption ==
  /\ Home \in [Users -> Instances]
  /\ NoOne \notin Users
  /\ NoName \in Names
  /\ NoIcon \in Icons
  /\ Founders \subseteq Instances
  /\ Lossy \subseteq Instances
  /\ MaxMembers \in Nat
  /\ MaxEvents \in Nat
  /\ MaxStamp \in Nat
  /\ MaxUnheard \in Nat

VARIABLES
  owner,     \* dm_channels.owner_id and owner_home_*, per instance
  members,   \* dm_members, per instance
  meta,      \* dm_channels.name, icon and metadata_updated_at, per instance
  log,       \* history: the events issued, an event's id being its index
  outbox,    \* <<to, id>>: rows waiting at the issuer of the event
  applied,   \* <<at, id>>: a system message carries the event's coordinates
  fetching,  \* <<at, id>>: handlers waiting for the icon's download
  unheard,   \* answers lost so far
  flaws      \* history: what went wrong in the delivery, see Flaws

vars ==
  <<owner, members, meta, log, outbox, applied, fetching, unheard, flaws>>

\* The name and the icon shown, their version and, as history, the instance
\* that set them.  An icon that is set has to be downloaded by the others.
Meta == [by : Instances, stamp : 0 .. MaxStamp, name : Names, icon : Icons]

Shown(m) == <<m.name, m.icon>>

\* "who" is the user added, removed or made owner; the last three fields are
\* the snapshot a member_add carries.
Event == [kind : {"add", "leave", "kick", "transfer", "rename"},
          src : Instances, who : Users,
          owner : Users, roster : SUBSET Users, meta : Meta]

Ids == 1 .. MaxEvents

Flaws == {"dropped", "seatDropped", "ahead", "behind", "missed", "overtaken",
          "refused",
          "renameDropped", "renameRefused", "renameStale", "unversioned",
          "regressed"}

TypeOK ==
  /\ owner \in [Instances -> Users \cup {NoOne}]
  /\ members \in [Instances -> SUBSET Users]
  /\ meta \in [Instances -> Meta]
  /\ log \in Seq(Event)
  /\ Len(log) <= MaxEvents
  /\ outbox \subseteq Instances \X DOMAIN log
  /\ applied \subseteq Instances \X DOMAIN log
  /\ fetching \subseteq Instances \X DOMAIN log
  /\ unheard \in 0 .. MaxUnheard
  /\ flaws \subseteq Flaws

Init ==
  /\ owner = [i \in Instances |-> NoOne]
  /\ members = [i \in Instances |-> {}]
  /\ meta = [i \in Instances |-> [by |-> i, stamp |-> 0, name |-> NoName,
                                icon |-> NoIcon]]
  /\ log = << >>
  /\ outbox = {}
  /\ applied = {}
  /\ fetching = {}
  /\ unheard = 0
  /\ flaws = {}

Present(i) == owner[i] # NoOne

Seat(i) == Present(i) /\ Home[owner[i]] = i

-----------------------------------------------------------------------------
(* Issuing events.                                                         *)

\* Mutant of Remote: users where origins are meant.
RemoteUsers(i, roster) == {u \in roster : Home[u] # i}

Remote(i, roster) == {Home[u] : u \in roster} \ {i}

\* No remote participant gives no list of targets, and an outbox event
\* without a list goes to every peer.
Targets(i, roster) ==
  IF Remote(i, roster) = {} THEN Instances \ {i} ELSE Remote(i, roster)

RowsTo(targets, e) == {<<j, e>> : j \in targets}

\* A transfer or a new name is not sent to an instance that has the channel,
\* or that an event is already on its way to.
Missed(i, targets) ==
  \E j \in Instances \ (targets \cup {i}) :
    Present(j) \/ \E e \in DOMAIN log : <<j, e>> \in outbox \cup fetching

MissedBy(i, targets) == IF Missed(i, targets) THEN {"missed"} ELSE {}

Added(i, u, o, roster, m) ==
  [kind |-> "add", src |-> i, who |-> u, owner |-> o, roster |-> roster,
   meta |-> m]

Told(kind, i, u, m) ==
  [kind |-> kind, src |-> i, who |-> u, owner |-> u, roster |-> {},
   meta |-> m]

\* POST /api/dm/group: one member_add per remote member, each to all targets.
\* A group that was local until its first remote member is one created with
\* that member.
Create(i, u, others, order) ==
  LET roster == others \cup {u} IN
  /\ log = << >>
  /\ i \in Founders
  /\ Home[u] = i
  /\ u \notin others
  /\ Cardinality(others) >= 2
  /\ Cardinality(roster) <= MaxMembers
  /\ order # << >>
  /\ Len(order) <= MaxEvents
  /\ {order[n] : n \in DOMAIN order} = {v \in others : Home[v] # i}
  /\ \A m, n \in DOMAIN order : order[m] = order[n] => m = n
  /\ owner' = [owner EXCEPT ![i] = u]
  /\ members' = [members EXCEPT ![i] = roster]
  /\ log' = [n \in DOMAIN order |-> Added(i, order[n], u, roster, meta[i])]
  /\ outbox' = Remote(i, roster) \X DOMAIN order
  /\ UNCHANGED <<meta, applied, fetching, unheard, flaws>>

\* Mutant of AddMember: the new member's instance is not told.
AddMemberUntold(i, u) ==
  LET roster == members[i] \cup {u} IN
  /\ Present(i)
  /\ \E v \in members[i] : Home[v] = i
  /\ u \notin members[i]
  /\ Cardinality(members[i]) < MaxMembers
  /\ Len(log) < MaxEvents
  /\ members' = [members EXCEPT ![i] = roster]
  /\ log' = Append(log, Added(i, u, owner[i], roster, meta[i]))
  /\ outbox' = outbox \cup RowsTo(Targets(i, members[i]), Len(log) + 1)
  /\ UNCHANGED <<owner, meta, applied, fetching, unheard, flaws>>

\* POST /api/dm/:id/members: any member may add.
AddMember(i, u) ==
  LET roster == members[i] \cup {u} IN
  /\ Present(i)
  /\ \E v \in members[i] : Home[v] = i
  /\ u \notin members[i]
  /\ Cardinality(members[i]) < MaxMembers
  /\ Len(log) < MaxEvents
  /\ members' = [members EXCEPT ![i] = roster]
  /\ log' = Append(log, Added(i, u, owner[i], roster, meta[i]))
  /\ outbox' = outbox \cup RowsTo(Targets(i, roster), Len(log) + 1)
  /\ UNCHANGED <<owner, meta, applied, fetching, unheard, flaws>>

\* removeDmMember for a user who does not own the group, or is alone in it.
LeaveAsMember(i, u) ==
  /\ Present(i)
  /\ u \in members[i]
  /\ Home[u] = i
  /\ owner[i] = u => members[i] = {u}
  /\ Len(log) < MaxEvents
  /\ members' = [members EXCEPT ![i] = @ \ {u}]
  /\ log' = Append(log, Told("leave", i, u, meta[i]))
  /\ outbox' = outbox \cup RowsTo(Targets(i, members[i]), Len(log) + 1)
  /\ UNCHANGED <<owner, meta, applied, fetching, unheard, flaws>>

\* removeDmMember for the owner: the first member left becomes the owner.
LeaveAsOwner(i, v) ==
  LET u == owner[i]
      rest == members[i] \ {u} IN
  /\ Seat(i)
  /\ u \in members[i]
  /\ v \in rest
  /\ Len(log) + 1 < MaxEvents
  /\ members' = [members EXCEPT ![i] = rest]
  /\ owner' = [owner EXCEPT ![i] = v]
  /\ log' = log \o << Told("leave", i, u, meta[i]),
                       Told("transfer", i, v, meta[i]) >>
  /\ outbox' = outbox \cup RowsTo(Targets(i, members[i]), Len(log) + 1)
                      \cup RowsTo(Targets(i, rest), Len(log) + 2)
  /\ flaws' = flaws \cup MissedBy(i, Targets(i, rest))
  /\ UNCHANGED <<meta, applied, fetching, unheard>>

\* DELETE /api/dm/:id/members/:user.  The owner need not be a member.
Kick(i, u) ==
  /\ Seat(i)
  /\ u \in members[i]
  /\ u # owner[i]
  /\ Len(log) < MaxEvents
  /\ members' = [members EXCEPT ![i] = @ \ {u}]
  /\ log' = Append(log, Told("kick", i, u, meta[i]))
  /\ outbox' = outbox \cup RowsTo(Targets(i, members[i]), Len(log) + 1)
  /\ UNCHANGED <<owner, meta, applied, fetching, unheard, flaws>>

\* Mutant of Transfer: the new owner's instance is not told.
TransferToOthers(i, u) ==
  LET targets == Targets(i, members[i]) \ {Home[u]} IN
  /\ Seat(i)
  /\ u \in members[i]
  /\ u # owner[i]
  /\ Len(log) < MaxEvents
  /\ owner' = [owner EXCEPT ![i] = u]
  /\ log' = Append(log, Told("transfer", i, u, meta[i]))
  /\ outbox' = outbox \cup RowsTo(targets, Len(log) + 1)
  /\ flaws' = flaws \cup MissedBy(i, targets)
  /\ UNCHANGED <<members, meta, applied, fetching, unheard>>

\* POST /api/dm/:id/transfer.
Transfer(i, u) ==
  LET targets == Targets(i, members[i]) IN
  /\ Seat(i)
  /\ u \in members[i]
  /\ u # owner[i]
  /\ Len(log) < MaxEvents
  /\ owner' = [owner EXCEPT ![i] = u]
  /\ log' = Append(log, Told("transfer", i, u, meta[i]))
  /\ outbox' = outbox \cup RowsTo(targets, Len(log) + 1)
  /\ flaws' = flaws \cup MissedBy(i, targets)
  /\ UNCHANGED <<members, meta, applied, fetching, unheard>>

\* PATCH /api/dm/:id.  What is shown already is not set again, but for an icon:
\* the same picture may be a new upload.  The clock of an instance grows, those
\* of two instances need not agree.
Rename(i, stamp, name, icon) ==
  LET given == [by |-> i, stamp |-> stamp, name |-> name, icon |-> icon] IN
  /\ Seat(i)
  /\ owner[i] \in members[i]
  /\ Shown(given) # Shown(meta[i]) \/ icon # NoIcon
  /\ \A e \in DOMAIN log :
       log[e].kind = "rename" /\ log[e].src = i => log[e].meta.stamp < stamp
  /\ Len(log) < MaxEvents
  /\ meta' = [meta EXCEPT ![i] = given]
  /\ log' = Append(log, Told("rename", i, owner[i], given))
  /\ outbox' = outbox \cup RowsTo(Remote(i, members[i]), Len(log) + 1)
  /\ flaws' = flaws \cup MissedBy(i, Remote(i, members[i]))
  /\ UNCHANGED <<owner, members, applied, fetching, unheard>>

-----------------------------------------------------------------------------
(* Inbound events.                                                         *)

\* The issuer deletes the row when it hears the answer.
Answered(j, e) ==
  \/ outbox' = outbox \ {<<j, e>>} /\ UNCHANGED unheard
  \/ /\ j \in Lossy
     /\ unheard < MaxUnheard
     /\ unheard' = unheard + 1
     /\ UNCHANGED outbox

Unanswered == UNCHANGED <<outbox, unheard>>

\* Mutant of Processed: replays are not recognised.
ProcessedNever(j, e) == FALSE

\* Mutant of Processed: an event is told by its kind, its issuer and the user
\* it is about, without the time.
ProcessedTimeless(j, e) ==
  \E f \in DOMAIN log : /\ <<j, f>> \in applied
                        /\ log[f].kind = log[e].kind
                        /\ log[f].src = log[e].src
                        /\ log[f].who = log[e].who

\* A system message of this event is stored.  A rename has one for its name and
\* one for its icon, told apart here only if a replay meets an older version
\* than its own, that is after "regressed".
Processed(j, e) == <<j, e>> \in applied

\* Mutant of FromOwner: any peer may speak for the owner.
FromAnyone(j, e) == TRUE

\* Mutant of FromOwner: a transfer stores the owner's home in a form that
\* matches no source.
FromOwnerBare(j, e) ==
  /\ Home[owner[j]] = log[e].src
  /\ \A f \in DOMAIN log : log[f].kind = "transfer" => <<j, f>> \notin applied

\* The channel's owner is homed at the issuer of the event.
FromOwner(j, e) == Home[owner[j]] = log[e].src

\* verifyAttribution: the user belongs to the issuer or to this instance.
Attributed(u, e, j) == Home[u] \in {log[e].src, j}

\* The tail of processMemberAddEvent.  The limit is checked before membership:
\* a full group refuses even a member it has.
Join(j, e, roster) ==
  IF Cardinality(roster) >= MaxMembers
  THEN /\ members' = [members EXCEPT ![j] = roster]
       /\ applied' = applied /\ Unanswered
  ELSE /\ members' = [members EXCEPT ![j] = roster \cup {log[e].who}]
       /\ applied' = applied \cup {<<j, e>>}
       /\ Answered(j, e)

\* The snapshot is newer than a transfer that has not been delivered yet.
Ahead(j, e) ==
  \E f \in DOMAIN log : /\ <<j, f>> \in outbox
                        /\ log[f].kind = "transfer"
                        /\ f < e

\* The snapshot's name is older than one j is not told of.
Behind(j, e) ==
  \E f \in DOMAIN log : /\ <<j, f>> \notin outbox
                        /\ log[f].kind = "rename"
                        /\ log[f].meta.stamp > log[e].meta.stamp
                        /\ f < e

Bootstrap(j, e) ==
  /\ owner' = [owner EXCEPT ![j] = log[e].owner]
  /\ meta' = [meta EXCEPT ![j] = log[e].meta]
  /\ Join(j, e, log[e].roster)
  /\ flaws' = flaws \cup (IF Ahead(j, e) THEN {"ahead"} ELSE {})
                    \cup (IF Behind(j, e) THEN {"behind"} ELSE {})
  /\ UNCHANGED log

\* processMemberAddEvent where the channel exists.
ReceiveAdd(j, e) ==
  /\ <<j, e>> \in outbox
  /\ log[e].kind = "add"
  /\ Present(j)
  /\ ~Processed(j, e)
  /\ Join(j, e, members[j])
  /\ UNCHANGED <<owner, meta, log, fetching, flaws>>

\* processMemberAddEvent where it does not.  A refusal is terminal.
ReceiveFirstAdd(j, e) ==
  /\ <<j, e>> \in outbox
  /\ log[e].kind = "add"
  /\ ~Present(j)
  /\ \/ /\ ~Attributed(log[e].owner, e, j)
        /\ Answered(j, e)
        /\ flaws' = flaws \cup {"refused"}
        /\ UNCHANGED <<owner, members, meta, log, applied, fetching>>
     \/ /\ Attributed(log[e].owner, e, j)
        /\ log[e].meta.icon # NoIcon
        /\ fetching' = fetching \cup {<<j, e>>}
        /\ UNCHANGED <<owner, members, meta, log, outbox, applied, unheard,
                       flaws>>
     \/ /\ Attributed(log[e].owner, e, j)
        /\ log[e].meta.icon = NoIcon
        /\ Bootstrap(j, e)
        /\ UNCHANGED fetching

\* After the download.  Another handler may have made the channel: the insert
\* throws and the row stays.
FinishAdd(j, e) ==
  /\ <<j, e>> \in fetching
  /\ log[e].kind = "add"
  /\ fetching' = fetching \ {<<j, e>>}
  /\ IF Present(j)
     THEN UNCHANGED <<owner, members, meta, log, outbox, applied, unheard,
                      flaws>>
     ELSE Bootstrap(j, e)

\* processMemberRemoveEvent.  A user this instance has never met is skipped.
ReceiveRemove(j, e) ==
  LET u == log[e].who IN
  /\ <<j, e>> \in outbox
  /\ log[e].kind \in {"leave", "kick"}
  /\ ~Processed(j, e)
  /\ Answered(j, e)
  /\ \/ /\ ~Present(j)
        /\ UNCHANGED <<members, applied>>
     \/ /\ Present(j)
        /\ log[e].kind = "kick" => FromOwner(j, e)
        /\ u \notin members[j]
        /\ UNCHANGED <<members, applied>>
     \/ /\ Present(j)
        /\ log[e].kind = "kick" => FromOwner(j, e)
        /\ members' = [members EXCEPT ![j] = @ \ {u}]
        /\ applied' = applied \cup {<<j, e>>}
  /\ UNCHANGED <<owner, meta, log, fetching, flaws>>

\* An earlier transfer of the same issuer is still on its way to j.
Overtaken(j, e) ==
  \E f \in DOMAIN log : /\ <<j, f>> \in outbox \ applied
                        /\ log[f].kind = "transfer"
                        /\ log[f].src = log[e].src
                        /\ f < e

\* processOwnershipTransferEvent.
ReceiveTransfer(j, e) ==
  /\ <<j, e>> \in outbox
  /\ log[e].kind = "transfer"
  /\ ~Processed(j, e)
  /\ Answered(j, e)
  /\ \/ /\ ~Present(j)
        /\ flaws' = flaws \cup
             {IF Home[log[e].who] = j THEN "seatDropped" ELSE "dropped"}
        /\ UNCHANGED <<owner, applied>>
     \/ /\ Present(j)
        /\ FromOwner(j, e)
        /\ owner' = [owner EXCEPT ![j] = log[e].who]
        /\ applied' = applied \cup {<<j, e>>}
        /\ flaws' = flaws \cup IF Overtaken(j, e) THEN {"overtaken"} ELSE {}
  /\ UNCHANGED <<members, meta, log, fetching>>

\* Mutant of Newer: the version is not compared.
NewerAlways(j, e) == TRUE

Newer(j, e) == log[e].meta.stamp > meta[j].stamp

\* The name stored was set before this one, by a clock that is ahead.
SetEarlier(j, e) ==
  \A f \in DOMAIN log :
    log[f].kind = "rename" /\ log[f].meta = meta[j] => f < e

\* The event tells nothing new: its name and icon are the ones stored.
Same(j, e) == Shown(log[e].meta) = Shown(meta[j])

\* A later and newer name was accepted here without being written.
Unversioned(j, e) ==
  \E f \in DOMAIN log : /\ log[f].kind = "rename"
                        /\ log[f].meta.stamp > log[e].meta.stamp
                        /\ e < f
                        /\ <<j, f>> \notin outbox \cup fetching \cup applied

\* The transaction of processGroupMetadataUpdateEvent.  Its system messages are
\* unique: of two handlers that wait for the same download the second rolls
\* back, so that "fetching" is a set.
WriteMeta(j, e) ==
  /\ meta' = [meta EXCEPT ![j] = log[e].meta]
  /\ applied' = applied \cup {<<j, e>>}
  /\ Answered(j, e)
  /\ flaws' = flaws \cup (IF Newer(j, e) THEN {} ELSE {"regressed"})
                    \cup (IF Unversioned(j, e) THEN {"unversioned"} ELSE {})

\* processGroupMetadataUpdateEvent up to the download.  A newer event that
\* tells nothing new is accepted and its version is not stored.  An icon in
\* place here is a copy with a name of its own and differs from the one told,
\* unless its download had failed: the address told was kept then.
ReceiveRename(j, e) ==
  /\ <<j, e>> \in outbox
  /\ log[e].kind = "rename"
  /\ \/ /\ ~Present(j)
        /\ Answered(j, e)
        /\ flaws' = flaws \cup {"renameDropped"}
        /\ UNCHANGED <<meta, applied, fetching>>
     \/ /\ Present(j) /\ ~FromOwner(j, e)
        /\ Answered(j, e)
        /\ flaws' = flaws \cup {"renameRefused"}
        /\ UNCHANGED <<meta, applied, fetching>>
     \/ /\ Present(j) /\ FromOwner(j, e) /\ ~Newer(j, e)
        /\ Answered(j, e)
        /\ flaws' = flaws \cup IF ~Processed(j, e) /\ SetEarlier(j, e)
                               THEN {"renameStale"} ELSE {}
        /\ UNCHANGED <<meta, applied, fetching>>
     \/ /\ Present(j) /\ FromOwner(j, e) /\ Newer(j, e)
        /\ Same(j, e) \/ Processed(j, e)
        /\ Answered(j, e)
        /\ UNCHANGED <<meta, applied, fetching, flaws>>
     \/ /\ Present(j) /\ FromOwner(j, e) /\ Newer(j, e) /\ ~Processed(j, e)
        /\ log[e].meta.icon # NoIcon
        /\ fetching' = fetching \cup {<<j, e>>}
        /\ UNCHANGED <<meta, applied, outbox, unheard, flaws>>
     \/ /\ Present(j) /\ FromOwner(j, e) /\ Newer(j, e) /\ ~Processed(j, e)
        /\ ~Same(j, e)
        /\ log[e].meta.icon \in {NoIcon, meta[j].icon}
        /\ WriteMeta(j, e)
        /\ UNCHANGED fetching
  /\ UNCHANGED <<owner, members, log>>

\* After the download, authority and version are not looked at again.
FinishRename(j, e) ==
  /\ <<j, e>> \in fetching
  /\ log[e].kind = "rename"
  /\ WriteMeta(j, e)
  /\ fetching' = fetching \ {<<j, e>>}
  /\ UNCHANGED <<owner, members, log>>

\* A replay that the handler recognises is accepted.
ReceiveReplay(j, e) ==
  /\ <<j, e>> \in outbox
  /\ log[e].kind # "rename"
  /\ Processed(j, e)
  /\ outbox' = outbox \ {<<j, e>>}
  /\ UNCHANGED <<owner, members, meta, log, applied, fetching, unheard, flaws>>

-----------------------------------------------------------------------------
Act(i) ==
  \/ \E u \in Users :
       \/ /\ log = << >>
          /\ \E others \in SUBSET Users, n \in Ids :
               \E order \in [1 .. n -> Users] : Create(i, u, others, order)
       \/ AddMember(i, u)
       \/ LeaveAsMember(i, u)
       \/ LeaveAsOwner(i, u)
       \/ Kick(i, u)
       \/ Transfer(i, u)
  \/ \E stamp \in 1 .. MaxStamp, name \in Names, icon \in Icons :
       Rename(i, stamp, name, icon)

Receive(j, e) ==
  \/ ReceiveAdd(j, e)
  \/ ReceiveFirstAdd(j, e)
  \/ ReceiveRemove(j, e)
  \/ ReceiveTransfer(j, e)
  \/ ReceiveRename(j, e)
  \/ ReceiveReplay(j, e)

Finish(j, e) == FinishAdd(j, e) \/ FinishRename(j, e)

Next ==
  \/ \E i \in Instances : Act(i)
  \/ \E j \in Instances, e \in DOMAIN log : Receive(j, e) \/ Finish(j, e)

Spec == Init /\ [][Next]_vars

-----------------------------------------------------------------------------
(* Properties.                                                             *)

\* A transfer that its new owner's instance has still to take.
Token(j, e) ==
  /\ <<j, e>> \in outbox \ applied
  /\ log[e].kind = "transfer"
  /\ Home[log[e].who] = j

\* No two instances hold the seat: a transfer is taken once, and only from the
\* instance that this one believes to own the group.  The exception is a
\* member_add whose snapshot already names a local user as owner and which
\* overtook the transfer: the transfer is refused, retried, and taken when the
\* ownership has long gone back (routes/federation/events/membership.ts).
OneOwnerSeat ==
  "ahead" \notin flaws => \A i, j \in Instances : Seat(i) /\ Seat(j) => i = j

\* While no instance holds the seat, a transfer is on its way to one, unless
\* that one accepted it without having the channel and forgot it.
SeatNotLost ==
  log # << >> =>
    \/ \E i \in Instances : Seat(i)
    \/ \E j \in Instances, e \in DOMAIN log : Token(j, e)
    \/ "seatDropped" \in flaws

\* j would take no transfer that is on its way to it.
OwnerSettled(j) ==
  \A e \in DOMAIN log :
    /\ <<j, e>> \in outbox \ applied
    /\ log[e].kind = "transfer"
    => Present(j) /\ ~FromOwner(j, e)

\* The transfer that carries the seat is never refused for good: when each
\* instance refuses what is left to deliver, one of them holds the seat.  An
\* instance that dropped an earlier transfer, or was not told of it, may refuse
\* the one made to it; after a snapshot that was ahead there may be two seats,
\* whose transfers can strand each other.
SeatFoundWhenQuiet ==
  /\ log # << >>
  /\ flaws \cap {"dropped", "seatDropped", "missed", "ahead"} = {}
  /\ \A j \in Instances : OwnerSettled(j)
  => \E i \in Instances : Seat(i)

\* Transfers that reach a third instance from different issuers, in any order,
\* lead it to the instance that holds the seat; to the very owner, unless two
\* transfers of one issuer changed places.  An instance loses track by
\* starting from a snapshot, or by not being told.
OwnersAgreeWhenQuiet ==
  flaws \cap {"dropped", "ahead", "missed"} = {} =>
    \A s, j \in Instances :
      Seat(s) /\ Present(j) /\ OwnerSettled(j) =>
        /\ Home[owner[j]] = s
        /\ "overtaken" \notin flaws => owner[j] = owner[s]

\* No new name is on its way.
NamesSettled ==
  \A j \in Instances, e \in DOMAIN log :
    <<j, e>> \in outbox \cup fetching => log[e].kind # "rename"

\* All instances show the name the owner's instance shows, whatever the order
\* of renames, transfers and downloads, but for the ways listed: each of them
\* loses a name for good.
NamesAgreeWhenQuiet ==
  /\ flaws \cap {"behind", "missed", "renameDropped", "renameRefused",
                 "renameStale", "unversioned", "regressed"} = {}
  /\ NamesSettled
  => \A s, j \in Instances :
       Seat(s) /\ Present(j) => Shown(meta[j]) = Shown(meta[s])

\* Whoever is listed as a member anywhere has the group at home once every
\* event is delivered, unless an instance refused to bootstrap a group from
\* an adder who is not at the owner's instance.
AddedAreReached ==
  /\ outbox = {}
  /\ "refused" \notin flaws
  => \A i \in Instances : \A u \in members[i] : Present(Home[u])

\* No event from elsewhere takes the seat away: it leaves by a transfer its
\* holder issues.
SeatLeavesByTransfer ==
  [][\A i \in Instances :
       Seat(i) /\ ~Seat(i)' =>
         \E e \in DOMAIN log' \ DOMAIN log :
           log'[e].kind = "transfer" /\ log'[e].src = i]_vars

\* The parts of the seat's life, as SeatPromise tells them.
Forked == "ahead" \in flaws

Holders == {i \in Instances : ~Forked /\ Seat(i)}

BoundFor == {j \in Instances : ~Forked /\ \E e \in DOMAIN log : Token(j, e)}

\* A transfer to j was issued and is over, and j has no channel.
Forgotten ==
  {j \in Instances \ BoundFor :
     /\ ~Forked
     /\ ~Present(j)
     /\ \E e \in DOMAIN log : log[e].kind = "transfer" /\ Home[log[e].who] = j}

Promise == INSTANCE SeatPromise WITH
  founded <- log # << >>,
  forked <- Forked,
  holders <- Holders,
  bound <- BoundFor,
  forgotten <- Forgotten

\* The seat is a baton: handed over by its holder, taken by the one it is meant
\* for, and once forgotten found by that one only, until a snapshot is ahead.
SeatIsBaton == Promise!PromiseSpec
==============================================================================
