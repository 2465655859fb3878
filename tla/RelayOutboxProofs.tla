------------------------- MODULE RelayOutboxProofs -------------------------
(***************************************************************************)
(* Machine-checked safety of RelayOutbox, for every set of peers and       *)
(* messages, every number of edits, every threshold and any number of      *)
(* requests given up: the type invariant, the keys of the two tables, the  *)
(* implementation of RelayPromise, that a peer at rest holds what the      *)
(* author left, and that a copy goes back to an older version only when a  *)
(* request the worker no longer waits for arrives.                         *)
(***************************************************************************)
EXTENDS RelayOutbox, TLAPS

-----------------------------------------------------------------------------
(* Typing of the sets the actions build.                                   *)

\* What an author's write leaves behind is an authored message again.
LEMMA WriteType ==
  ASSUME TypeOK, NEW m \in Msgs, WriteNew(m) \/ WriteEdit(m) \/ WriteDelete(m)
  PROVE  /\ authored' \in [Msgs -> AuthoredMessage]
         /\ authored[m].ver \in Versions
         /\ WriteEdit(m) => authored[m].ver + 1 \in Versions
<1> USE MaxEditsAssumption DEF TypeOK, AuthoredMessage, Versions
<1>1. authored[m] \in [state : {"none", "live", "deleted"}, ver : 0 .. MaxEdits]
  OBVIOUS
<1>2. CASE WriteNew(m)
  BY <1>1, <1>2 DEF WriteNew, WriteEdit
<1>3. CASE WriteEdit(m)
  BY <1>1, <1>3 DEF WriteEdit
<1>4. CASE WriteDelete(m)
  BY <1>1, <1>4 DEF WriteDelete, WriteEdit
<1>5. QED
  BY <1>2, <1>3, <1>4

\* Queueing an event only leaves rows of the table's type.
LEMMA QueuedType ==
  ASSUME TypeOK, NEW m \in Msgs, NEW type \in EventTypes, NEW ver \in Versions
  PROVE  Queued(m, type, ver) \subseteq Row
<1>1. ASSUME NEW p \in Peers
      PROVE  Coalesced(p, m, type, ver) \subseteq Row
  <2> DEFINE created == \E r \in RowsOf(p, m) : r.type = "create"
             kept == IF created THEN "create" ELSE type
  <2>1. kept \in EventTypes
    BY DEF EventTypes
  <2>2. [peer |-> p, msg |-> m, type |-> kept, ver |-> ver, due |-> TRUE] \in Row
    BY <2>1 DEF Row
  <2>3. Coalesced(p, m, type, ver)
          \subseteq {[peer |-> p, msg |-> m, type |-> kept, ver |-> ver,
                      due |-> TRUE]}
    BY Zenon DEF Coalesced
  <2>4. QED
    BY <2>2, <2>3
<1>2. QED
  BY <1>1 DEF Queued, TypeOK

\* Backing rows off only changes whether they are due.
LEMMA BackedOffType ==
  ASSUME TypeOK, NEW p \in Peers
  PROVE  BackedOff(p) \subseteq Row
BY DEF BackedOff, TypeOK, Row

\* Giving a request up keeps the set of late events typed.
LEMMA GiveUpType ==
  ASSUME TypeOK, GiveUp(todo)
  PROVE  late' \subseteq Event
BY DEF TypeOK, GiveUp

\* Applying one event keeps the replica typed.
LEMMA ApplyType ==
  ASSUME TypeOK, NEW e \in Event, ApplyEvent(e)
  PROVE  replica' \subseteq Copy
<1>1. [peer |-> e.peer, msg |-> e.msg, ver |-> e.ver] \in Copy
  BY DEF Event, Copy
<1>2. QED
  BY <1>1 DEF TypeOK, ApplyEvent, DedupeCreate, InsertCreate, ApplyUpdate,
              ApplyDelete

\* The events that remain after one was served are events.
LEMMA RemainingType ==
  ASSUME NEW events \in SUBSET Event, NEW e \in Event
  PROVE  Remaining(events, e) \subseteq Event
BY DEF Remaining, Event

\* A refused create leaves its request, and nothing else changes.
LEMMA RefusalDrops ==
  ASSUME NEW e, RefuseEvent(e) \/ RefuseLateEvent(e)
  PROVE  /\ UNCHANGED <<authored, replica, status, failures, authFailures, outbox,
                         snapshot, posting, batch, accepted, duplicate, sent, gap>>
         /\ todo' \subseteq todo
         /\ late' \subseteq late
BY DEF RefuseEvent, RefuseLateEvent, RefuseCreate, author, peerRows, worker,
       request, history

-----------------------------------------------------------------------------
\* Every table, counter and request of the relay keeps its type, whatever the
\* order of handlers, worker steps and peer steps.
THEOREM TypeCorrect == Spec => []TypeOK
<1>1. Init => TypeOK
  BY MaxEditsAssumption
  DEF Init, PromiseInit, TypeOK, AuthoredMessage, Versions, PeerStatus
<1>2. TypeOK /\ [Next]_vars => TypeOK'
  <2> SUFFICES ASSUME TypeOK, [Next]_vars
               PROVE  TypeOK'
    OBVIOUS
  <2>1. ASSUME NEW m \in Msgs, SendMessage(m)
        PROVE  TypeOK'
    <3>1. authored' \in [Msgs -> AuthoredMessage]
      BY <2>1, WriteType DEF SendMessage
    <3>2. Queued(m, "create", 0) \subseteq Row
      BY MaxEditsAssumption, QueuedType DEF EventTypes, Versions
    <3>3. QED
      BY <2>1, <3>1, <3>2
      DEF SendMessage, Queue, TypeOK, peerRows, worker, request, Overlapped
  <2>2. ASSUME NEW m \in Msgs, EditMessage(m)
        PROVE  TypeOK'
    <3>1. authored' \in [Msgs -> AuthoredMessage]
      BY <2>2, WriteType DEF EditMessage
    <3>2. Queued(m, "update", authored[m].ver + 1) \subseteq Row
      BY <2>2, WriteType, QueuedType DEF EditMessage, EventTypes
    <3>3. QED
      BY <2>2, <3>1, <3>2
      DEF EditMessage, Queue, TypeOK, peerRows, worker, request, Overlapped
  <2>3. ASSUME NEW m \in Msgs, DeleteMessage(m)
        PROVE  TypeOK'
    <3>1. authored' \in [Msgs -> AuthoredMessage]
      BY <2>3, WriteType DEF DeleteMessage
    <3>2. Queued(m, "delete", authored[m].ver) \subseteq Row
      BY <2>3, WriteType, QueuedType DEF DeleteMessage, EventTypes
    <3>3. QED
      BY <2>3, <3>1, <3>2
      DEF DeleteMessage, Queue, TypeOK, peerRows, worker, request, Overlapped
  <2>4. ASSUME NEW m \in Msgs, CrashInHandler(m)
        PROVE  TypeOK'
    <3>1. authored' \in [Msgs -> AuthoredMessage]
      BY <2>4, WriteType DEF CrashInHandler
    <3>2. late' \subseteq Event
      BY <2>4, GiveUpType DEF CrashInHandler
    <3>3. QED
      BY <2>4, <3>1, <3>2 DEF CrashInHandler, Idle, TypeOK, peerRows
  <2>5. CASE SelectDue
    BY <2>5 DEF SelectDue, TypeOK, Row, Entry, author, peerRows, request, history
  <2>6. CASE WorkerRestart
    <3>1. late' \subseteq Event
      BY <2>6, GiveUpType DEF WorkerRestart
    <3>2. QED
      BY <2>6, <3>1 DEF WorkerRestart, Idle, TypeOK, author, peerRows, history
  <2>7. ASSUME NEW p \in Peers, PostRelay(p)
        PROVE  TypeOK'
    <3>1. EntriesFor(p) \subseteq Entry
      BY DEF EntriesFor, TypeOK
    <3>2. \A e \in EntriesFor(p) :
            /\ e.msg \in Msgs
            /\ [peer |-> p, msg |-> e.msg, type |-> e.type, ver |-> e.ver,
                checked |-> FALSE] \in Event
      BY <3>1 DEF Entry, Event
    <3>3. todo' \subseteq Event
      BY <2>7, <3>2 DEF PostRelay
    <3>4. batch' \subseteq Msgs
      BY <2>7, <3>2 DEF PostRelay
    <3>5. sent' \subseteq Peers \X Msgs
      <4>1. {<<p, e.msg>> : e \in EntriesFor(p)} \subseteq Peers \X Msgs
        <5> SUFFICES ASSUME NEW e \in EntriesFor(p)
                     PROVE  <<p, e.msg>> \in Peers \X Msgs
          OBVIOUS
        <5>1. e.msg \in Msgs
          BY <3>2
        <5>2. QED
          BY <5>1
      <4>2. sent \subseteq Peers \X Msgs
        BY DEF TypeOK
      <4>3. QED
        BY <2>7, <4>1, <4>2 DEF PostRelay
    <3>6. QED
      BY <2>7, <3>3, <3>4, <3>5 DEF PostRelay, TypeOK, author, peerRows
  <2>8. ASSUME NEW p \in Peers, DeliveryAnswered(p)
        PROVE  TypeOK'
    BY <2>8 DEF DeliveryAnswered, Idle, TypeOK, author
  <2>9. ASSUME NEW p \in Peers, DeliveryFailed(p)
        PROVE  TypeOK'
    <3>1. late' \subseteq Event
      BY <2>9, GiveUpType DEF DeliveryFailed
    <3>2. outbox' \subseteq Row
      BY <2>9, BackedOffType DEF DeliveryFailed
    <3>3. status' \in [Peers -> PeerStatus] /\ failures' \in [Peers -> Nat]
      BY <2>9 DEF DeliveryFailed, TypeOK, PeerStatus
    <3>4. QED
      BY <2>9, <3>1, <3>2, <3>3 DEF DeliveryFailed, Idle, TypeOK, author, history
  <2>10. ASSUME NEW p \in Peers, DeliveryRefused(p)
         PROVE  TypeOK'
    <3>1. outbox' \subseteq Row
      BY <2>10, BackedOffType DEF DeliveryRefused, TypeOK
    <3>2. status' \in [Peers -> PeerStatus] /\ authFailures' \in [Peers -> Nat]
      BY <2>10 DEF DeliveryRefused, TypeOK, PeerStatus
    <3>3. QED
      BY <2>10, <3>1, <3>2 DEF DeliveryRefused, Idle, TypeOK, author, history
  <2>11. ASSUME NEW p \in Peers, PeerRecovers(p)
         PROVE  TypeOK'
    <3>1. outbox' \subseteq Row
      <4>1. ASSUME NEW r \in outbox
            PROVE  [r EXCEPT !.due = r.due \/ r.peer = p] \in Row
        <5>1. r \in Row /\ (r.due \/ r.peer = p) \in BOOLEAN
          BY DEF TypeOK
        <5> DEFINE due == r.due \/ r.peer = p
        <5>2. due \in BOOLEAN
          BY <5>1
        <5>3. \A b \in BOOLEAN : [r EXCEPT !.due = b] \in Row
          BY <5>1 DEF Row
        <5>4. [r EXCEPT !.due = due] \in Row
          BY <5>2, <5>3
        <5>5. QED
          BY <5>4
      <4>2. outbox' = {[r EXCEPT !.due = r.due \/ r.peer = p] : r \in outbox}
        BY <2>11 DEF PeerRecovers
      <4>3. QED
        BY <4>1, <4>2
    <3>2. status' \in [Peers -> PeerStatus]
      BY <2>11 DEF PeerRecovers, TypeOK, PeerStatus
    <3>3. failures' \in [Peers -> Nat] /\ authFailures' \in [Peers -> Nat]
      BY <2>11 DEF PeerRecovers, TypeOK
    <3>4. QED
      BY <2>11, <3>1, <3>2, <3>3
      DEF PeerRecovers, TypeOK, author, worker, request, history
  <2>12. ASSUME NEW p \in Peers, InboundRelay(p)
         PROVE  TypeOK'
    BY <2>12 DEF InboundRelay, TypeOK, author, worker, request, history
  <2>13. ASSUME NEW r \in outbox, BackoffElapses(r)
         PROVE  TypeOK'
    <3>1. outbox' \subseteq Row
      BY <2>13 DEF BackoffElapses, TypeOK, Row
    <3>2. QED
      BY <2>13, <3>1
      DEF BackoffElapses, TypeOK, author, peerRows, worker, request, history
  <2>14. ASSUME NEW e \in todo, ServeEvent(e)
         PROVE  TypeOK'
    <3>1. e \in Event
      BY DEF TypeOK
    <3>2. replica' \subseteq Copy
      BY <2>14, <3>1, ApplyType DEF ServeEvent
    <3>3. todo' \subseteq Event
      BY <2>14, <3>1, RemainingType DEF ServeEvent, TypeOK
    <3>4. accepted' \subseteq Msgs /\ duplicate' \subseteq Msgs
      BY <2>14, <3>1 DEF ServeEvent, TypeOK, Event
    <3>5. QED
      BY <2>14, <3>2, <3>3, <3>4
      DEF ServeEvent, TypeOK, author, peerRows, worker, history
  <2>15. ASSUME NEW e \in late, ServeLateEvent(e)
         PROVE  TypeOK'
    <3>1. e \in Event
      BY DEF TypeOK
    <3>2. replica' \subseteq Copy
      BY <2>15, <3>1, ApplyType DEF ServeLateEvent
    <3>3. late' \subseteq Event
      BY <2>15, <3>1, RemainingType DEF ServeLateEvent, TypeOK
    <3>4. QED
      BY <2>15, <3>2, <3>3
      DEF ServeLateEvent, TypeOK, author, peerRows, worker, request, history
  <2>16. ASSUME NEW e \in todo \cup late, RefuseEvent(e) \/ RefuseLateEvent(e)
         PROVE  TypeOK'
    BY <2>16, RefusalDrops DEF TypeOK
  <2>17. CASE UNCHANGED vars
    BY <2>17 DEF vars, TypeOK
  <2>18. QED
    BY <2>1, <2>2, <2>3, <2>4, <2>5, <2>6, <2>7, <2>8, <2>9, <2>10, <2>11,
       <2>12, <2>13, <2>14, <2>15, <2>16, <2>17
    DEF Next, Author, Worker, Receiver
<1>3. QED
  BY <1>1, <1>2, PTL DEF Spec

-----------------------------------------------------------------------------
(* The keys of the two tables.                                             *)

\* The peer's table holds one copy of a message at most: an insert that follows
\* its lookup by an await meets the unique index, an update replaces the copy.
THEOREM OneCopy == Spec => []OneCopyPerMessage
<1>1. Init => OneCopyPerMessage
  BY DEF Init, PromiseInit, OneCopyPerMessage
<1>2. TypeOK /\ OneCopyPerMessage /\ [Next]_vars => OneCopyPerMessage'
  <2> SUFFICES ASSUME TypeOK, OneCopyPerMessage, [Next]_vars
               PROVE  OneCopyPerMessage'
    OBVIOUS
  <2>1. ASSUME NEW e \in Event, ApplyEvent(e)
        PROVE  OneCopyPerMessage'
    <3>1. CASE DedupeCreate(e)
      BY <3>1 DEF DedupeCreate, OneCopyPerMessage
    <3>2. CASE InsertCreate(e)
      BY <3>2 DEF InsertCreate, HasCopy, OneCopyPerMessage
    <3>3. CASE ApplyUpdate(e)
      BY <3>3 DEF ApplyUpdate, CopiesOf, OneCopyPerMessage
    <3>4. CASE ApplyDelete(e)
      BY <3>4 DEF ApplyDelete, OneCopyPerMessage
    <3>5. QED
      BY <2>1, <3>1, <3>2, <3>3, <3>4 DEF ApplyEvent
  <2>2. CASE UNCHANGED replica
    BY <2>2 DEF OneCopyPerMessage
  <2>3. \/ UNCHANGED replica
        \/ \E e \in todo \cup late : ApplyEvent(e)
    BY DEF Next, Author, Worker, Receiver, SendMessage, EditMessage,
           DeleteMessage, CrashInHandler, Queue, SelectDue, WorkerRestart,
           PostRelay, DeliveryAnswered, DeliveryFailed, DeliveryRefused,
           PeerRecovers, InboundRelay, BackoffElapses, ServeEvent,
           ServeLateEvent, RefuseEvent, RefuseLateEvent, RefuseCreate, vars
  <2>4. QED
    BY <2>1, <2>2, <2>3 DEF TypeOK
<1>3. QED
  BY <1>1, <1>2, TypeCorrect, PTL DEF Spec

\* The outbox holds one row per peer and message at most.
THEOREM OneRow == Spec => []OneRowPerEntity
<1>1. Init => OneRowPerEntity
  BY DEF Init, OneRowPerEntity
<1>2. TypeOK /\ OneRowPerEntity /\ [Next]_vars => OneRowPerEntity'
  <2> SUFFICES ASSUME TypeOK, OneRowPerEntity, [Next]_vars
               PROVE  OneRowPerEntity'
    OBVIOUS
  <2>1. ASSUME NEW m \in Msgs, NEW type, NEW ver, outbox' = Queued(m, type, ver)
        PROVE  OneRowPerEntity'
    <3>1. ASSUME NEW p \in Peers, NEW r \in Coalesced(p, m, type, ver)
          PROVE  /\ r.peer = p
                 /\ r.msg = m
                 /\ \A s \in Coalesced(p, m, type, ver) : r = s
      <4> DEFINE created == \E x \in RowsOf(p, m) : x.type = "create"
                 kept == IF created THEN "create" ELSE type
                 row == [peer |-> p, msg |-> m, type |-> kept, ver |-> ver,
                         due |-> TRUE]
      <4>1. Coalesced(p, m, type, ver) \subseteq {row}
        BY Zenon DEF Coalesced
      <4>2. row.peer = p /\ row.msg = m
        OBVIOUS
      <4>3. QED
        BY <3>1, <4>1, <4>2
    <3>2. QED
      BY <2>1, <3>1 DEF Queued, OneRowPerEntity
  <2>2. ASSUME NEW p \in Peers, outbox' = BackedOff(p)
        PROVE  OneRowPerEntity'
    BY <2>2 DEF BackedOff, OneRowPerEntity, TypeOK, Row
  <2>3. ASSUME NEW p \in Peers, PeerRecovers(p)
        PROVE  OneRowPerEntity'
    BY <2>3 DEF PeerRecovers, OneRowPerEntity, TypeOK, Row
  <2>4. ASSUME NEW r \in outbox, BackoffElapses(r)
        PROVE  OneRowPerEntity'
    <3> DEFINE woken == [r EXCEPT !.due = TRUE]
    <3>1. outbox' = (outbox \ {r}) \cup {woken}
      BY <2>4 DEF BackoffElapses
    <3>2. woken.peer = r.peer /\ woken.msg = r.msg
      BY DEF TypeOK, Row
    <3>3. \A s \in outbox \ {r} : ~ (s.peer = r.peer /\ s.msg = r.msg)
      BY DEF OneRowPerEntity
    <3> HIDE DEF woken
    <3>4. QED
      BY <3>1, <3>2, <3>3 DEF OneRowPerEntity
  <2>5. CASE outbox' \subseteq outbox
    BY <2>5 DEF OneRowPerEntity
  <2>6. CASE Author
    BY <2>1, <2>5, <2>6
    DEF Author, SendMessage, EditMessage, DeleteMessage, CrashInHandler, Queue
  <2>7. CASE Worker
    BY <2>2, <2>3, <2>4, <2>5, <2>7
    DEF Worker, SelectDue, WorkerRestart, PostRelay, DeliveryAnswered,
        DeliveryFailed, DeliveryRefused, InboundRelay
  <2>8. CASE Receiver
    BY <2>5, <2>8
    DEF Receiver, ServeEvent, ServeLateEvent, RefuseEvent, RefuseLateEvent
  <2>9. CASE UNCHANGED vars
    BY <2>5, <2>9 DEF vars
  <2>10. QED
    BY <2>6, <2>7, <2>8, <2>9 DEF Next
<1>3. QED
  BY <1>1, <1>2, TypeCorrect, PTL DEF Spec

-----------------------------------------------------------------------------
(* RelayOutbox implements RelayPromise.                                    *)

\* What is written in a row, a snapshot entry or an event really happened: the
\* message was sent, the version was written, a delete follows the deletion.
Genuine(x) ==
  /\ authored[x.msg].state # "none"
  /\ x.ver <= authored[x.msg].ver
  /\ x.type = "delete" => authored[x.msg].state = "deleted"

AllGenuine ==
  /\ \A r \in outbox : Genuine(r)
  /\ \A e \in snapshot : Genuine(e)
  /\ \A e \in todo \cup late : Genuine(e)

\* An author's write never makes a payload that is under way untrue.
LEMMA WriteKeepsGenuine ==
  ASSUME TypeOK, NEW m \in Msgs, WriteNew(m) \/ WriteEdit(m) \/ WriteDelete(m),
         NEW x, x.msg \in Msgs, x.ver \in Versions, Genuine(x)
  PROVE  Genuine(x)'
<1> USE MaxEditsAssumption
    DEF Genuine, TypeOK, AuthoredMessage, Versions
<1>1. CASE WriteNew(m)
  BY <1>1 DEF WriteNew
<1>2. CASE WriteEdit(m)
  BY <1>2 DEF WriteEdit
<1>3. CASE WriteDelete(m)
  BY <1>3 DEF WriteDelete
<1>4. QED
  BY <1>1, <1>2, <1>3

\* Every payload in the tables, in the worker's memory and on the network is
\* one the author wrote.
LEMMA PayloadsGenuine == Spec => []AllGenuine
<1>1. Init => AllGenuine
  BY DEF Init, AllGenuine
<1>2. TypeOK /\ TypeOK' /\ AllGenuine /\ [Next]_vars => AllGenuine'
  <2> SUFFICES ASSUME TypeOK, TypeOK', AllGenuine, [Next]_vars
               PROVE  AllGenuine'
    OBVIOUS
  <2>1. ASSUME NEW m \in Msgs, NEW type \in EventTypes, NEW ver \in Versions,
               WriteNew(m) \/ WriteEdit(m) \/ WriteDelete(m),
               authored'[m].state # "none", ver = authored'[m].ver,
               type = "delete" => authored'[m].state = "deleted",
               Queue(m, type, ver)
        PROVE  AllGenuine'
    <3>1. \A x : x \in outbox \cup snapshot \cup todo \cup late
               => x.msg \in Msgs /\ x.ver \in Versions
      BY DEF TypeOK, Row, Entry, Event
    <3>2. \A x : x \in outbox \cup snapshot \cup todo \cup late
               => Genuine(x)'
      BY <2>1, <3>1, WriteKeepsGenuine DEF AllGenuine
    <3>3. ASSUME NEW p \in Peers, NEW r \in Coalesced(p, m, type, ver)
          PROVE  Genuine(r)'
      <4> DEFINE created == \E x \in RowsOf(p, m) : x.type = "create"
                 kept == IF created THEN "create" ELSE type
                 row == [peer |-> p, msg |-> m, type |-> kept, ver |-> ver,
                         due |-> TRUE]
      <4>1. Coalesced(p, m, type, ver) \subseteq {row}
        BY Zenon DEF Coalesced
      <4>2. row.msg = m /\ row.ver = ver
        OBVIOUS
      <4>3. row.type = "delete" => type = "delete"
        OBVIOUS
      <4>4. ver \in Nat
        BY <2>1, MaxEditsAssumption DEF Versions
      <4>5. r = row
        BY <3>3, <4>1
      <4> HIDE DEF row
      <4>6. QED
        BY <2>1, <4>2, <4>3, <4>4, <4>5 DEF Genuine
    <3>4. \A r \in outbox' : Genuine(r)'
      BY <2>1, <3>2, <3>3 DEF Queue, Queued
    <3>5. QED
      BY <2>1, <3>2, <3>4 DEF Queue, worker, request, AllGenuine
  <2>2. ASSUME NEW m \in Msgs, SendMessage(m)
        PROVE  AllGenuine'
    <3>1. authored'[m].state = "live" /\ authored'[m].ver = 0
      BY <2>2 DEF SendMessage, WriteNew, TypeOK
    <3>2. QED
      BY <2>1, <2>2, <3>1, MaxEditsAssumption
      DEF SendMessage, EventTypes, Versions
  <2>3. ASSUME NEW m \in Msgs, EditMessage(m)
        PROVE  AllGenuine'
    <3>1. authored'[m].state = "live" /\ authored'[m].ver = authored[m].ver + 1
      BY <2>3 DEF EditMessage, WriteEdit, TypeOK
    <3>2. authored[m].ver + 1 \in Versions
      BY <2>3, WriteType DEF EditMessage
    <3>3. QED
      BY <2>1, <2>3, <3>1, <3>2 DEF EditMessage, EventTypes
  <2>4. ASSUME NEW m \in Msgs, DeleteMessage(m)
        PROVE  AllGenuine'
    <3>1. authored'[m].state = "deleted" /\ authored'[m].ver = authored[m].ver
      BY <2>4 DEF DeleteMessage, WriteDelete, TypeOK
    <3>2. authored[m].ver \in Versions
      BY DEF TypeOK, AuthoredMessage
    <3>3. QED
      BY <2>1, <2>4, <3>1, <3>2 DEF DeleteMessage, EventTypes
  <2>5. ASSUME NEW m \in Msgs, CrashInHandler(m)
        PROVE  AllGenuine'
    <3>1. \A x : x \in outbox \cup todo \cup late
               => x.msg \in Msgs /\ x.ver \in Versions /\ Genuine(x)
      BY DEF TypeOK, Row, Event, AllGenuine
    <3>2. \A x : x \in outbox \cup todo \cup late => Genuine(x)'
      BY <2>5, <3>1, WriteKeepsGenuine DEF CrashInHandler
    <3>3. QED
      BY <2>5, <3>2 DEF CrashInHandler, GiveUp, Idle, AllGenuine
  <2>6. CASE Worker
    <3>1. UNCHANGED authored
      BY <2>6
      DEF Worker, SelectDue, WorkerRestart, PostRelay, DeliveryAnswered,
          DeliveryFailed, DeliveryRefused, PeerRecovers, InboundRelay,
          BackoffElapses, author
    <3>2. \A x, y : /\ y.msg = x.msg /\ y.ver = x.ver /\ y.type = x.type
                    /\ Genuine(x)
                    => Genuine(y)'
      BY <3>1 DEF Genuine
    <3>3. \A r \in outbox' : \E x \in outbox :
            r.msg = x.msg /\ r.ver = x.ver /\ r.type = x.type
      <4>1. ASSUME NEW p \in Peers, NEW r \in BackedOff(p)
            PROVE  \E x \in outbox :
                     r.msg = x.msg /\ r.ver = x.ver /\ r.type = x.type
        BY <4>1 DEF BackedOff, TypeOK, Row
      <4>2. ASSUME NEW p \in Peers, PeerRecovers(p), NEW r \in outbox'
            PROVE  \E x \in outbox :
                     r.msg = x.msg /\ r.ver = x.ver /\ r.type = x.type
        BY <4>2 DEF PeerRecovers, TypeOK, Row
      <4>3. ASSUME NEW s \in outbox, BackoffElapses(s), NEW r \in outbox'
            PROVE  \E x \in outbox :
                     r.msg = x.msg /\ r.ver = x.ver /\ r.type = x.type
        BY <4>3 DEF BackoffElapses, TypeOK, Row
      <4>4. QED
        BY <2>6, <4>1, <4>2, <4>3
        DEF Worker, SelectDue, WorkerRestart, PostRelay, DeliveryAnswered,
            DeliveryFailed, DeliveryRefused, InboundRelay
    <3>4. \A e \in snapshot' : e \in snapshot \/ \E x \in outbox :
            e.msg = x.msg /\ e.ver = x.ver /\ e.type = x.type
      BY <2>6
      DEF Worker, SelectDue, WorkerRestart, PostRelay, DeliveryAnswered,
          DeliveryFailed, DeliveryRefused, PeerRecovers, InboundRelay,
          BackoffElapses, worker
    <3>5. \A e \in todo' \cup late' : e \in todo \cup late \/ \E x \in snapshot :
            e.msg = x.msg /\ e.ver = x.ver /\ e.type = x.type
      BY <2>6
      DEF Worker, SelectDue, WorkerRestart, PostRelay, DeliveryAnswered,
          DeliveryFailed, DeliveryRefused, PeerRecovers, InboundRelay,
          BackoffElapses, Idle, GiveUp, request, EntriesFor
    <3>6. QED
      BY <3>2, <3>3, <3>4, <3>5 DEF AllGenuine
  <2>7. CASE Receiver
    <3>1. UNCHANGED <<authored, outbox, snapshot>>
      BY <2>7, RefusalDrops DEF Receiver, ServeEvent, ServeLateEvent, author, worker
    <3>2. ASSUME NEW events \in SUBSET (todo \cup late), NEW e \in events,
                 NEW x \in Remaining(events, e)
          PROVE  Genuine(x)'
      <4>1. e \in Event
        BY DEF TypeOK
      <4>2. \/ x \in todo \cup late
            \/ x.msg = e.msg /\ x.ver = e.ver /\ x.type = e.type
        BY <3>2, <4>1 DEF Remaining, Event
      <4>3. QED
        BY <3>1, <3>2, <4>2 DEF AllGenuine, Genuine
    <3>3. \A x \in todo' \cup late' : Genuine(x)'
      <4>1. \A x \in todo \cup late : Genuine(x)'
        BY <3>1 DEF AllGenuine, Genuine
      <4>2. QED
        BY <2>7, <3>2, <4>1, RefusalDrops
        DEF Receiver, ServeEvent, ServeLateEvent, request
    <3>4. QED
      BY <3>1, <3>3 DEF AllGenuine, Genuine
  <2>8. CASE UNCHANGED vars
    BY <2>8 DEF vars, AllGenuine, Genuine
  <2>9. QED
    BY <2>2, <2>3, <2>4, <2>5, <2>6, <2>7, <2>8 DEF Next, Author
<1>3. QED
  BY <1>1, <1>2, TypeCorrect, PTL DEF Spec

\* The outbox, its worker, the network and the retries implement the promise:
\* a copy at a peer is always a version the author wrote of a message the
\* author sent, and it only disappears after the author deleted the message.
THEOREM ImplementsPromise == Spec => PromiseSpec
<1>1. Init => PromiseInit
  BY DEF Init
<1>2. TypeOK /\ AllGenuine /\ [Next]_vars => [PromiseNext]_PromiseVars
  <2> SUFFICES ASSUME TypeOK, AllGenuine, [Next]_vars
               PROVE  [PromiseNext]_PromiseVars
    OBVIOUS
  <2>1. CASE Author
    BY <2>1
    DEF Author, SendMessage, EditMessage, DeleteMessage, CrashInHandler, Queue,
        PromiseNext
  <2>2. CASE Worker \/ UNCHANGED vars
    BY <2>2
    DEF Worker, SelectDue, WorkerRestart, PostRelay, DeliveryAnswered,
        DeliveryFailed, DeliveryRefused, PeerRecovers, InboundRelay,
        BackoffElapses, author, vars, PromiseVars
  <2>3. ASSUME NEW e \in todo \cup late, ApplyEvent(e), UNCHANGED authored
        PROVE  [PromiseNext]_PromiseVars
    <3> DEFINE p == e.peer
               m == e.msg
               v == e.ver
    <3>1. p \in Peers /\ m \in Msgs /\ v \in Versions
      BY DEF TypeOK, Event
    <3>2. Genuine(e)
      BY DEF AllGenuine
    <3>3. CASE UNCHANGED replica
      BY <2>3, <3>3 DEF PromiseVars
    <3>4. CASE InsertCreate(e) /\ ~ HasCopy(p, m)
      <4>1. Insert(p, m, v)
        BY <3>2, <3>4 DEF InsertCreate, Insert, Genuine
      <4>2. QED
        BY <2>3, <3>1, <4>1 DEF PromiseNext
    <3>5. CASE ApplyUpdate(e) /\ HasCopy(p, m)
      <4>1. Overwrite(p, m, v)
        BY <3>2, <3>5 DEF ApplyUpdate, Overwrite, Genuine
      <4>2. QED
        BY <2>3, <3>1, <4>1 DEF PromiseNext
    <3>6. CASE ApplyDelete(e) /\ HasCopy(p, m)
      <4>1. Remove(p, m)
        BY <3>2, <3>6 DEF ApplyDelete, Remove, Genuine
      <4>2. QED
        BY <2>3, <3>1, <4>1 DEF PromiseNext
    <3>7. CASE ApplyDelete(e) /\ ~ HasCopy(p, m)
      <4>1. CopiesOf(p, m) = {}
        BY <3>7 DEF CopiesOf, HasCopy
      <4>2. UNCHANGED replica
        BY <3>7, <4>1 DEF ApplyDelete
      <4>3. QED
        BY <2>3, <4>2 DEF PromiseVars
    <3>8. QED
      BY <2>3, <3>3, <3>4, <3>5, <3>6, <3>7
      DEF ApplyEvent, DedupeCreate, InsertCreate, ApplyUpdate
  <2>4. CASE Receiver
    BY <2>3, <2>4, RefusalDrops
    DEF Receiver, ServeEvent, ServeLateEvent, author, PromiseVars
  <2>5. QED
    BY <2>1, <2>2, <2>4 DEF Next
<1>3. QED
  BY <1>1, <1>2, TypeCorrect, PayloadsGenuine, PTL DEF Spec, PromiseSpec

-----------------------------------------------------------------------------
(* Agreement once everything is delivered.                                 *)

\* x is about message m at peer p.
About(x, p, m) == x.peer = p /\ x.msg = m

\* Payloads the worker holds, or the network, or the peer.
UnderWay == snapshot \cup todo \cup late

\* x carries its message as the author left it.
Current(x) ==
  /\ authored[x.msg].state # "none"
  /\ x.ver = authored[x.msg].ver
  /\ x.type = "delete" <=> authored[x.msg].state = "deleted"

\* p may have been asked for m by a request that is outstanding or given up.
Requested(p, m) ==
  \/ \E e \in todo \cup late : About(e, p, m)
  \/ posting = p /\ m \in batch

\* What is queued or under way is the message as the author left it.
PayloadsCurrent(p, m) ==
  \A x \in outbox \cup UnderWay : About(x, p, m) => Current(x)

\* What is under way is what is queued.
SentAsQueued(p, m) ==
  \A r \in outbox, x \in UnderWay :
    About(r, p, m) /\ About(x, p, m) => x.type = r.type

\* A row that was posted is known as posted until the answer is heard.
PostedIsSent(p, m) == RowsOf(p, m) # {} /\ Requested(p, m) => <<p, m>> \in sent

\* Before the first post of a row, the peer has a copy of all but a new message.
FitBeforePost(p, m) ==
  \A r \in RowsOf(p, m) :
    <<p, m>> \notin sent => (r.type = "create" <=> ~ HasCopy(p, m))

\* After it, a copy of a new message is the one queued, and an edited message
\* has a copy.
FitAfterPost(p, m) ==
  \A r \in RowsOf(p, m) :
    <<p, m>> \in sent =>
      /\ r.type = "create" =>
           \A c \in replica : About(c, p, m) => c.ver = authored[m].ver
      /\ r.type = "update" => HasCopy(p, m)

\* Without a row the peer agrees with the author, whatever is under way; so it
\* does about what it has taken of the outstanding request.
SettledInSync(p, m) ==
  \/ RowsOf(p, m) = {}
  \/ posting = p /\ m \in accepted \cup duplicate
  => InSync(p, m)

DeliverySafe(p, m) ==
  /\ PayloadsCurrent(p, m)
  /\ SentAsQueued(p, m)
  /\ PostedIsSent(p, m)
  /\ FitBeforePost(p, m)
  /\ FitAfterPost(p, m)
  /\ SettledInSync(p, m)

\* The outstanding request is one peer's, and what was answered is part of it.
RequestSound ==
  /\ posting = NoPeer => batch = {}
  /\ \A e \in todo : e.peer = posting /\ e.msg \in batch
  /\ accepted \cup duplicate \subseteq batch

\* What the delivery of a message owes, unless a mutation of it fell in a gap.
SyncInv ==
  /\ RequestSound
  /\ \A p \in Peers, m \in Msgs : <<p, m>> \notin gap => DeliverySafe(p, m)

\* Two payloads of one content.
Like(x, y) ==
  x.peer = y.peer /\ x.msg = y.msg /\ x.type = y.type /\ x.ver = y.ver

\* A step that writes neither side's messages, and only moves payloads on: a
\* row that leaves is settled, one that is posted is known as sent.
LEMMA MovesKeep ==
  ASSUME OneRowPerEntity, NEW p \in Peers, NEW m \in Msgs, DeliverySafe(p, m),
         UNCHANGED <<authored, replica>>,
         \A r \in outbox' : \E s \in outbox : Like(r, s),
         \A x \in UnderWay' : \E y \in outbox \cup UnderWay : Like(x, y),
         Requested(p, m)' => Requested(p, m) \/ <<p, m>> \in sent',
         RowsOf(p, m)' # {} /\ <<p, m>> \in sent => <<p, m>> \in sent',
         RowsOf(p, m)' = {} => RowsOf(p, m) = {} \/ InSync(p, m),
         posting' = p /\ m \in accepted' \cup duplicate' =>
           posting = p /\ m \in accepted \cup duplicate
  PROVE  DeliverySafe(p, m)'
<1>1. \A c : c \in replica' <=> c \in replica
  OBVIOUS
<1>2. /\ HasCopy(p, m)' <=> HasCopy(p, m)
      /\ InSync(p, m)' <=> InSync(p, m)
  BY <1>1 DEF HasCopy, InSync
<1>3. \A r \in RowsOf(p, m)' : \E s \in RowsOf(p, m) : Like(r, s)
  BY DEF RowsOf, Like
<1>4. RowsOf(p, m)' # {} => RowsOf(p, m) # {}
  BY <1>3
<1>5. PayloadsCurrent(p, m)'
  BY DEF DeliverySafe, PayloadsCurrent, Like, About, Current
<1>6. SentAsQueued(p, m)'
  <2> SUFFICES ASSUME NEW r \in outbox', NEW x \in UnderWay',
                      About(r, p, m), About(x, p, m)
               PROVE  x.type = r.type
    BY DEF SentAsQueued, About
  <2>1. PICK s \in outbox : Like(r, s)
    OBVIOUS
  <2>2. PICK y \in outbox \cup UnderWay : Like(x, y)
    OBVIOUS
  <2>3. y.type = s.type
    BY <2>1, <2>2
    DEF Like, About, OneRowPerEntity, DeliverySafe, SentAsQueued
  <2>4. QED
    BY <2>1, <2>2, <2>3 DEF Like
<1>7. PostedIsSent(p, m)'
  BY <1>4 DEF DeliverySafe, PostedIsSent
<1>8. FitBeforePost(p, m)'
  <2> SUFFICES ASSUME NEW r \in RowsOf(p, m)', <<p, m>> \notin sent'
               PROVE  r.type = "create" <=> ~ HasCopy(p, m)
    BY <1>2 DEF FitBeforePost
  <2>1. <<p, m>> \notin sent
    OBVIOUS
  <2>2. QED
    BY <1>3, <2>1 DEF DeliverySafe, FitBeforePost, Like
<1>9. FitAfterPost(p, m)'
  <2> SUFFICES ASSUME NEW r \in RowsOf(p, m)'
               PROVE  /\ r.type = "create" =>
                           \A c \in replica :
                             About(c, p, m) => c.ver = authored[m].ver
                      /\ r.type = "update" => HasCopy(p, m)
    BY <1>1, <1>2 DEF FitAfterPost, About
  <2>1. PICK s \in RowsOf(p, m) : Like(r, s)
    BY <1>3
  <2>2. CASE <<p, m>> \in sent
    BY <2>1, <2>2 DEF DeliverySafe, FitAfterPost, Like
  <2>3. CASE <<p, m>> \notin sent
    BY <2>1, <2>3 DEF DeliverySafe, FitBeforePost, Like, HasCopy, About
  <2>4. QED
    BY <2>2, <2>3
<1>10. SettledInSync(p, m)'
  BY <1>2 DEF DeliverySafe, SettledInSync
<1>11. QED
  BY <1>5, <1>6, <1>7, <1>8, <1>9, <1>10 DEF DeliverySafe

\* Whether a row is due is no part of its payload.
LEMMA DueIsNoContent ==
  ASSUME NEW r \in Row, NEW d
  PROVE  Like([r EXCEPT !.due = d], r) /\ Like(r, [r EXCEPT !.due = d])
BY DEF Like, Row

LEMMA BackedOffLike ==
  ASSUME TypeOK, NEW q \in Peers
  PROVE  /\ \A r \in BackedOff(q) : \E s \in outbox : Like(r, s)
         /\ \A s \in outbox : \E r \in BackedOff(q) : Like(r, s)
<1>1. ASSUME NEW s \in outbox PROVE \E r \in BackedOff(q) : Like(r, s)
  <2> DEFINE r == [s EXCEPT !.due = s.due /\ ~ (s.peer = q /\ s.msg \in batch)]
  <2>1. r \in BackedOff(q)
    BY DEF BackedOff
  <2>2. Like(r, s)
    BY DueIsNoContent DEF TypeOK
  <2>3. QED
    BY <2>1, <2>2
<1>2. ASSUME NEW r \in BackedOff(q) PROVE \E s \in outbox : Like(r, s)
  <2>1. PICK s \in outbox :
          r = [s EXCEPT !.due = s.due /\ ~ (s.peer = q /\ s.msg \in batch)]
    BY DEF BackedOff
  <2>2. Like(r, s)
    BY <2>1, DueIsNoContent DEF TypeOK
  <2>3. QED
    BY <2>2
<1>3. QED
  BY <1>1, <1>2

LEMMA RecoveredLike ==
  ASSUME TypeOK, NEW q \in Peers, PeerRecovers(q)
  PROVE  /\ \A r \in outbox' : \E s \in outbox : Like(r, s)
         /\ \A s \in outbox : \E r \in outbox' : Like(r, s)
<1>1. outbox' = {[s EXCEPT !.due = s.due \/ s.peer = q] : s \in outbox}
  BY DEF PeerRecovers
<1>2. ASSUME NEW s \in outbox PROVE \E r \in outbox' : Like(r, s)
  <2> DEFINE r == [s EXCEPT !.due = s.due \/ s.peer = q]
  <2>1. r \in outbox'
    BY <1>1
  <2>2. Like(r, s)
    BY DueIsNoContent DEF TypeOK
  <2>3. QED
    BY <2>1, <2>2
<1>3. ASSUME NEW r \in outbox' PROVE \E s \in outbox : Like(r, s)
  <2>1. PICK s \in outbox : r = [s EXCEPT !.due = s.due \/ s.peer = q]
    BY <1>1
  <2>2. Like(r, s)
    BY <2>1, DueIsNoContent DEF TypeOK
  <2>3. QED
    BY <2>2
<1>4. QED
  BY <1>2, <1>3

LEMMA DueLike ==
  ASSUME TypeOK, NEW t \in outbox, BackoffElapses(t)
  PROVE  /\ \A r \in outbox' : \E s \in outbox : Like(r, s)
         /\ \A s \in outbox : \E r \in outbox' : Like(r, s)
<1> DEFINE woken == [t EXCEPT !.due = TRUE]
<1>1. outbox' = (outbox \ {t}) \cup {woken}
  BY DEF BackoffElapses
<1>2. Like(woken, t)
  BY DueIsNoContent DEF TypeOK
<1>3. \A x : Like(x, x)
  BY DEF Like
<1> HIDE DEF woken
<1>4. QED
  BY <1>1, <1>2, <1>3

\* A step of the worker after which its rows are the old ones, due or not, and
\* nothing new is asked for.
LEMMA NoPostKeeps ==
  ASSUME OneRowPerEntity, NEW p \in Peers, NEW m \in Msgs, DeliverySafe(p, m),
         UNCHANGED <<authored, replica, sent>>,
         \A r \in outbox' : \E s \in outbox : Like(r, s),
         \A s \in outbox : \E r \in outbox' : Like(r, s),
         \A x \in UnderWay' : \E y \in outbox \cup UnderWay : Like(x, y),
         todo' \cup late' \subseteq todo \cup late,
         posting' = p => posting = p /\ UNCHANGED <<batch, accepted, duplicate>>
  PROVE  DeliverySafe(p, m)'
<1>1. RowsOf(p, m)' = {} => RowsOf(p, m) = {}
  BY DEF RowsOf, Like
<1>2. Requested(p, m)' => Requested(p, m)
  BY DEF Requested, About
<1>3. QED
  BY <1>1, <1>2, MovesKeep

LEMMA WorkerSync ==
  ASSUME TypeOK, OneRowPerEntity, SyncInv, Worker
  PROVE  SyncInv'
<1> USE DEF SyncInv
<1>1. \A x : Like(x, x)
  BY DEF Like
<1>2. CASE SelectDue
  <2>1. /\ UNCHANGED <<authored, replica, outbox, posting, batch, todo, accepted,
                       duplicate, late, sent, gap>>
        /\ \A x \in snapshot' : \E y \in outbox : Like(x, y)
    BY <1>2 DEF SelectDue, Like, author, request, history
  <2>2. \A x \in UnderWay' : \E y \in outbox \cup UnderWay : Like(x, y)
    BY <1>1, <2>1 DEF UnderWay
  <2>3. \A p \in Peers, m \in Msgs : <<p, m>> \notin gap => DeliverySafe(p, m)'
    BY <1>1, <2>1, <2>2, NoPostKeeps
  <2>4. QED
    BY <2>1, <2>3 DEF RequestSound
<1>3. CASE \/ WorkerRestart
           \/ \E q \in Peers : DeliveryFailed(q) \/ DeliveryRefused(q)
  <2>1. /\ UNCHANGED <<authored, replica, sent, gap>>
        /\ Idle
        /\ snapshot' \subseteq snapshot
        /\ late' \subseteq todo \cup late
        /\ outbox' = outbox \/ \E q \in Peers : outbox' = BackedOff(q)
    BY <1>3
    DEF WorkerRestart, DeliveryFailed, DeliveryRefused, GiveUp, author, history
  <2>2. /\ \A r \in outbox' : \E s \in outbox : Like(r, s)
        /\ \A s \in outbox : \E r \in outbox' : Like(r, s)
    BY <1>1, <2>1, BackedOffLike
  <2>3. \A x \in UnderWay' : \E y \in outbox \cup UnderWay : Like(x, y)
    BY <1>1, <2>1 DEF UnderWay, Idle
  <2>4. \A p \in Peers : posting' # p
    BY <2>1, OutboxAssumption DEF Idle
  <2>5. \A p \in Peers, m \in Msgs : <<p, m>> \notin gap => DeliverySafe(p, m)'
    BY <2>1, <2>2, <2>3, <2>4, NoPostKeeps DEF Idle
  <2>6. QED
    BY <2>1, <2>5 DEF Idle, RequestSound
<1>4. ASSUME NEW q \in Peers, PostRelay(q) PROVE SyncInv'
  <2> DEFINE mine == EntriesFor(q)
  <2>1. /\ posting = NoPeer /\ posting' = q
        /\ batch' = {e.msg : e \in mine}
        /\ \A x \in todo' : \E e \in mine : Like(x, e)
        /\ snapshot' \subseteq snapshot
        /\ sent' = sent \cup {<<q, e.msg>> : e \in mine}
        /\ UNCHANGED <<authored, replica, outbox, accepted, duplicate, late, gap>>
    BY <1>4 DEF PostRelay, author, Like, EntriesFor
  <2>2. mine \subseteq snapshot /\ \A e \in mine : e.peer = q
    BY DEF EntriesFor
  <2>3. batch = {} /\ accepted = {} /\ duplicate = {} /\ todo = {}
    BY <2>1 DEF RequestSound
  <2>4. RequestSound'
    BY <2>1, <2>2, <2>3, OutboxAssumption DEF RequestSound, Like
  <2>5. \A x \in UnderWay' : \E y \in outbox \cup UnderWay : Like(x, y)
    BY <1>1, <2>1, <2>2 DEF UnderWay
  <2>6. ASSUME NEW p \in Peers, NEW m \in Msgs, <<p, m>> \notin gap
        PROVE  DeliverySafe(p, m)'
    <3>1. ASSUME Requested(p, m)', ~ Requested(p, m)
          PROVE  <<p, m>> \in sent'
      <4>1. p = q /\ \E e \in mine : e.msg = m
        BY <2>1, <2>2, <3>1 DEF Requested, About, Like
      <4>2. QED
        BY <2>1, <4>1
    <3>2. RowsOf(p, m)' = RowsOf(p, m)
      BY <2>1 DEF RowsOf
    <3>3. QED
      BY <1>1, <2>1, <2>3, <2>5, <2>6, <3>1, <3>2, MovesKeep
  <2>7. QED
    BY <2>1, <2>4, <2>6
<1>5. ASSUME NEW q \in Peers, DeliveryAnswered(q) PROVE SyncInv'
  <2> DEFINE settled == accepted \cup duplicate
  <2>1. /\ posting = q
        /\ Idle
        /\ outbox' = {r \in outbox : r.peer # q \/ r.msg \notin settled}
        /\ sent' = {s \in sent : s[1] # q \/ s[2] \notin settled}
        /\ UNCHANGED <<authored, replica, snapshot, late, gap>>
    BY <1>5 DEF DeliveryAnswered, author
  <2>2. RequestSound'
    BY <2>1 DEF Idle, RequestSound
  <2>3. \A x \in UnderWay' : \E y \in outbox \cup UnderWay : Like(x, y)
    BY <1>1, <2>1 DEF UnderWay, Idle
  <2>4. ASSUME NEW p \in Peers, NEW m \in Msgs, <<p, m>> \notin gap
        PROVE  DeliverySafe(p, m)'
    <3>1. DeliverySafe(p, m)
      BY <2>4
    <3>2. Requested(p, m)' => Requested(p, m)
      BY <2>1, OutboxAssumption DEF Requested, Idle, About
    <3>3. CASE p = q /\ m \in settled
      <4>1. InSync(p, m)
        BY <2>1, <3>1, <3>3 DEF DeliverySafe, SettledInSync
      <4>2. RowsOf(p, m)' = {}
        BY <2>1, <3>3 DEF RowsOf
      <4>3. QED
        BY <1>1, <2>1, <2>3, <3>1, <3>2, <4>1, <4>2, OutboxAssumption, MovesKeep
        DEF Idle
    <3>4. CASE p # q \/ m \notin settled
      <4>1. RowsOf(p, m)' = RowsOf(p, m)
        BY <2>1, <3>4 DEF RowsOf
      <4>2. <<p, m>> \in sent => <<p, m>> \in sent'
        BY <2>1, <3>4
      <4>3. QED
        BY <1>1, <2>1, <2>3, <3>1, <3>2, <4>1, <4>2, OutboxAssumption, MovesKeep
        DEF Idle
    <3>5. QED
      BY <3>3, <3>4
  <2>5. QED
    BY <2>1, <2>2, <2>4
<1>6. CASE \/ \E q \in Peers : PeerRecovers(q) \/ InboundRelay(q)
           \/ \E r \in outbox : BackoffElapses(r)
  <2>1. UNCHANGED <<authored, replica, snapshot, posting, batch, todo, accepted,
                    duplicate, late, sent, gap>>
    BY <1>6
    DEF PeerRecovers, InboundRelay, BackoffElapses, author, worker, request, history
  <2>2. /\ \A r \in outbox' : \E s \in outbox : Like(r, s)
        /\ \A s \in outbox : \E r \in outbox' : Like(r, s)
    <3>1. CASE \E q \in Peers : InboundRelay(q)
      BY <1>1, <3>1 DEF InboundRelay
    <3>2. QED
      BY <1>6, <3>1, RecoveredLike, DueLike
  <2>3. \A x \in UnderWay' : \E y \in outbox \cup UnderWay : Like(x, y)
    BY <1>1, <2>1 DEF UnderWay
  <2>4. \A p \in Peers, m \in Msgs : <<p, m>> \notin gap => DeliverySafe(p, m)'
    BY <2>1, <2>2, <2>3, NoPostKeeps
  <2>5. QED
    BY <2>1, <2>4 DEF RequestSound
<1>7. QED
  BY <1>2, <1>3, <1>4, <1>5, <1>6 DEF Worker

\* What the peer does with an event it is asked to apply, where the event is
\* the message as the author left it and fits the peer's copy.
LEMMA ApplyFits ==
  ASSUME TypeOK, NEW e \in Event, ApplyEvent(e), UNCHANGED authored, Current(e),
         NEW p \in Peers, NEW m \in Msgs, About(e, p, m),
         \/ InSync(p, m)
         \/ /\ e.type = "create" =>
                 \A c \in replica : About(c, p, m) => c.ver = authored[m].ver
            /\ e.type = "update" => HasCopy(p, m)
  PROVE  /\ /\ e.type = "create"
            /\ \A c \in replica : About(c, p, m) => c.ver = authored[m].ver
            => \A c \in replica' : About(c, p, m) => c.ver = authored[m].ver
         /\ e.type = "update" => HasCopy(p, m)'
         /\ InSync(p, m) => InSync(p, m)'
         /\ Answer(e) \in {"accepted", "duplicate"} => InSync(p, m)'
<1> DEFINE new == [peer |-> p, msg |-> m, ver |-> e.ver]
<1>1. /\ e.type \in EventTypes
      /\ e.ver = authored[m].ver
      /\ authored[m].state # "none"
      /\ e.type = "delete" <=> authored[m].state = "deleted"
      /\ authored[m].state \in {"none", "live", "deleted"}
      /\ e.peer = p /\ e.msg = m
  BY DEF Event, Current, About, TypeOK, AuthoredMessage
<1>2. new.peer = p /\ new.msg = m /\ new.ver = e.ver
  OBVIOUS
<1> HIDE DEF new
<1>3. CASE e.type = "create"
  <2>1. authored[m].state = "live"
    BY <1>1, <1>3
  <2>2. replica' = replica \/ (~ HasCopy(p, m) /\ e.checked
                               /\ replica' = replica \cup {new})
    BY <1>1, <1>3
    DEF ApplyEvent, DedupeCreate, InsertCreate, ApplyUpdate, ApplyDelete, new
  <2>3. CASE replica' = replica
    <3>1. InSync(p, m) => InSync(p, m)'
      BY <2>3 DEF InSync, HasCopy
    <3>2. Answer(e) \in {"accepted", "duplicate"} => HasCopy(p, m)
      <4>1. CASE e.checked
        <5>1. ~ HasCopy(p, m) => replica' = replica \cup {new}
          BY <1>1, <1>3, <4>1
          DEF ApplyEvent, DedupeCreate, InsertCreate, ApplyUpdate, ApplyDelete, new
        <5>2. QED
          BY <1>2, <2>3, <5>1 DEF HasCopy
      <4>2. CASE ~ e.checked
        BY <1>1, <1>3, <4>2 DEF Answer
      <4>3. QED
        BY <4>1, <4>2
    <3>3. HasCopy(p, m) => InSync(p, m)
      BY <1>3, <2>1 DEF HasCopy, InSync, About
    <3>4. QED
      BY <1>3, <2>3, <3>1, <3>2, <3>3
  <2>4. CASE ~ HasCopy(p, m) /\ replica' = replica \cup {new}
    <3>1. InSync(p, m)'
      BY <1>1, <1>2, <2>1, <2>4 DEF InSync
    <3>2. \A c \in replica' : About(c, p, m) => c.ver = authored[m].ver
      BY <1>1, <1>2, <2>4 DEF HasCopy, About
    <3>3. QED
      BY <1>3, <3>1, <3>2
  <2>5. QED
    BY <2>2, <2>3, <2>4
<1>4. CASE e.type = "update"
  <2>1. authored[m].state = "live"
    BY <1>1, <1>4
  <2>2. HasCopy(p, m)
    BY <1>4, <2>1 DEF InSync, HasCopy
  <2>3. new \in replica'
    BY <1>1, <1>4, <2>2
    DEF ApplyEvent, DedupeCreate, InsertCreate, ApplyUpdate, ApplyDelete, new
  <2>4. InSync(p, m)' /\ HasCopy(p, m)'
    BY <1>1, <1>2, <2>1, <2>3 DEF InSync, HasCopy
  <2>5. QED
    BY <1>4, <2>4
<1>5. CASE e.type = "delete"
  <2>1. authored[m].state = "deleted"
    BY <1>1, <1>5
  <2>2. replica' = replica \ CopiesOf(p, m)
    BY <1>1, <1>5
    DEF ApplyEvent, DedupeCreate, InsertCreate, ApplyUpdate, ApplyDelete
  <2>3. InSync(p, m)'
    BY <2>1, <2>2 DEF InSync, HasCopy, CopiesOf
  <2>4. QED
    BY <1>5, <2>3
<1>6. QED
  BY <1>1, <1>3, <1>4, <1>5 DEF EventTypes

\* Applying an event leaves the copies of other messages and peers alone.
LEMMA ApplyElsewhere ==
  ASSUME NEW e, ApplyEvent(e), NEW p, NEW m, ~ About(e, p, m),
         NEW c, About(c, p, m)
  PROVE  c \in replica' <=> c \in replica
BY DEF ApplyEvent, DedupeCreate, InsertCreate, ApplyUpdate, ApplyDelete, About,
       CopiesOf

LEMMA RemainingLike ==
  ASSUME NEW events \in SUBSET Event, NEW e \in events,
         NEW x \in Remaining(events, e)
  PROVE  \E y \in events : Like(x, y)
<1>1. CASE x \in events
  BY <1>1 DEF Like
<1>2. CASE x = [e EXCEPT !.checked = TRUE]
  BY <1>2 DEF Like, Event
<1>3. QED
  BY <1>1, <1>2 DEF Remaining

LEMMA ServeSync ==
  ASSUME TypeOK, OneRowPerEntity, SyncInv, NEW e \in todo \cup late,
         ApplyEvent(e),
         UNCHANGED <<authored, outbox, snapshot, posting, batch, sent, gap>>,
         \A x \in todo' : \E y \in todo : Like(x, y),
         \A x \in late' : \E y \in late : Like(x, y),
         \A n \in accepted' \cup duplicate' :
           \/ n \in accepted \cup duplicate
           \/ e \in todo /\ n = e.msg /\ Answer(e) \in {"accepted", "duplicate"}
  PROVE  SyncInv'
<1>1. RequestSound'
  BY DEF SyncInv, RequestSound, Like
<1>2. e \in Event
  BY DEF TypeOK
<1>3. \A x \in UnderWay' : \E y \in UnderWay : Like(x, y)
  BY DEF UnderWay, Like
<1>4. ASSUME NEW p \in Peers, NEW m \in Msgs, <<p, m>> \notin gap
      PROVE  DeliverySafe(p, m)'
  <2>1. DeliverySafe(p, m)
    BY <1>4 DEF SyncInv
  <2>2. /\ PayloadsCurrent(p, m)'
        /\ SentAsQueued(p, m)'
    BY <1>3, <2>1
    DEF DeliverySafe, PayloadsCurrent, SentAsQueued, Like, About, Current
  <2>3. RowsOf(p, m)' = RowsOf(p, m)
    BY DEF RowsOf
  <2>4. Requested(p, m)' => Requested(p, m)
    BY DEF Requested, Like, About
  <2>5. PostedIsSent(p, m)'
    BY <2>1, <2>3, <2>4 DEF DeliverySafe, PostedIsSent
  <2>6. CASE About(e, p, m)
    <3>1. Requested(p, m) /\ e \in UnderWay
      BY <2>6 DEF Requested, UnderWay
    <3>2. Current(e)
      BY <2>1, <2>6, <3>1 DEF DeliverySafe, PayloadsCurrent
    <3>3. \A r \in RowsOf(p, m) : r.type = e.type
      BY <2>1, <2>6, <3>1 DEF DeliverySafe, SentAsQueued, RowsOf, About
    <3>4. RowsOf(p, m) # {} => <<p, m>> \in sent
      BY <2>1, <3>1 DEF DeliverySafe, PostedIsSent
    <3>5. \/ InSync(p, m)
          \/ /\ e.type = "create" =>
                  \A c \in replica : About(c, p, m) => c.ver = authored[m].ver
             /\ e.type = "update" => HasCopy(p, m)
      BY <2>1, <3>3, <3>4 DEF DeliverySafe, SettledInSync, FitAfterPost
    <3>6. /\ /\ e.type = "create"
             /\ \A c \in replica : About(c, p, m) => c.ver = authored[m].ver
             => \A c \in replica' : About(c, p, m) => c.ver = authored[m].ver
          /\ e.type = "update" => HasCopy(p, m)'
          /\ InSync(p, m) => InSync(p, m)'
          /\ Answer(e) \in {"accepted", "duplicate"} => InSync(p, m)'
      BY <1>2, <2>6, <3>2, <3>5, ApplyFits
    <3>7. FitBeforePost(p, m)'
      BY <2>3, <3>4 DEF FitBeforePost
    <3>8. FitAfterPost(p, m)'
      BY <2>1, <2>3, <3>3, <3>6 DEF DeliverySafe, FitAfterPost
    <3>9. SettledInSync(p, m)'
      BY <2>1, <2>3, <3>6 DEF DeliverySafe, SettledInSync
    <3>10. QED
      BY <2>2, <2>5, <3>7, <3>8, <3>9 DEF DeliverySafe
  <2>7. CASE ~ About(e, p, m)
    <3>1. \A c : About(c, p, m) => (c \in replica' <=> c \in replica)
      BY <2>7, ApplyElsewhere
    <3>2. /\ HasCopy(p, m)' <=> HasCopy(p, m)
          /\ InSync(p, m)' <=> InSync(p, m)
      BY <3>1 DEF HasCopy, InSync, About
    <3>3. posting = p /\ m \in accepted' \cup duplicate' =>
            m \in accepted \cup duplicate
      BY <2>7 DEF SyncInv, RequestSound, About
    <3>4. FitBeforePost(p, m)' /\ FitAfterPost(p, m)'
      BY <2>1, <2>3, <3>1, <3>2 DEF DeliverySafe, FitBeforePost, FitAfterPost
    <3>5. SettledInSync(p, m)'
      BY <2>1, <2>3, <3>2, <3>3 DEF DeliverySafe, SettledInSync
    <3>6. QED
      BY <2>2, <2>5, <3>4, <3>5 DEF DeliverySafe
  <2>8. QED
    BY <2>6, <2>7
<1>5. QED
  BY <1>1, <1>4 DEF SyncInv

LEMMA ReceiverSync ==
  ASSUME TypeOK, OneRowPerEntity, SyncInv, Receiver
  PROVE  SyncInv'
<1>1. \A x : Like(x, x)
  BY DEF Like
<1>2. ASSUME NEW e \in todo, ServeEvent(e) PROVE SyncInv'
  <2>1. \A x \in todo' : \E y \in todo : Like(x, y)
    BY <1>2, RemainingLike DEF ServeEvent, TypeOK
  <2>2. \A n \in accepted' \cup duplicate' :
          \/ n \in accepted \cup duplicate
          \/ n = e.msg /\ Answer(e) \in {"accepted", "duplicate"}
    BY <1>2 DEF ServeEvent
  <2>3. QED
    BY <1>1, <1>2, <2>1, <2>2, ServeSync DEF ServeEvent, author, worker, history
<1>3. ASSUME NEW e \in late, ServeLateEvent(e) PROVE SyncInv'
  <2>1. \A x \in late' : \E y \in late : Like(x, y)
    BY <1>3, RemainingLike DEF ServeLateEvent, TypeOK
  <2>2. QED
    BY <1>1, <1>3, <2>1, ServeSync
    DEF ServeLateEvent, author, worker, request, history
<1>4. ASSUME NEW e \in todo \cup late, RefuseEvent(e) \/ RefuseLateEvent(e)
      PROVE  SyncInv'
  <2>1. /\ UNCHANGED <<authored, replica, outbox, snapshot, posting, batch, accepted,
                       duplicate, sent, gap>>
        /\ todo' \subseteq todo
        /\ late' \subseteq late
    BY <1>4, RefusalDrops
  <2>2. \A x \in UnderWay' : \E y \in outbox \cup UnderWay : Like(x, y)
    BY <1>1, <2>1 DEF UnderWay
  <2>3. \A p \in Peers, m \in Msgs : <<p, m>> \notin gap => DeliverySafe(p, m)'
    BY <1>1, <2>1, <2>2, NoPostKeeps DEF SyncInv
  <2>4. QED
    BY <2>1, <2>3 DEF SyncInv, RequestSound
<1>5. QED
  BY <1>2, <1>3, <1>4 DEF Receiver

\* What queueing makes of the rows of one peer and message.
LEMMA CoalescedRows ==
  ASSUME NEW p, NEW m, NEW type, NEW ver
  PROVE  LET created == \E r \in RowsOf(p, m) : r.type = "create"
         IN  /\ \A r \in Coalesced(p, m, type, ver) :
                  /\ About(r, p, m)
                  /\ r.ver = ver
                  /\ r.type = IF created THEN "create" ELSE type
                  /\ ~ (created /\ type = "delete")
             /\ Coalesced(p, m, type, ver) = {} => created /\ type = "delete"
<1> DEFINE created == \E r \in RowsOf(p, m) : r.type = "create"
           kept == IF created THEN "create" ELSE type
           row == [peer |-> p, msg |-> m, type |-> kept, ver |-> ver, due |-> TRUE]
<1>1. Coalesced(p, m, type, ver) = IF type = "delete" /\ created THEN {} ELSE {row}
  BY Zenon DEF Coalesced
<1>2. About(row, p, m) /\ row.ver = ver /\ row.type = kept
  BY DEF About
<1> HIDE DEF row, created, kept
<1>3. /\ \A r \in Coalesced(p, m, type, ver) :
           /\ About(r, p, m)
           /\ r.ver = ver
           /\ r.type = kept
           /\ ~ (created /\ type = "delete")
      /\ Coalesced(p, m, type, ver) = {} => created /\ type = "delete"
  BY <1>1, <1>2
<1>4. QED
  BY <1>3 DEF created, kept

\* A mutation that overlaps no transmission and is queued keeps what the
\* delivery of its message owes.
LEMMA MutationKeeps ==
  ASSUME TypeOK, RequestSound, NEW p \in Peers, NEW m \in Msgs,
         DeliverySafe(p, m), p \notin Overlapped(m),
         NEW type, NEW ver, Queue(m, type, ver),
         \/ type = "create" /\ WriteNew(m) /\ ver = 0
         \/ type = "update" /\ WriteEdit(m) /\ ver = authored[m].ver + 1
         \/ type = "delete" /\ WriteDelete(m) /\ ver = authored[m].ver
  PROVE  DeliverySafe(p, m)'
<1> DEFINE created == \E r \in RowsOf(p, m) : r.type = "create"
           kept == IF created THEN "create" ELSE type
<1>1. /\ outbox' = Queued(m, type, ver)
      /\ sent' \subseteq sent
      /\ UNCHANGED <<replica, snapshot, posting, batch, todo, accepted, duplicate,
                     late>>
  BY DEF Queue, worker, request
<1>2. ~ InFlight(p, m) /\ <<p, m>> \notin sent /\ Deliverable(p)
  BY DEF Overlapped
<1>3. RowsOf(p, m)' = Coalesced(p, m, type, ver)
  <2>1. \A q \in Peers : \A r \in Coalesced(q, m, type, ver) : About(r, q, m)
    BY CoalescedRows
  <2>2. \A r : r \in outbox' /\ About(r, p, m) <=> r \in Coalesced(p, m, type, ver)
    BY <1>1, <1>2, <2>1 DEF Queued, About
  <2>3. QED
    BY <2>2 DEF RowsOf, About
<1>4. /\ \A r \in RowsOf(p, m)' :
           /\ About(r, p, m)
           /\ r.ver = ver
           /\ r.type = kept
           /\ ~ (created /\ type = "delete")
      /\ RowsOf(p, m)' = {} => created /\ type = "delete"
  BY <1>3, CoalescedRows
<1>5. /\ \A x \in UnderWay' : ~ About(x, p, m)
      /\ ~ (posting' = p /\ m \in batch')
      /\ <<p, m>> \notin sent'
  BY <1>1, <1>2 DEF UnderWay, InFlight, About
<1>6. /\ authored'[m].ver = ver
      /\ authored'[m].state = IF type = "delete" THEN "deleted" ELSE "live"
      /\ type \in EventTypes
  BY DEF TypeOK, WriteNew, WriteEdit, WriteDelete, EventTypes
<1>7. /\ type = "create" => ~ HasCopy(p, m) /\ ~ created
      /\ type # "create" => (created <=> ~ HasCopy(p, m))
  <2>1. \A r \in RowsOf(p, m) :
          /\ authored[m].state # "none"
          /\ r.type = "create" => authored[m].state # "deleted"
          /\ r.type = "create" <=> ~ HasCopy(p, m)
    BY <1>2
    DEF DeliverySafe, PayloadsCurrent, FitBeforePost, RowsOf, About, Current
  <2>2. RowsOf(p, m) = {} => InSync(p, m)
    BY DEF DeliverySafe, SettledInSync
  <2>3. CASE type = "create"
    <3>1. authored[m].state = "none"
      BY <2>3 DEF WriteNew
    <3>2. QED
      BY <2>1, <2>2, <2>3, <3>1 DEF InSync
  <2>4. CASE type # "create"
    <3>1. authored[m].state = "live"
      BY <2>4 DEF WriteEdit, WriteDelete
    <3>2. RowsOf(p, m) = {} => HasCopy(p, m)
      BY <2>2, <3>1 DEF InSync, HasCopy
    <3>3. QED
      BY <2>1, <2>4, <3>2
  <2>5. QED
    BY <2>3, <2>4
<1> HIDE DEF created
<1>8. PayloadsCurrent(p, m)'
  <2> SUFFICES ASSUME NEW x, x \in outbox' \cup UnderWay', About(x, p, m)
               PROVE  /\ authored'[x.msg].state # "none"
                      /\ x.ver = authored'[x.msg].ver
                      /\ x.type = "delete" <=> authored'[x.msg].state = "deleted"
    BY DEF PayloadsCurrent, Current, About
  <2>1. x \in RowsOf(p, m)'
    BY <1>5 DEF RowsOf, About
  <2>2. x.msg = m /\ x.ver = ver /\ x.type = kept /\ ~ (created /\ type = "delete")
    BY <1>4, <2>1 DEF About
  <2>3. QED
    BY <1>6, <2>2
<1>9. SentAsQueued(p, m)' /\ PostedIsSent(p, m)'
  BY <1>5 DEF SentAsQueued, PostedIsSent, Requested, UnderWay, About
<1>10. HasCopy(p, m)' <=> HasCopy(p, m)
  BY <1>1 DEF HasCopy
<1>11. FitBeforePost(p, m)' /\ FitAfterPost(p, m)'
  BY <1>4, <1>5, <1>7, <1>10 DEF FitBeforePost, FitAfterPost
<1>12. SettledInSync(p, m)'
  <2>1. ~ (posting' = p /\ m \in accepted' \cup duplicate')
    <3>1. accepted \cup duplicate \subseteq batch
      BY DEF RequestSound
    <3>2. QED
      BY <1>1, <1>5, <3>1
  <2>2. ASSUME RowsOf(p, m)' = {} PROVE InSync(p, m)'
    <3>1. created /\ type = "delete"
      BY <1>4, <2>2
    <3>2. ~ HasCopy(p, m)
      BY <1>7, <3>1
    <3>3. QED
      BY <1>6, <1>10, <3>1, <3>2 DEF InSync
  <2>3. QED
    BY <2>1, <2>2 DEF SettledInSync
<1>13. QED
  BY <1>8, <1>9, <1>11, <1>12 DEF DeliverySafe

\* A mutation of one message leaves the delivery of the others as it is.
LEMMA MutationElsewhere ==
  ASSUME TypeOK, OneRowPerEntity, NEW p \in Peers, NEW m \in Msgs,
         DeliverySafe(p, m), NEW n \in Msgs, n # m, NEW type, NEW ver,
         Queue(n, type, ver), authored'[m] = authored[m]
  PROVE  DeliverySafe(p, m)'
<1>1. /\ outbox' = Queued(n, type, ver)
      /\ sent' = {s \in sent : \E r \in outbox' : s = <<r.peer, r.msg>>}
      /\ UNCHANGED <<replica, snapshot, posting, batch, todo, accepted, duplicate,
                     late>>
  BY DEF Queue, worker, request
<1>2. \A r : About(r, p, m) => (r \in outbox' <=> r \in outbox)
  <2>1. \A q \in Peers : \A r \in Coalesced(q, n, type, ver) : About(r, q, n)
    BY CoalescedRows
  <2>2. QED
    BY <1>1, <2>1 DEF Queued, About
<1>3. RowsOf(p, m)' = RowsOf(p, m)
  BY <1>2 DEF RowsOf, About
<1>4. RowsOf(p, m) # {} => (<<p, m>> \in sent' <=> <<p, m>> \in sent)
  BY <1>1, <1>3 DEF RowsOf
<1>5. /\ HasCopy(p, m)' <=> HasCopy(p, m)
      /\ InSync(p, m)' <=> InSync(p, m)
      /\ Requested(p, m)' <=> Requested(p, m)
  BY <1>1 DEF HasCopy, InSync, Requested
<1>6. PayloadsCurrent(p, m)'
  BY <1>1, <1>2 DEF DeliverySafe, PayloadsCurrent, UnderWay, About, Current
<1>7. SentAsQueued(p, m)'
  BY <1>1, <1>2 DEF DeliverySafe, SentAsQueued, UnderWay, About
<1>8. PostedIsSent(p, m)'
  BY <1>3, <1>4, <1>5 DEF DeliverySafe, PostedIsSent
<1>9. FitBeforePost(p, m)'
  BY <1>3, <1>4, <1>5 DEF DeliverySafe, FitBeforePost
<1>10. FitAfterPost(p, m)'
  BY <1>1, <1>3, <1>4, <1>5 DEF DeliverySafe, FitAfterPost, About
<1>11. SettledInSync(p, m)'
  BY <1>1, <1>3, <1>5 DEF DeliverySafe, SettledInSync
<1>12. QED
  BY <1>6, <1>7, <1>8, <1>9, <1>10, <1>11 DEF DeliverySafe

LEMMA AuthorSync ==
  ASSUME TypeOK, OneRowPerEntity, SyncInv, Author
  PROVE  SyncInv'
<1>1. ASSUME NEW n \in Msgs, NEW type, NEW ver, Queue(n, type, ver),
             \/ type = "create" /\ WriteNew(n) /\ ver = 0
             \/ type = "update" /\ WriteEdit(n) /\ ver = authored[n].ver + 1
             \/ type = "delete" /\ WriteDelete(n) /\ ver = authored[n].ver
      PROVE  SyncInv'
  <2>1. RequestSound'
    BY <1>1 DEF SyncInv, RequestSound, Queue, worker, request
  <2>2. ASSUME NEW p \in Peers, NEW m \in Msgs, <<p, m>> \notin gap'
        PROVE  DeliverySafe(p, m)'
    <3>1. <<p, m>> \notin gap /\ <<p, m>> \notin Overlapped(n) \X {n}
      BY <1>1, <2>2 DEF Queue
    <3>2. DeliverySafe(p, m) /\ RequestSound
      BY <3>1 DEF SyncInv
    <3>3. CASE n = m
      <4>1. p \notin Overlapped(n)
        BY <3>1, <3>3
      <4>2. QED
        BY <1>1, <3>2, <3>3, <4>1, MutationKeeps
    <3>4. CASE n # m
      <4>1. authored'[m] = authored[m]
        BY <1>1, <3>4 DEF TypeOK, WriteNew, WriteEdit, WriteDelete
      <4>2. QED
        BY <1>1, <3>2, <3>4, <4>1, MutationElsewhere
    <3>5. QED
      BY <3>3, <3>4
  <2>3. QED
    BY <2>1, <2>2 DEF SyncInv
<1>2. ASSUME NEW n \in Msgs, CrashInHandler(n) PROVE SyncInv'
  <2>1. /\ Idle
        /\ gap' = gap \cup (Peers \X {n})
        /\ snapshot' = {}
        /\ late' \subseteq todo \cup late
        /\ UNCHANGED <<replica, outbox, sent>>
        /\ WriteNew(n) \/ WriteEdit(n) \/ WriteDelete(n)
    BY <1>2 DEF CrashInHandler, GiveUp
  <2>2. RequestSound'
    BY <2>1 DEF Idle, RequestSound
  <2>3. ASSUME NEW p \in Peers, NEW m \in Msgs, <<p, m>> \notin gap'
        PROVE  DeliverySafe(p, m)'
    <3>1. <<p, m>> \notin gap /\ m # n
      BY <2>1, <2>3
    <3>2. DeliverySafe(p, m)
      BY <3>1 DEF SyncInv
    <3>3. authored'[m] = authored[m]
      BY <2>1, <3>1 DEF TypeOK, WriteNew, WriteEdit, WriteDelete
    <3>4. /\ RowsOf(p, m)' = RowsOf(p, m)
          /\ HasCopy(p, m)' <=> HasCopy(p, m)
          /\ UnderWay' \subseteq UnderWay
          /\ posting' # p
      BY <2>1, OutboxAssumption DEF RowsOf, HasCopy, UnderWay, Idle
    <3>5. InSync(p, m)' <=> InSync(p, m)
      BY <2>1, <3>3, <3>4 DEF InSync
    <3>6. Requested(p, m)' => Requested(p, m)
      BY <2>1, <3>4 DEF Requested, Idle
    <3>7. PayloadsCurrent(p, m)'
      BY <2>1, <3>2, <3>3, <3>4 DEF DeliverySafe, PayloadsCurrent, Current, About
    <3>8. SentAsQueued(p, m)'
      BY <2>1, <3>2, <3>4 DEF DeliverySafe, SentAsQueued
    <3>9. PostedIsSent(p, m)'
      BY <2>1, <3>2, <3>4, <3>6 DEF DeliverySafe, PostedIsSent
    <3>10. FitBeforePost(p, m)' /\ FitAfterPost(p, m)'
      BY <2>1, <3>2, <3>3, <3>4 DEF DeliverySafe, FitBeforePost, FitAfterPost
    <3>11. SettledInSync(p, m)'
      BY <2>1, <3>2, <3>4, <3>5 DEF DeliverySafe, SettledInSync
    <3>12. QED
      BY <3>7, <3>8, <3>9, <3>10, <3>11 DEF DeliverySafe
  <2>4. QED
    BY <2>2, <2>3 DEF SyncInv
<1>3. QED
  BY <1>1, <1>2 DEF Author, SendMessage, EditMessage, DeleteMessage

LEMMA SyncInvHolds == Spec => []SyncInv
<1>1. Init => SyncInv
  BY DEF Init, PromiseInit, SyncInv, RequestSound, DeliverySafe, PayloadsCurrent,
     SentAsQueued, PostedIsSent, FitBeforePost, FitAfterPost, SettledInSync,
     UnderWay, RowsOf, InSync, HasCopy
<1>2. TypeOK /\ OneRowPerEntity /\ SyncInv /\ [Next]_vars => SyncInv'
  <2>1. ASSUME SyncInv, UNCHANGED vars PROVE SyncInv'
    BY <2>1
    DEF vars, SyncInv, RequestSound, DeliverySafe, PayloadsCurrent, Current,
        SentAsQueued, PostedIsSent, Requested, FitBeforePost, FitAfterPost,
        SettledInSync, UnderWay, RowsOf, InSync, HasCopy, About
  <2>2. QED
    BY <2>1, AuthorSync, WorkerSync, ReceiverSync DEF Next
<1>3. QED
  BY <1>1, <1>2, TypeCorrect, OneRow, PTL DEF Spec

\* When no row of a message is left for a peer and nothing of it is under way,
\* the peer agrees with the author, unless a mutation of it fell in a gap.
THEOREM InSyncAtRest == Spec => []InSyncWhenQuiet
<1>1. SyncInv => InSyncWhenQuiet
  BY DEF SyncInv, DeliverySafe, SettledInSync, InSyncWhenQuiet, Quiet
<1>2. QED
  BY <1>1, SyncInvHolds, PTL

-----------------------------------------------------------------------------
(* Versions at a peer.                                                     *)

SameKey(x, y) == x.peer = y.peer /\ x.msg = y.msg

\* The payloads the worker still has to deliver.
Held == snapshot \cup todo

\* No queued payload is older than one under way or delivered.
RowsNewest ==
  \A r \in outbox, y \in UnderWay \cup replica :
    SameKey(r, y) => y.ver <= r.ver

\* What the worker holds is not older than what it gave up or the peer has.
HeldNewer ==
  \A x \in Held, y \in late \cup replica : SameKey(x, y) => y.ver <= x.ver

\* It holds one version of a message for a peer.
HeldOnce == \A x, y \in Held : SameKey(x, y) => x.ver = y.ver

CopiesWritten ==
  \A c \in replica :
    authored[c.msg].state # "none" /\ c.ver <= authored[c.msg].ver

VersionsInv ==
  /\ RowsNewest
  /\ HeldNewer
  /\ HeldOnce
  /\ CopiesWritten
  /\ posting = NoPeer => todo = {}

LEMMA Numbers ==
  ASSUME TypeOK
  PROVE  /\ \A x \in outbox \cup UnderWay \cup replica : x.ver \in Nat
         /\ \A m \in Msgs : authored[m].ver \in Nat
BY MaxEditsAssumption
DEF TypeOK, Row, Entry, Event, Copy, AuthoredMessage, Versions, UnderWay

\* Payloads that only move on keep their order.
LEMMA MovesVersions ==
  ASSUME TypeOK, VersionsInv, UNCHANGED <<authored, replica>>,
         \A r \in outbox' : \E s \in outbox : Like(r, s),
         snapshot' \subseteq snapshot,
         \A x \in Held' : \E y \in Held : Like(x, y),
         late' \subseteq todo \cup late,
         posting' = NoPeer => todo' = {}
  PROVE  VersionsInv'
<1>1. \A x \in UnderWay' : \E y \in UnderWay : Like(x, y)
  BY DEF UnderWay, Held, Like
<1>2. RowsNewest'
  BY <1>1 DEF VersionsInv, RowsNewest, Like, SameKey
<1>3. HeldOnce'
  BY DEF VersionsInv, HeldOnce, Like, SameKey
<1>4. ASSUME NEW x \in Held', NEW y \in late' \cup replica', SameKey(x, y)
      PROVE  y.ver <= x.ver
  <2>1. PICK z \in Held : Like(x, z)
    OBVIOUS
  <2>2. SameKey(z, y)
    BY <1>4, <2>1 DEF SameKey, Like
  <2>3. CASE y \in late \cup replica
    BY <2>1, <2>2, <2>3 DEF VersionsInv, HeldNewer, Like
  <2>4. CASE y \in todo
    <3>1. y.ver \in Nat
      BY <2>4, Numbers DEF UnderWay
    <3>2. QED
      BY <2>1, <2>2, <2>4, <3>1 DEF VersionsInv, HeldOnce, Held, Like
  <2>5. QED
    BY <1>4, <2>3, <2>4
<1>5. HeldNewer' /\ CopiesWritten'
  BY <1>4 DEF VersionsInv, HeldNewer, CopiesWritten
<1>6. QED
  BY <1>2, <1>3, <1>5 DEF VersionsInv

LEMMA WorkerVersions ==
  ASSUME TypeOK, OneRowPerEntity, VersionsInv, Worker
  PROVE  VersionsInv'
<1>1. \A x : Like(x, x)
  BY DEF Like
<1>2. CASE SelectDue
  <2>1. /\ UNCHANGED <<authored, replica, outbox, posting, todo, late>>
        /\ todo = {}
        /\ \A x \in snapshot' : \E s \in outbox : Like(x, s)
    BY <1>2 DEF SelectDue, Like, author, request, VersionsInv
  <2>2. \A x \in Held' : \E s \in outbox : Like(x, s)
    BY <2>1 DEF Held
  <2>3. HeldNewer'
    <3> SUFFICES ASSUME NEW x \in Held', NEW y \in late \cup replica, SameKey(x, y)
                 PROVE  y.ver <= x.ver
      BY <2>1 DEF HeldNewer
    <3>1. PICK s \in outbox : Like(x, s)
      BY <2>2
    <3>2. QED
      BY <3>1 DEF VersionsInv, RowsNewest, UnderWay, SameKey, Like
  <2>4. HeldOnce'
    BY <2>2 DEF HeldOnce, SameKey, Like, OneRowPerEntity
  <2>5. RowsNewest'
    <3> SUFFICES ASSUME NEW r \in outbox, NEW y \in UnderWay' \cup replica,
                        SameKey(r, y)
                 PROVE  y.ver <= r.ver
      BY <2>1 DEF RowsNewest
    <3>1. CASE y \in late \cup replica
      BY <3>1 DEF VersionsInv, RowsNewest, UnderWay
    <3>2. CASE y \in Held'
      <4>1. PICK s \in outbox : Like(y, s)
        BY <2>2, <3>2
      <4>2. s = r
        BY <4>1 DEF Like, SameKey, OneRowPerEntity
      <4>3. r.ver \in Nat
        BY Numbers
      <4>4. QED
        BY <4>1, <4>2, <4>3 DEF Like
    <3>3. QED
      BY <2>1, <3>1, <3>2 DEF UnderWay, Held
  <2>6. QED
    BY <2>1, <2>3, <2>4, <2>5 DEF VersionsInv, CopiesWritten
<1>3. CASE \/ WorkerRestart
           \/ \E q \in Peers : DeliveryFailed(q) \/ DeliveryRefused(q)
  <2>1. /\ UNCHANGED <<authored, replica>>
        /\ Idle
        /\ snapshot' \subseteq snapshot
        /\ late' \subseteq todo \cup late
        /\ outbox' = outbox \/ \E q \in Peers : outbox' = BackedOff(q)
    BY <1>3 DEF WorkerRestart, DeliveryFailed, DeliveryRefused, GiveUp, author
  <2>2. \A r \in outbox' : \E s \in outbox : Like(r, s)
    BY <1>1, <2>1, BackedOffLike
  <2>3. \A x \in Held' : \E y \in Held : Like(x, y)
    BY <1>1, <2>1 DEF Held, Idle
  <2>4. QED
    BY <2>1, <2>2, <2>3, MovesVersions DEF Idle
<1>4. ASSUME NEW q \in Peers, PostRelay(q) PROVE VersionsInv'
  <2>1. /\ posting' = q
        /\ \A x \in todo' : \E e \in snapshot : Like(x, e)
        /\ snapshot' \subseteq snapshot
        /\ UNCHANGED <<authored, replica, outbox, late>>
    BY <1>4 DEF PostRelay, author, Like, EntriesFor
  <2>2. \A x \in Held' : \E y \in Held : Like(x, y)
    BY <1>1, <2>1 DEF Held
  <2>3. QED
    BY <1>1, <2>1, <2>2, OutboxAssumption, MovesVersions
<1>5. ASSUME NEW q \in Peers, DeliveryAnswered(q) PROVE VersionsInv'
  <2>1. /\ Idle
        /\ outbox' \subseteq outbox
        /\ UNCHANGED <<authored, replica, snapshot, late>>
    BY <1>5 DEF DeliveryAnswered, author
  <2>2. \A x \in Held' : \E y \in Held : Like(x, y)
    BY <1>1, <2>1 DEF Held, Idle
  <2>3. QED
    BY <1>1, <2>1, <2>2, MovesVersions DEF Idle
<1>6. CASE \/ \E q \in Peers : PeerRecovers(q) \/ InboundRelay(q)
           \/ \E r \in outbox : BackoffElapses(r)
  <2>1. UNCHANGED <<authored, replica, snapshot, posting, todo, late>>
    BY <1>6
    DEF PeerRecovers, InboundRelay, BackoffElapses, author, worker, request
  <2>2. \A r \in outbox' : \E s \in outbox : Like(r, s)
    <3>1. CASE \E q \in Peers : InboundRelay(q)
      BY <1>1, <3>1 DEF InboundRelay
    <3>2. QED
      BY <1>6, <3>1, RecoveredLike, DueLike
  <2>3. \A x \in Held' : \E y \in Held : Like(x, y)
    BY <1>1, <2>1 DEF Held
  <2>4. QED
    BY <2>1, <2>2, <2>3, MovesVersions DEF VersionsInv
<1>7. QED
  BY <1>2, <1>3, <1>4, <1>5, <1>6 DEF Worker

\* A write of the author makes no version smaller.
LEMMA WriteGrows ==
  ASSUME TypeOK, NEW n \in Msgs, WriteNew(n) \/ WriteEdit(n) \/ WriteDelete(n),
         NEW m \in Msgs, authored[m].state # "none"
  PROVE  /\ authored'[m].state # "none"
         /\ authored[m].ver <= authored'[m].ver
         /\ authored'[m].ver \in Nat
<1>1. authored[m].ver \in Nat
  BY Numbers
<1>2. CASE m # n
  BY <1>1, <1>2 DEF TypeOK, WriteNew, WriteEdit, WriteDelete
<1>3. CASE m = n
  BY <1>1, <1>3 DEF TypeOK, WriteNew, WriteEdit, WriteDelete
<1>4. QED
  BY <1>2, <1>3

LEMMA AuthorVersions ==
  ASSUME TypeOK, AllGenuine, VersionsInv, Author
  PROVE  VersionsInv'
<1>1. ASSUME NEW n \in Msgs, WriteNew(n) \/ WriteEdit(n) \/ WriteDelete(n),
             UNCHANGED replica
      PROVE  CopiesWritten'
  <2> SUFFICES ASSUME NEW c \in replica
               PROVE  /\ authored'[c.msg].state # "none"
                      /\ c.ver <= authored'[c.msg].ver
    BY <1>1 DEF CopiesWritten
  <2>1. c.msg \in Msgs /\ c.ver \in Nat /\ authored[c.msg].ver \in Nat
    BY Numbers DEF TypeOK, Copy
  <2>2. authored[c.msg].state # "none" /\ c.ver <= authored[c.msg].ver
    BY DEF VersionsInv, CopiesWritten
  <2>3. QED
    BY <1>1, <2>1, <2>2, WriteGrows
<1>2. ASSUME NEW n \in Msgs, NEW type, NEW ver, Queue(n, type, ver),
             WriteNew(n) \/ WriteEdit(n) \/ WriteDelete(n),
             ver = authored'[n].ver
      PROVE  VersionsInv'
  <2>1. /\ outbox' = Queued(n, type, ver)
        /\ UNCHANGED <<replica, snapshot, posting, todo, late>>
    BY <1>2 DEF Queue, worker, request
  <2>2. CopiesWritten'
    BY <1>1, <1>2, <2>1
  <2>3. RowsNewest'
    <3> SUFFICES ASSUME NEW r \in outbox', NEW y \in UnderWay \cup replica,
                        SameKey(r, y)
                 PROVE  y.ver <= r.ver
      BY <2>1 DEF RowsNewest, UnderWay
    <3>1. CASE r \in outbox
      BY <3>1 DEF VersionsInv, RowsNewest
    <3>2. CASE r \notin outbox
      <4>1. r.msg = n /\ r.ver = ver
        BY <2>1, <3>2, CoalescedRows DEF Queued, About
      <4>2. y.ver \in Nat /\ authored[n].ver \in Nat
        BY Numbers
      <4>3. authored[n].state # "none" /\ y.ver <= authored[n].ver
        BY <4>1
        DEF SameKey, UnderWay, AllGenuine, Genuine, VersionsInv, CopiesWritten
      <4>4. QED
        BY <1>2, <4>1, <4>2, <4>3, WriteGrows
    <3>3. QED
      BY <3>1, <3>2
  <2>4. HeldNewer' /\ HeldOnce'
    BY <2>1 DEF VersionsInv, HeldNewer, HeldOnce, Held
  <2>5. QED
    BY <2>1, <2>2, <2>3, <2>4 DEF VersionsInv
<1>3. ASSUME NEW n \in Msgs, SendMessage(n) \/ EditMessage(n) \/ DeleteMessage(n)
      PROVE  VersionsInv'
  BY <1>2, <1>3
  DEF SendMessage, EditMessage, DeleteMessage, WriteNew, WriteEdit, WriteDelete,
      TypeOK
<1>4. ASSUME NEW n \in Msgs, CrashInHandler(n) PROVE VersionsInv'
  <2>1. /\ Idle
        /\ snapshot' = {}
        /\ late' \subseteq todo \cup late
        /\ UNCHANGED <<replica, outbox>>
        /\ WriteNew(n) \/ WriteEdit(n) \/ WriteDelete(n)
    BY <1>4 DEF CrashInHandler, GiveUp
  <2>2. CopiesWritten'
    BY <1>1, <2>1
  <2>3. UnderWay' \subseteq UnderWay /\ Held' = {}
    BY <2>1 DEF UnderWay, Held, Idle
  <2>4. QED
    BY <2>1, <2>2, <2>3
    DEF VersionsInv, RowsNewest, HeldNewer, HeldOnce, Idle
<1>5. QED
  BY <1>3, <1>4 DEF Author

\* What applying an event leaves at the peer: the old copies and the event's.
LEMMA AppliedCopies ==
  ASSUME NEW e, ApplyEvent(e), NEW c \in replica'
  PROVE  c \in replica \/ (SameKey(c, e) /\ c.ver = e.ver)
BY DEF ApplyEvent, DedupeCreate, InsertCreate, ApplyUpdate, ApplyDelete, SameKey

LEMMA ServeVersions ==
  ASSUME TypeOK, AllGenuine, VersionsInv, NEW e \in todo \cup late,
         ApplyEvent(e), UNCHANGED <<authored, outbox, snapshot, posting>>,
         \A x \in todo' : \E y \in todo : Like(x, y),
         \A x \in late' : \E y \in late : Like(x, y)
  PROVE  VersionsInv'
<1>1. /\ \A x \in UnderWay' : \E y \in UnderWay : Like(x, y)
      /\ \A x \in Held' : \E y \in Held : Like(x, y)
  BY DEF UnderWay, Held, Like
<1>2. \A c \in replica' : c \in replica \/ (SameKey(c, e) /\ c.ver = e.ver)
  BY AppliedCopies
<1>3. e \in UnderWay /\ e.ver \in Nat
  BY Numbers DEF UnderWay
<1>4. RowsNewest'
  <2> SUFFICES ASSUME NEW r \in outbox, NEW y \in UnderWay' \cup replica',
                      SameKey(r, y)
               PROVE  y.ver <= r.ver
    BY DEF RowsNewest
  <2>1. PICK z \in UnderWay \cup replica : SameKey(r, z) /\ z.ver = y.ver
    BY <1>1, <1>2, <1>3 DEF SameKey, Like
  <2>2. QED
    BY <2>1 DEF VersionsInv, RowsNewest
<1>5. HeldNewer'
  <2> SUFFICES ASSUME NEW x \in Held', NEW y \in late' \cup replica', SameKey(x, y)
               PROVE  y.ver <= x.ver
    BY DEF HeldNewer
  <2>1. PICK w \in Held : Like(x, w)
    BY <1>1
  <2>2. PICK z \in late \cup replica \cup {e} : SameKey(w, z) /\ z.ver = y.ver
    <3>1. SameKey(w, y)
      BY <2>1 DEF SameKey, Like
    <3>2. CASE y \in late'
      <4>1. PICK z \in late : Like(y, z)
        BY <3>2
      <4>2. QED
        BY <3>1, <4>1 DEF SameKey, Like
    <3>3. CASE y \in replica'
      BY <1>2, <3>1, <3>3 DEF SameKey
    <3>4. QED
      BY <3>2, <3>3
  <2>3. CASE z \in late \cup replica
    BY <2>1, <2>2, <2>3 DEF VersionsInv, HeldNewer, Like
  <2>4. CASE z = e /\ e \in todo
    BY <1>3, <2>1, <2>2, <2>4 DEF VersionsInv, HeldOnce, Held, Like
  <2>5. QED
    BY <2>2, <2>3, <2>4
<1>6. HeldOnce'
  BY <1>1 DEF VersionsInv, HeldOnce, SameKey, Like
<1>7. CopiesWritten'
  BY <1>2, <1>3
  DEF VersionsInv, CopiesWritten, UnderWay, AllGenuine, Genuine, SameKey
<1>8. QED
  BY <1>4, <1>5, <1>6, <1>7 DEF VersionsInv

LEMMA ReceiverVersions ==
  ASSUME TypeOK, AllGenuine, VersionsInv, Receiver
  PROVE  VersionsInv'
<1>1. \A x : Like(x, x)
  BY DEF Like
<1>2. ASSUME NEW e \in todo, ServeEvent(e) PROVE VersionsInv'
  <2>1. \A x \in todo' : \E y \in todo : Like(x, y)
    BY <1>2, RemainingLike DEF ServeEvent, TypeOK
  <2>2. QED
    BY <1>1, <1>2, <2>1, ServeVersions DEF ServeEvent, author, worker
<1>3. ASSUME NEW e \in late, ServeLateEvent(e) PROVE VersionsInv'
  <2>1. \A x \in late' : \E y \in late : Like(x, y)
    BY <1>3, RemainingLike DEF ServeLateEvent, TypeOK
  <2>2. QED
    BY <1>1, <1>3, <2>1, ServeVersions DEF ServeLateEvent, author, worker, request
<1>4. ASSUME NEW e \in todo \cup late, RefuseEvent(e) \/ RefuseLateEvent(e)
      PROVE  VersionsInv'
  <2>1. /\ UNCHANGED <<authored, replica, outbox, snapshot, posting>>
        /\ todo' \subseteq todo
        /\ late' \subseteq late
    BY <1>4, RefusalDrops
  <2>2. \A x \in Held' : \E y \in Held : Like(x, y)
    BY <1>1, <2>1 DEF Held
  <2>3. posting' = NoPeer => todo' = {}
    BY <2>1 DEF VersionsInv
  <2>4. QED
    BY <1>1, <2>1, <2>2, <2>3, MovesVersions
<1>5. QED
  BY <1>2, <1>3, <1>4 DEF Receiver

LEMMA VersionsInvHolds == Spec => []VersionsInv
<1>1. Init => VersionsInv
  BY DEF Init, PromiseInit, VersionsInv, RowsNewest, HeldNewer, HeldOnce, Held,
     CopiesWritten
<1>2. TypeOK /\ OneRowPerEntity /\ AllGenuine /\ VersionsInv /\ [Next]_vars
        => VersionsInv'
  <2>1. ASSUME VersionsInv, UNCHANGED vars PROVE VersionsInv'
    BY <2>1
    DEF vars, VersionsInv, RowsNewest, HeldNewer, HeldOnce, CopiesWritten,
        UnderWay, Held
  <2>2. QED
    BY <2>1, AuthorVersions, WorkerVersions, ReceiverVersions DEF Next
<1>3. QED
  BY <1>1, <1>2, TypeCorrect, OneRow, PayloadsGenuine, PTL DEF Spec

\* A peer's copy goes back to an older version only when the peer applies an
\* event of a request the worker gave up.
THEOREM OnlyLateRegresses == Spec => RegressesOnlyLate
<1>1. /\ TypeOK /\ OneCopyPerMessage /\ VersionsInv
      /\ [Next]_vars
      => [(\E c \in replica : Regresses(c)) => late' # late]_vars
  <2> SUFFICES ASSUME TypeOK, OneCopyPerMessage, VersionsInv, [Next]_vars,
                      NEW c \in replica, NEW d \in replica',
                      d.peer = c.peer, d.msg = c.msg, d.ver < c.ver,
                      late' = late
               PROVE  FALSE
    BY DEF Regresses
  <2>1. c.ver \in Nat
    BY Numbers
  <2>2. d \notin replica
    BY <2>1 DEF OneCopyPerMessage
  <2>3. PICK e \in todo \cup late : ServeEvent(e) \/ ServeLateEvent(e)
    BY <2>2
    DEF Next, Author, Worker, Receiver, SendMessage, EditMessage, DeleteMessage,
        CrashInHandler, Queue, SelectDue, WorkerRestart, PostRelay,
        DeliveryAnswered, DeliveryFailed, DeliveryRefused, PeerRecovers,
        InboundRelay, BackoffElapses, RefuseEvent, RefuseLateEvent, RefuseCreate,
        vars
  <2>4. ApplyEvent(e)
    BY <2>3 DEF ServeEvent, ServeLateEvent
  <2>5. SameKey(d, e) /\ d.ver = e.ver
    BY <2>2, <2>4, AppliedCopies
  <2>6. CASE e \in todo
    <3>1. e.ver \in Nat
      BY <2>6, Numbers DEF UnderWay
    <3>2. c.ver <= e.ver
      BY <2>5, <2>6 DEF VersionsInv, HeldNewer, Held, SameKey
    <3>3. QED
      BY <2>1, <2>5, <3>1, <3>2
  <2>7. CASE e \in late /\ ServeLateEvent(e)
    <3>1. e.type # "create"
      BY <2>2, <2>4, <2>5
      DEF ApplyEvent, DedupeCreate, InsertCreate, ApplyUpdate, ApplyDelete,
          HasCopy, SameKey
    <3>2. e \notin late'
      BY <2>7, <3>1 DEF ServeLateEvent, Remaining, Answer
    <3>3. QED
      BY <2>7, <3>2
  <2>8. QED
    BY <2>3, <2>6, <2>7 DEF ServeEvent
<1>2. QED
  BY <1>1, TypeCorrect, OneCopy, VersionsInvHolds, PTL DEF Spec, RegressesOnlyLate
=============================================================================
