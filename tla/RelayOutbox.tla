---------------------------- MODULE RelayOutbox ----------------------------
(***************************************************************************)
(* Federated relay of direct messages from one instance to its peers:      *)
(* the author's handlers queue one outbox row per peer and message, the    *)
(* outbox worker posts the due rows of one peer at a time from a snapshot  *)
(* it took at the start of its tick, and the peer applies the events to    *)
(* its replica.  A response may be lost, a request may be applied long     *)
(* after the worker gave it up, the process may stop between two awaits.   *)
(*                                                                         *)
(* Payloads are abstracted to the version of the message they carry; the   *)
(* attempt count and nextRetryAt of a row to "is it due".  Events of one   *)
(* request are applied in any order: they are about different messages.    *)
(* OUTBOX_BATCH_LIMIT, the 30-day TTL of rows and the peer states other    *)
(* than the three below are outside this module.                           *)
(***************************************************************************)
EXTENDS RelayPromise, FiniteSets

CONSTANTS
  NoPeer,                \* the worker has no POST outstanding
  UnreachableThreshold,  \* PEER_UNREACHABLE_THRESHOLD
  AuthFailureThreshold,  \* AUTH_FAILURE_THRESHOLD
  MaxLate                \* bound: given-up events a peer may still apply

ASSUME OutboxAssumption ==
  /\ NoPeer \notin Peers
  /\ UnreachableThreshold \in Nat \ {0}
  /\ AuthFailureThreshold \in Nat \ {0}
  /\ MaxLate \in Nat

VARIABLES
  status,        \* federation_peers.status of each peer
  failures,      \* federation_peers.consecutive_failures
  authFailures,  \* federation_peers.consecutive_auth_failures
  outbox,        \* the rows of federation_outbox
  snapshot,      \* entries selected by this tick, not yet posted
  posting,       \* the peer whose POST /relay is outstanding, or NoPeer
  batch,         \* the messages in the outstanding request
  todo,          \* its events, not yet processed by the peer
  accepted,      \* its messages the peer answered "accepted"
  duplicate,     \* its messages the peer answered "duplicate"
  late,          \* events of requests given up by the worker
  sent,          \* history: <<p, m>> whose row was posted, not answered
  gap            \* history: <<p, m>> with a mutation the outbox may miss

author   == <<authored>>
peerRows == <<status, failures, authFailures>>
worker   == <<snapshot, posting, batch>>
request  == <<todo, accepted, duplicate>>
history  == <<sent, gap>>
vars == <<authored, replica, status, failures, authFailures, outbox, snapshot,
          posting, batch, todo, accepted, duplicate, late, sent, gap>>

EventTypes == {"create", "update", "delete"}

PeerStatus == {"active", "unreachable", "needs_attention"}

Row == [peer : Peers, msg : Msgs, type : EventTypes, ver : Versions,
        due : BOOLEAN]

Entry == [peer : Peers, msg : Msgs, type : EventTypes, ver : Versions]

\* "checked": a create that passed the dedupe query and awaits the hydration
\* of its participants' profiles.
Event == [peer : Peers, msg : Msgs, type : EventTypes, ver : Versions,
          checked : BOOLEAN]

TypeOK ==
  /\ authored \in [Msgs -> AuthoredMessage]
  /\ replica \subseteq Copy
  /\ status \in [Peers -> PeerStatus]
  /\ failures \in [Peers -> Nat]
  /\ authFailures \in [Peers -> Nat]
  /\ outbox \subseteq Row
  /\ snapshot \subseteq Entry
  /\ posting \in Peers \cup {NoPeer}
  /\ batch \subseteq Msgs
  /\ todo \subseteq Event
  /\ accepted \subseteq Msgs
  /\ duplicate \subseteq Msgs
  /\ late \subseteq Event
  /\ sent \subseteq Peers \X Msgs
  /\ gap \subseteq Peers \X Msgs

Init ==
  /\ PromiseInit
  /\ status = [p \in Peers |-> "active"]
  /\ failures = [p \in Peers |-> 0]
  /\ authFailures = [p \in Peers |-> 0]
  /\ outbox = {}
  /\ snapshot = {}
  /\ posting = NoPeer
  /\ batch = {}
  /\ todo = {}
  /\ accepted = {}
  /\ duplicate = {}
  /\ late = {}
  /\ sent = {}
  /\ gap = {}

-----------------------------------------------------------------------------
(* The end of an outstanding request, for whatever reason.                 *)

\* The worker is done with the outstanding request.
Idle ==
  /\ posting' = NoPeer
  /\ batch' = {}
  /\ todo' = {}
  /\ accepted' = {}
  /\ duplicate' = {}

\* The peer never sees the rest of the request, or goes on with it unheard.
GiveUp(rest) ==
  \/ late' = late
  \/ /\ Cardinality(late \cup rest) <= MaxLate
     /\ late' = late \cup rest

-----------------------------------------------------------------------------
(* The author's handlers and queueOutboxEvent.                             *)

RowsOf(p, m) == {r \in outbox : r.peer = p /\ r.msg = m}

\* queueOutboxEvent selects the peers it enqueues for; for the others the
\* mutation log alone remembers the mutation.
Deliverable(p) == status[p] \in {"active", "unreachable"}

\* Mutant of Coalesced: the row is inserted without looking for the old one.
AppendedRow(p, m, type, ver) ==
  RowsOf(p, m) \cup {[peer |-> p, msg |-> m, type |-> type, ver |-> ver,
                      due |-> TRUE]}

\* Mutant of Coalesced: a queued create keeps the payload it was queued with.
StalePayload(p, m, type, ver) ==
  LET creates == {r \in RowsOf(p, m) : r.type = "create"}
  IN  IF creates # {}
      THEN IF type = "delete" THEN {} ELSE creates
      ELSE {[peer |-> p, msg |-> m, type |-> type, ver |-> ver, due |-> TRUE]}

\* Mutant of Coalesced: an edit turns the queued create into an update.
LatestType(p, m, type, ver) ==
  IF type = "delete" /\ \E r \in RowsOf(p, m) : r.type = "create"
  THEN {}
  ELSE {[peer |-> p, msg |-> m, type |-> type, ver |-> ver, due |-> TRUE]}

\* The rows of one (peer, entity) key after queueOutboxEvent: a delete cancels
\* a queued create, a queued create stays a create with the new payload, any
\* other row takes the new type and payload.
Coalesced(p, m, type, ver) ==
  LET old == RowsOf(p, m)
      kept == IF \E r \in old : r.type = "create" THEN "create" ELSE type
  IN  IF type = "delete" /\ \E r \in old : r.type = "create"
      THEN {}
      ELSE {[peer |-> p, msg |-> m, type |-> kept, ver |-> ver, due |-> TRUE]}

Queued(m, type, ver) ==
  {r \in outbox : r.msg # m \/ ~ Deliverable(r.peer)}
    \cup UNION {Coalesced(p, m, type, ver) : p \in {q \in Peers : Deliverable(q)}}

\* An event about m is on its way to p: selected, posted, or given up.
InFlight(p, m) ==
  \/ \E e \in snapshot : e.peer = p /\ e.msg = m
  \/ \E e \in todo \cup late : e.peer = p /\ e.msg = m
  \/ posting = p /\ m \in batch

\* The peers for which a mutation of m now is not sure to reach the replica:
\* it overlaps a transmission that is not answered, or it is not queued.
Overlapped(m) ==
  {p \in Peers : \/ InFlight(p, m)
                 \/ <<p, m>> \in sent
                 \/ ~ Deliverable(p)}

Queue(m, type, ver) ==
  /\ outbox' = Queued(m, type, ver)
  /\ sent' = {s \in sent : \E r \in outbox' : s = <<r.peer, r.msg>>}
  /\ gap' = gap \cup (Overlapped(m) \X {m})
  /\ UNCHANGED <<replica, peerRows, worker, request, late>>

\* Mutant of SendMessage: the handler queues the event before it writes the
\* message.
QueuedBeforeWritten(m) ==
  /\ authored[m].state = "none"
  /\ UNCHANGED authored
  /\ Queue(m, "create", 0)

SendMessage(m) ==
  /\ WriteNew(m)
  /\ Queue(m, "create", 0)

EditMessage(m) ==
  /\ WriteEdit(m)
  /\ Queue(m, "update", authored[m].ver + 1)

DeleteMessage(m) ==
  /\ WriteDelete(m)
  /\ Queue(m, "delete", authored[m].ver)

\* The process stops between the handler's write and queueOutboxEvent: they are
\* not one transaction, and the worker's tick is lost as well.
CrashInHandler(m) ==
  /\ WriteNew(m) \/ WriteEdit(m) \/ WriteDelete(m)
  /\ gap' = gap \cup (Peers \X {m})
  /\ snapshot' = {}
  /\ GiveUp(todo)
  /\ Idle
  /\ UNCHANGED <<replica, peerRows, outbox, sent>>

-----------------------------------------------------------------------------
(* The outbox worker.                                                      *)

\* Mutant of SelectDue: a second tick starts while one is running.
OverlappingTick ==
  /\ LET due == {r \in outbox : r.due /\ status[r.peer] = "active"}
     IN  /\ due # {}
         /\ snapshot' = snapshot \cup
              {[peer |-> r.peer, msg |-> r.msg, type |-> r.type, ver |-> r.ver]
                 : r \in due}
  /\ UNCHANGED <<author, replica, peerRows, outbox, posting, batch, request,
                 late, history>>

\* One tick: the due rows of active peers, read once.
SelectDue ==
  /\ posting = NoPeer
  /\ snapshot = {}
  /\ LET due == {r \in outbox : r.due /\ status[r.peer] = "active"}
     IN  /\ due # {}
         /\ snapshot' = {[peer |-> r.peer, msg |-> r.msg, type |-> r.type,
                          ver |-> r.ver] : r \in due}
  /\ UNCHANGED <<author, replica, peerRows, outbox, posting, batch, request,
                 late, history>>

EntriesFor(p) == {e \in snapshot : e.peer = p}

\* The next peer of the tick: its request carries the snapshot's payloads.
PostRelay(p) ==
  /\ posting = NoPeer
  /\ EntriesFor(p) # {}
  /\ posting' = p
  /\ batch' = {e.msg : e \in EntriesFor(p)}
  /\ todo' = {[peer |-> p, msg |-> e.msg, type |-> e.type, ver |-> e.ver,
               checked |-> FALSE] : e \in EntriesFor(p)}
  /\ snapshot' = snapshot \ EntriesFor(p)
  /\ sent' = sent \cup {<<p, e.msg>> : e \in EntriesFor(p)}
  /\ UNCHANGED <<author, replica, peerRows, outbox, accepted, duplicate, late,
                 gap>>

\* Mutant of DeliveryAnswered: the settled rows are deleted by message, those
\* of the other peers too.
AnsweredForAllPeers(p) ==
  /\ posting = p
  /\ todo = {}
  /\ LET settled == accepted \cup duplicate
     IN  /\ outbox' = {r \in outbox : r.msg \notin settled}
         /\ sent' = {s \in sent : s[2] \notin settled}
  /\ failures' = [failures EXCEPT ![p] = 0]
  /\ authFailures' = [authFailures EXCEPT ![p] = 0]
  /\ Idle
  /\ UNCHANGED <<author, replica, status, snapshot, late, gap>>

\* Mutant of DeliveryAnswered: a duplicate is not taken for a delivery.
DuplicateRetried(p) ==
  /\ posting = p
  /\ todo = {}
  /\ outbox' = {r \in outbox : r.peer # p \/ r.msg \notin accepted}
  /\ sent' = {s \in sent : s[1] # p \/ s[2] \notin accepted}
  /\ failures' = [failures EXCEPT ![p] = 0]
  /\ authFailures' = [authFailures EXCEPT ![p] = 0]
  /\ Idle
  /\ UNCHANGED <<author, replica, status, snapshot, late, gap>>

\* HTTP 200: rows answered "accepted" or "duplicate" are deleted by their id,
\* whatever they hold now; rows rejected otherwise stay as they are.
DeliveryAnswered(p) ==
  /\ posting = p
  /\ todo = {}
  /\ LET settled == accepted \cup duplicate
     IN  /\ outbox' = {r \in outbox : r.peer # p \/ r.msg \notin settled}
         /\ sent' = {s \in sent : s[1] # p \/ s[2] \notin settled}
  /\ failures' = [failures EXCEPT ![p] = 0]
  /\ authFailures' = [authFailures EXCEPT ![p] = 0]
  /\ Idle
  /\ UNCHANGED <<author, replica, status, snapshot, late, gap>>

\* applyOutboxEntryBackoff over the rows of the request.
BackedOff(p) ==
  {[r EXCEPT !.due = r.due /\ ~ (r.peer = p /\ r.msg \in batch)] : r \in outbox}

\* Timeout, connection error or a non-2xx answer other than 401 and 403.
DeliveryFailed(p) ==
  /\ posting = p
  /\ outbox' = BackedOff(p)
  /\ failures' = [failures EXCEPT ![p] = failures[p] + 1]
  /\ status' = IF failures[p] + 1 >= UnreachableThreshold
               THEN [status EXCEPT ![p] = "unreachable"]
               ELSE status
  /\ GiveUp(todo)
  /\ Idle
  /\ UNCHANGED <<author, replica, authFailures, snapshot, history>>

\* Mutant of DeliveryRefused: the peer is rejected, a status only a denied
\* peering may set.
RefusedForGood(p) ==
  /\ posting = p
  /\ {e.msg : e \in {x \in todo : ~ x.checked}} = batch
  /\ authFailures' = [authFailures EXCEPT ![p] = authFailures[p] + 1]
  /\ status' = [status EXCEPT ![p] = "rejected"]
  /\ Idle
  /\ UNCHANGED <<author, replica, failures, outbox, snapshot, late, history>>

\* 401 or 403: authenticateS2SPeer refused the request before any event.
DeliveryRefused(p) ==
  /\ posting = p
  /\ {e.msg : e \in {x \in todo : ~ x.checked}} = batch
  /\ authFailures' = [authFailures EXCEPT ![p] = authFailures[p] + 1]
  /\ IF authFailures[p] + 1 >= AuthFailureThreshold
     THEN /\ status' = [status EXCEPT ![p] = "needs_attention"]
          /\ outbox' = outbox
     ELSE /\ status' = status
          /\ outbox' = BackedOff(p)
  /\ Idle
  /\ UNCHANGED <<author, replica, failures, snapshot, late, history>>

\* stopFederationWorkers, or the process stops: the tick's memory is lost, the
\* tables stay.
WorkerRestart ==
  /\ posting # NoPeer \/ snapshot # {}
  /\ snapshot' = {}
  /\ GiveUp(todo)
  /\ Idle
  /\ UNCHANGED <<author, replica, peerRows, outbox, history>>

BackoffElapses(r) ==
  /\ ~ r.due
  /\ outbox' = (outbox \ {r}) \cup {[r EXCEPT !.due = TRUE]}
  /\ UNCHANGED <<author, replica, peerRows, worker, request, late, history>>

\* processRecoveryTick reached the peer: markPeerRecovered, then onPeerActivated
\* resets the backoff of its rows.
PeerRecovers(p) ==
  /\ status[p] = "unreachable"
  /\ status' = [status EXCEPT ![p] = "active"]
  /\ failures' = [failures EXCEPT ![p] = 0]
  /\ outbox' = {[r EXCEPT !.due = r.due \/ r.peer = p] : r \in outbox}
  /\ UNCHANGED <<author, replica, authFailures, worker, request, late, history>>

\* A relay of the peer, let in while its row was active, has been applied here:
\* the count is cleared whatever the row's status is by now.
InboundRelay(p) ==
  /\ failures[p] # 0
  /\ failures' = [failures EXCEPT ![p] = 0]
  /\ UNCHANGED <<author, replica, status, authFailures, outbox, worker, request,
                 late, history>>

-----------------------------------------------------------------------------
(* The peer: processCreateEvent, processUpdateEvent, processDeleteEvent.   *)

\* A create is looked up, then awaits, then is inserted under the unique index
\* on (source_instance, source_message_id).
DedupeCreate(e) ==
  /\ e.type = "create"
  /\ ~ e.checked
  /\ UNCHANGED replica

\* Mutant of InsertCreate: the table has no unique index on the source.
UnguardedInsert(e) ==
  /\ e.type = "create"
  /\ e.checked
  /\ replica' = replica \cup {[peer |-> e.peer, msg |-> e.msg, ver |-> e.ver]}

InsertCreate(e) ==
  /\ e.type = "create"
  /\ e.checked
  /\ replica' = IF HasCopy(e.peer, e.msg)
                THEN replica
                ELSE replica \cup {[peer |-> e.peer, msg |-> e.msg,
                                    ver |-> e.ver]}

ApplyUpdate(e) ==
  /\ e.type = "update"
  /\ replica' = IF HasCopy(e.peer, e.msg)
                THEN (replica \ CopiesOf(e.peer, e.msg))
                       \cup {[peer |-> e.peer, msg |-> e.msg, ver |-> e.ver]}
                ELSE replica

ApplyDelete(e) ==
  /\ e.type = "delete"
  /\ replica' = replica \ CopiesOf(e.peer, e.msg)

\* The peer does not take the create, before its await or after it: a
\* participant or the author is not resolved, or the group's channel is not
\* there.  None of these answers is terminal.
RefuseCreate(e) ==
  /\ e.type = "create"
  /\ UNCHANGED replica

ApplyEvent(e) ==
  DedupeCreate(e) \/ InsertCreate(e) \/ ApplyUpdate(e) \/ ApplyDelete(e)

\* What the peer says of the event: a create that exists at the lookup is a
\* duplicate, one that exists at the insert a processing_error, an update or a
\* delete of a missing message an unknown_message.  Only the first is terminal.
Answer(e) ==
  IF e.type = "create" /\ ~ e.checked
  THEN IF HasCopy(e.peer, e.msg) THEN "duplicate" ELSE "await"
  ELSE IF (e.type = "create") = HasCopy(e.peer, e.msg)
       THEN "rejected" ELSE "accepted"

\* The event's trace in its request: gone, unless its create is awaiting.
Remaining(events, e) ==
  (events \ {e}) \cup (IF Answer(e) = "await"
                       THEN {[e EXCEPT !.checked = TRUE]} ELSE {})

ServeEvent(e) ==
  /\ e \in todo
  /\ ApplyEvent(e)
  /\ todo' = Remaining(todo, e)
  /\ accepted' = IF Answer(e) = "accepted" THEN accepted \cup {e.msg} ELSE accepted
  /\ duplicate' = IF Answer(e) = "duplicate"
                  THEN duplicate \cup {e.msg} ELSE duplicate
  /\ UNCHANGED <<author, peerRows, outbox, worker, late, history>>

\* The same for an event whose request the worker has given up.
ServeLateEvent(e) ==
  /\ e \in late
  /\ ApplyEvent(e)
  /\ late' = Remaining(late, e)
  /\ UNCHANGED <<author, peerRows, outbox, worker, request, history>>

\* The event is over, and the row stays to be tried again.
RefuseEvent(e) ==
  /\ e \in todo
  /\ RefuseCreate(e)
  /\ todo' = todo \ {e}
  /\ UNCHANGED <<author, peerRows, outbox, worker, accepted, duplicate, late,
                 history>>

RefuseLateEvent(e) ==
  /\ e \in late
  /\ RefuseCreate(e)
  /\ late' = late \ {e}
  /\ UNCHANGED <<author, peerRows, outbox, worker, request, history>>

-----------------------------------------------------------------------------
Author ==
  \E m \in Msgs : \/ SendMessage(m)
                  \/ EditMessage(m)
                  \/ DeleteMessage(m)
                  \/ CrashInHandler(m)

Worker ==
  \/ SelectDue
  \/ WorkerRestart
  \/ \E p \in Peers : \/ PostRelay(p)
                      \/ DeliveryAnswered(p)
                      \/ DeliveryFailed(p)
                      \/ DeliveryRefused(p)
                      \/ PeerRecovers(p)
                      \/ InboundRelay(p)
  \/ \E r \in outbox : BackoffElapses(r)

Receiver ==
  \/ \E e \in todo : ServeEvent(e) \/ RefuseEvent(e)
  \/ \E e \in late : ServeLateEvent(e) \/ RefuseLateEvent(e)

Next == Author \/ Worker \/ Receiver

Spec == Init /\ [][Next]_vars

(* The worker's timers are rearmed after every tick and every backoff ends; *)
(* an unreachable peer is probed for ever.  Requests may be lost and the    *)
(* process may stop any number of times, but not every time: a peer that is *)
(* asked infinitely often answers infinitely often and is heard.  What it   *)
(* answers is not fair: it may refuse a create every time.                  *)
Fairness ==
  /\ WF_vars(SelectDue)
  /\ \A p \in Peers : /\ SF_vars(PostRelay(p))
                      /\ SF_vars(DeliveryAnswered(p))
                      /\ WF_vars(PeerRecovers(p))
  /\ \A p \in Peers, m \in Msgs :
       /\ WF_vars(\E r \in RowsOf(p, m) : BackoffElapses(r))
       /\ \A c \in BOOLEAN :
            SF_vars(\E e \in todo : /\ e.peer = p /\ e.msg = m /\ e.checked = c
                                    /\ ServeEvent(e) \/ RefuseEvent(e))

FairSpec == Spec /\ Fairness
-----------------------------------------------------------------------------
(* Properties.                                                             *)

\* The outbox holds at most one row per peer and message, however edits,
\* deletes, acknowledgements and backoff interleave (queueOutboxEvent looks
\* the row up before it inserts one).
OneRowPerEntity ==
  \A r, s \in outbox : r.peer = s.peer /\ r.msg = s.msg => r = s

\* A peer holds at most one copy of a message although a create is looked up
\* before an await and inserted after it, and a retry may overtake the request
\* it repeats (processCreateEvent).
OneCopyPerMessage ==
  \A c, d \in replica : c.peer = d.peer /\ c.msg = d.msg => c = d

\* p's replica agrees with the author about m.
InSync(p, m) ==
  IF authored[m].state = "live"
  THEN \E c \in replica : c.peer = p /\ c.msg = m /\ c.ver = authored[m].ver
  ELSE ~ HasCopy(p, m)

\* Nothing about m is queued for p or on its way to it.
Quiet(p, m) == RowsOf(p, m) = {} /\ ~ InFlight(p, m)

\* Once the outbox holds no row of a message for a peer and none is on its way,
\* the peer agrees with the author, through lost answers, retries, duplicates,
\* restarts and late requests.  The exception is exactly "gap": a mutation that
\* overlapped a transmission not yet answered, or that was never queued.
InSyncWhenQuiet ==
  \A p \in Peers, m \in Msgs : <<p, m>> \notin gap /\ Quiet(p, m) => InSync(p, m)

\* c's copy of its message is older after the step than before it.
Regresses(c) ==
  \E d \in replica' : d.peer = c.peer /\ d.msg = c.msg /\ d.ver < c.ver

\* A peer's copy goes back to an older version only when the peer applies a
\* request that the worker has given up: the single worker never posts an
\* older payload after a newer one.
RegressesOnlyLate ==
  [][(\E c \in replica : Regresses(c)) => late' # late]_vars

\* p refuses the create of m while the worker waits for the answer.
Refuses(p, m) == \E e \in todo : e.peer = p /\ e.msg = m /\ RefuseEvent(e)

\* A message whose mutations never fall in a gap ends up the same at every peer
\* that stays trusted (the retries of processOutboxTick, the recovery probe).
\* A peer that refuses the create for ever never has it: however often it did,
\* it is enough that it stops.
EventuallyInSync ==
  \A p \in Peers, m \in Msgs :
    \/ []<>(InSync(p, m) \/ <<p, m>> \in gap \/ status[p] = "needs_attention")
    \/ []<><<Refuses(p, m)>>_vars

\* Nothing but refusals makes the worker retry a create for ever: through lost
\* answers, restarts and creates that meet their own late copy its row leaves,
\* unless the peer loses our trust (a "duplicate" is terminal; a
\* processing_error is not, and relies on the next try).
EveryCreateSettles ==
  \A p \in Peers, m \in Msgs :
    \/ (\E r \in RowsOf(p, m) : r.type = "create")
         ~> (RowsOf(p, m) = {} \/ status[p] = "needs_attention")
    \/ []<><<Refuses(p, m)>>_vars

-----------------------------------------------------------------------------
(* What the comments and docs claim and the code does not keep.            *)

\* "delete over create: entry removed (message was never relayed)": when a
\* deletion cancels a queued create, the peer has no copy of the message.
CancelledWasNeverRelayed ==
  [][\A r \in outbox :
       /\ r.type = "create"
       /\ authored[r.msg].state = "live"
       /\ authored'[r.msg].state = "deleted"
       /\ ~ \E s \in outbox' : s.peer = r.peer /\ s.msg = r.msg
       => ~ HasCopy(r.peer, r.msg)]_vars

\* "update over create: payload updated, keeps create type (peer gets full
\* message)": a peer that answers a live message's create with
\* "duplicate", for which the worker removes the row, has the payload of that
\* create.
PeerGetsFullMessage ==
  [][\A e \in todo :
       /\ e.type = "create"
       /\ e.msg \in duplicate' \ duplicate
       /\ authored[e.msg].state = "live"
       => \E c \in replica : c.peer = e.peer /\ c.msg = e.msg /\ c.ver = e.ver]_vars
=============================================================================
