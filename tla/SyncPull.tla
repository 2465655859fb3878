------------------------------ MODULE SyncPull ------------------------------
(***************************************************************************)
(* Pull-sync of a peer's mutation log.  The responder appends a row to     *)
(* federation_mutation_log at each mutation, stamped with its clock, and   *)
(* answers POST /api/federation/sync with a page of the rows stamped after *)
(* a given time.  The requester pulls when its row for the peer becomes    *)
(* active: three passes over the log (direct messages, friends, profiles), *)
(* each page replayed event by event, and its own clock written to         *)
(* lastSyncedAt at the end.  The next pull starts from there.              *)
(*                                                                         *)
(* Covered: paging, the three filters of the responder, mutations logged   *)
(* while a page is on its way, failed and lost requests, restarts of the   *)
(* requester, peering anew during a pull, a fast clock at the requester.   *)
(* Left out: what an event does when it is replayed (RelayOutbox has the   *)
(* receiver), expiry of the log, channel filters no caller sends.  Direct  *)
(* messages live in one channel.                                           *)
(***************************************************************************)
EXTENDS Naturals, Sequences, FiniteSets

CONSTANTS
  Limit,        \* rows per page (limit: 100)
  Skew,         \* how far the requester's clock is ahead
  MaxLog,       \* bound: rows in the mutation log
  MaxTime,      \* bound: the responder's clock
  MaxPeerRows   \* bound: times the instances peer anew, plus one

ASSUME SyncAssumption ==
  /\ Limit \in Nat \ {0}
  /\ Skew \in Nat
  /\ MaxLog \in Nat
  /\ MaxTime \in Nat \ {0}
  /\ MaxPeerRows \in Nat \ {0}

Contexts == <<"dm", "friend", "profile">>

PassOf(ctx) == CHOOSE n \in DOMAIN Contexts : Contexts[n] = ctx

PeerRows == 1 .. MaxPeerRows

Times == 0 .. MaxTime + Skew

VARIABLES
  now,        \* the responder's clock
  log,        \* federation_mutation_log, the row's id being its index
  shared,     \* a live member of the channel is homed at the requester
  peerRow,    \* the requester's row for the responder: its id
  lastSynced, \* lastSyncedAt of that row
  pull,       \* the activation under way for each row id, if any
  replayed,   \* rows handed to processRelayEvents
  skipped,    \* history: [row, why] the current row's pull has passed over
  lost        \* history: [row, why] given up by a pull that completed

vars == <<now, log, shared, peerRow, lastSynced, pull, replayed, skipped,
          lost>>

\* "deletes" is the message row a delete removes, 0 in other rows; "ours" is
\* whether a friend event has a side homed at the requester.
LogRow == [ctx : {Contexts[n] : n \in DOMAIN Contexts}, stamp : 1 .. MaxTime,
           deletes : 0 .. MaxLog, ours : BOOLEAN]

Reasons == {"tie", "emptied", "late", "unshared", "threw"}

Losses == [row : 1 .. MaxLog, why : Reasons]

\* A pull waits for a page, replays one, or has finished its passes.
Idle == [at |-> "idle", from |-> 0, pass |-> 1, since |-> 0, page |-> {},
         checkpoint |-> 0, more |-> FALSE]

Pull == [at : {"idle", "request", "replay", "finish"},
         from : Times, pass : DOMAIN Contexts, since : Times,
         page : SUBSET (1 .. MaxLog), checkpoint : Times, more : BOOLEAN]

TypeOK ==
  /\ now \in 1 .. MaxTime
  /\ log \in Seq(LogRow)
  /\ Len(log) <= MaxLog
  /\ shared \in BOOLEAN
  /\ peerRow \in PeerRows
  /\ lastSynced \in Times
  /\ pull \in [PeerRows -> Pull]
  /\ replayed \subseteq DOMAIN log
  /\ skipped \subseteq Losses
  /\ lost \subseteq Losses

Init ==
  /\ now = 1
  /\ log = << >>
  /\ shared \in BOOLEAN
  /\ peerRow = 1
  /\ lastSynced = 0
  /\ pull = [p \in PeerRows |-> Idle]
  /\ replayed = {}
  /\ skipped = {}
  /\ lost = {}

-----------------------------------------------------------------------------
(* The responder.                                                          *)

\* The join with dm_messages: a row about a message that is gone is left out,
\* the row of its deletion is not.
Listed(i) ==
  \/ log[i].deletes # 0
  \/ \A j \in DOMAIN log : log[j].deletes # i

\* The rows a request about ctx selects, before the limit.
Selected(ctx, since) ==
  {i \in DOMAIN log :
     /\ log[i].ctx = ctx
     /\ log[i].stamp > since
     /\ Listed(i)
     /\ ctx = "dm" => shared}

\* ORDER BY mutated_at ASC LIMIT: rows of one stamp come in any order.
Page(rows, page) ==
  /\ page \subseteq rows
  /\ Cardinality(page) = IF Cardinality(rows) < Limit THEN Cardinality(rows)
                                                      ELSE Limit
  /\ \A i \in page, j \in rows \ page : log[i].stamp <= log[j].stamp

\* Mutant of Checkpoint: the answer repeats the time it was asked for.
CheckpointStalls(page, since, c) == c = since

\* The last row's stamp, in the page as it was before friend rows are filtered.
Checkpoint(page, since, c) ==
  IF page = {} THEN c = since
  ELSE (\E i \in page : log[i].stamp = c) /\ (\A i \in page : log[i].stamp <= c)

\* Mutant of HasMore: a full page counts as the last one.
HasMoreUnlessFull(page) == Cardinality(page) > Limit

HasMore(page) == Cardinality(page) >= Limit

\* The events of a page: friend rows that concern the requester.
Events(page) == {i \in page : log[i].ours}

-----------------------------------------------------------------------------
(* History: the ways a row is passed over.                                 *)

SkippedBy(ctx, since, page) ==
  LET unseen == {i \in DOMAIN log : /\ log[i].ctx = ctx
                                    /\ log[i].stamp > since
                                    /\ i \notin page}
  IN  IF ctx = "dm" /\ ~ shared
      THEN [row : unseen, why : {"unshared"}]
      ELSE IF Events(page) = {} /\ HasMore(page)
      THEN [row : unseen, why : {"emptied"}]
      ELSE [row : {i \in unseen : \E j \in page : log[j].stamp = log[i].stamp},
            why : {"tie"}]

\* A row logged now in context ctx that pull p has already gone past.
Passed(p, ctx) ==
  \/ p.at = "finish"
  \/ p.at # "idle" /\ PassOf(ctx) < p.pass
  \/ p.at = "replay" /\ PassOf(ctx) = p.pass /\ ~ p.more

\* A row logged now in the millisecond of the last row p was given.
Tied(p, ctx) ==
  /\ PassOf(ctx) = p.pass
  /\ \E j \in DOMAIN log : log[j].ctx = ctx /\ log[j].stamp = now
  /\ \/ p.at = "replay" /\ now <= p.checkpoint
     \/ p.at = "request" /\ now <= p.since

MissedBy(p, ctx, i) ==
  {l \in [row : {i}, why : {"late", "tie"}] :
     IF Passed(p, ctx) THEN l.why = "late" ELSE l.why = "tie" /\ Tied(p, ctx)}

-----------------------------------------------------------------------------
(* Actions of the responder.                                               *)

Tick ==
  /\ now < MaxTime
  /\ now' = now + 1
  /\ UNCHANGED <<log, shared, peerRow, lastSynced, pull, replayed, skipped, lost>>

\* appendMutationLog.
LogMutation(row) ==
  LET i == Len(log) + 1
  IN  /\ Len(log) < MaxLog
      /\ log' = Append(log, row)
      /\ skipped' = skipped \cup MissedBy(pull[peerRow], row.ctx, i)
      /\ lost' = lost \cup {l \in {[row |-> i, why |-> "late"]} :
                              now <= lastSynced}
      /\ UNCHANGED <<now, shared, peerRow, lastSynced, pull, replayed>>

Mutate(ctx, ours) ==
  /\ ctx # "friend" => ours
  /\ LogMutation([ctx |-> ctx, stamp |-> now, deletes |-> 0, ours |-> ours])

DeleteMessage(i) ==
  /\ log[i].ctx = "dm"
  /\ log[i].deletes = 0
  /\ Listed(i)
  /\ LogMutation([ctx |-> "dm", stamp |-> now, deletes |-> i, ours |-> TRUE])

\* The first member homed at the requester joins the channel, the last leaves.
ShareOrUnshare ==
  /\ shared' = ~ shared
  /\ UNCHANGED <<now, log, peerRow, lastSynced, pull, replayed, skipped, lost>>

-----------------------------------------------------------------------------
(* Actions of the requester.                                               *)

\* onPeerActivated: activations of one row share one pull.
Activate ==
  /\ pull[peerRow].at = "idle"
  /\ pull' = [pull EXCEPT ![peerRow] =
                [Idle EXCEPT !.at = "request", !.from = lastSynced,
                             !.since = lastSynced]]
  /\ skipped' = {}
  /\ UNCHANGED <<now, log, shared, peerRow, lastSynced, replayed, lost>>

\* Mutant of NextPass: one pass too many.
NextPassBeyondLast(p) ==
  LET over == [p EXCEPT !.page = {}, !.more = FALSE, !.checkpoint = 0,
                        !.since = p.from]
  IN  IF p.pass > Len(Contexts) THEN [over EXCEPT !.at = "finish"]
                                ELSE [over EXCEPT !.at = "request", !.pass = @ + 1]

\* After a pass comes the next, from the same lastSyncedAt, or the end.
NextPass(p) ==
  LET over == [p EXCEPT !.page = {}, !.more = FALSE, !.checkpoint = 0,
                        !.since = p.from]
  IN  IF p.pass = Len(Contexts) THEN [over EXCEPT !.at = "finish"]
                                ELSE [over EXCEPT !.at = "request", !.pass = @ + 1]

\* What the requester does with an answer: a page without events ends the
\* pass, whatever hasMore says.
Received(p, page, c) ==
  IF Events(page) = {} THEN NextPass(p)
  ELSE [p EXCEPT !.at = "replay", !.page = Events(page), !.more = HasMore(page),
                 !.checkpoint = c]

\* POST /sync: the responder reads its log in one step and answers 200.
Request(id) ==
  LET p == pull[id]
      ctx == Contexts[p.pass]
      rows == Selected(ctx, p.since)
  IN  /\ p.at = "request"
      /\ \E page \in SUBSET rows, c \in Times :
           /\ Page(rows, page)
           /\ Checkpoint(page, p.since, c)
           /\ pull' = [pull EXCEPT ![id] = Received(p, page, c)]
           /\ skipped' = skipped \cup
                {l \in SkippedBy(ctx, p.since, page) : id = peerRow}
      /\ UNCHANGED <<now, log, shared, peerRow, lastSynced, replayed, lost>>

\* Any status but 200, a timeout or a network error: nothing is recorded.
RequestFails(id) ==
  /\ pull[id].at = "request"
  /\ pull' = [pull EXCEPT ![id] = Idle]
  /\ skipped' = {l \in skipped : id # peerRow}
  /\ UNCHANGED <<now, log, shared, peerRow, lastSynced, replayed, lost>>

\* After the last event of a page: the next page, or the next pass.
AfterPage(p) ==
  IF p.more THEN [p EXCEPT !.at = "request", !.since = p.checkpoint, !.page = {},
                           !.more = FALSE, !.checkpoint = 0]
            ELSE NextPass(p)

\* processRelayEvents on the next event; one that throws is logged and skipped.
Replay(id) ==
  LET p == pull[id]
  IN  /\ p.at = "replay"
      /\ \E i \in p.page :
           /\ \A j \in p.page : log[i].stamp <= log[j].stamp
           /\ LET rest == [p EXCEPT !.page = @ \ {i}]
                  next == IF rest.page = {} THEN AfterPage(rest) ELSE rest
              IN  pull' = [pull EXCEPT ![id] = next]
           /\ \/ /\ replayed' = replayed \cup {i}
                 /\ UNCHANGED skipped
              \/ /\ skipped' = skipped \cup
                      {l \in {[row |-> i, why |-> "threw"]} : id = peerRow}
                 /\ UNCHANGED replayed
      /\ UNCHANGED <<now, log, shared, peerRow, lastSynced, lost>>

\* Mutant of Finish: lastSyncedAt is written to the row of the origin.
FinishByOrigin(id) ==
  /\ pull[id].at = "finish"
  /\ pull' = [pull EXCEPT ![id] = Idle]
  /\ lastSynced' = now + Skew
  /\ lost' = lost \cup skipped
  /\ skipped' = {}
  /\ UNCHANGED <<now, log, shared, peerRow, replayed>>

\* lastSyncedAt = Date.now(), by row id: a row deleted meanwhile stays gone.
Finish(id) ==
  /\ pull[id].at = "finish"
  /\ pull' = [pull EXCEPT ![id] = Idle]
  /\ IF id = peerRow
     THEN /\ lastSynced' = now + Skew
          /\ lost' = lost \cup skipped
          /\ skipped' = {}
     ELSE UNCHANGED <<lastSynced, skipped, lost>>
  /\ UNCHANGED <<now, log, shared, peerRow, replayed>>

\* The requester restarts: pulls are in memory only.
Restart ==
  /\ \E id \in PeerRows : pull[id].at # "idle"
  /\ pull' = [id \in PeerRows |-> Idle]
  /\ skipped' = {}
  /\ UNCHANGED <<now, log, shared, peerRow, lastSynced, replayed, lost>>

\* The row is deleted and the instances peer anew: lastSyncedAt starts at 0.
PeerAnew ==
  /\ peerRow < MaxPeerRows
  /\ peerRow' = peerRow + 1
  /\ lastSynced' = 0
  /\ skipped' = {}
  /\ lost' = {}
  /\ UNCHANGED <<now, log, shared, pull, replayed>>

PullStep(id) == Request(id) \/ Replay(id) \/ Finish(id)

Next ==
  \/ Tick
  \/ \E n \in DOMAIN Contexts, ours \in BOOLEAN : Mutate(Contexts[n], ours)
  \/ \E i \in DOMAIN log : DeleteMessage(i)
  \/ ShareOrUnshare
  \/ Activate
  \/ \E id \in PeerRows : PullStep(id) \/ RequestFails(id)
  \/ Restart
  \/ PeerAnew

Spec == Init /\ [][Next]_vars

\* The responder answers, the requester's event loop runs.
FairSpec == Spec /\ \A id \in PeerRows : WF_vars(PullStep(id))

-----------------------------------------------------------------------------
Lost == {l.row : l \in lost}

Wanted(i) == log[i].ours /\ Listed(i)

\* Every row of the responder's log that concerns this instance and is
\* stamped at or before lastSyncedAt was replayed here, or was passed over in
\* one of the ways history counts: the next pull may start at lastSyncedAt.
Covered ==
  \A i \in DOMAIN log :
    Wanted(i) /\ log[i].stamp <= lastSynced => i \in replayed \cup Lost

\* An activation under way comes to an end: each page moves the request on.
PullEnds == \A id \in PeerRows : []<>(pull[id].at = "idle")

\* Pull-sync keeps the promise of SyncPromise.
Promise == INSTANCE SyncPromise WITH
  entries <- [i \in DOMAIN log |-> [stamp |-> log[i].stamp, wanted |-> Wanted(i)]],
  delivered <- replayed,
  waived <- Lost,
  horizon <- lastSynced

KeepsPromise == Promise!PromiseSpec
=============================================================================
