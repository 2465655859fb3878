# Lume: a TLA+ model of the federation core

Lume (the packages still call themselves Backspace) is a self-hosted chat
platform: a TypeScript server with one SQLite database per instance, a web
client, an Electron shell and an Android wrapper. Instances *federate*: users of
different instances share direct messages, groups, friendships and calls. One
instance alone is simple to reason about, since its handlers are synchronous over
one database connection. The hard part is what two instances do to each other
over a network that loses answers, with restarts, retries, timers and awaits
between a read and a write. This project models that part.

Paths below are relative to `src/packages/server/src/` unless they start with
`docs/` or `packages/`.

## 1. Inventory

| Component | State | Operations | Talks to | Hard behaviour | What makes it correct |
|---|---|---|---|---|---|
| Relay outbox (`utils/federationOutbox.ts`) | `federation_outbox`, one row per (peer, entity) with event type, payload, attempts, nextRetryAt | `queueOutboxEvent` (coalescing), `appendMutationLog` | called by the ws and HTTP handlers after their writes; read by the worker | a row changes while it is being posted; a crash before it is queued | one row per key; nothing a peer needs is dropped |
| Outbox worker (`utils/federationWorker.ts`) | timers, the tick's snapshot, the peers' failure counts and status | outbox tick, answers 200 / 401 / 403 / other, backoff, recovery tick, stop | `POST /relay` of the peer | snapshots that age, lost answers, restarts, two failure counters | eventually delivered; older payloads never overtake newer ones |
| Relay receiver (`routes/federation/handlers/relay.ts`, `events/`) | `dm_messages` with the unique (source_instance, source_message_id) | create, update, delete, and twenty other event types | answers accepted / rejected(reason) | await between dedupe and insert; a given-up request goes on | at most one copy; only authored versions |
| Secret rotation and authentication (`utils/federationAuth.ts`, `handlers/peerAdmin.ts`, `handlers/peerHandshake.ts`, `handlers/s2sAuth.ts`) | `hmac_secret`, `pending_hmac_secret`, `secret_rotation_at`, `consecutive_auth_failures` | rotate (both sides), verify, sign, finalize, auto-rotate | `POST /peer/rotate` | lost answers, crossing rotations, the clock | each side accepts what the other signs |
| Peering and approvals (`handlers/peerHandshake.ts`, `approvals.ts`, `peerAdmin.ts`, `utils/federationPeering.ts`) | peer row status (active, pending, unreachable, awaiting_approval, needs_attention, rejected, revoked), approval requests and tokens | initiate, accept, ensure, denied, approve, deny, revoke, reset, recheck | `POST /peer/accept`, `/peer/denied` | handshakes that cross, state read before an await | two active rows hold one secret; a revoked peer stays revoked |
| Recovery and activation (`utils/federationRecovery.ts`, `federationPeerActivation.ts`) | status, probe attempts, lastSyncedAt | probe, mark recovered, reset backoff, sync pull | `GET /instance`, `POST /sync` | unconditional writes after a probe; pagination and clocks | nothing logged before the checkpoint is skipped |
| Incarnation reset (`utils/federationEpoch.ts`, `federationReset.ts`) | trusted and observed epoch, reset journal, heal flags | detect, journal, heal | probes, handshakes | detection twice, recovery in between | heal exactly once, only after an authenticated handshake |
| Calls (`events/calls.ts`, `ws/handler.ts`, `utils/voiceCapacity.ts`) | ringing and voice state in memory, reservations | start, accept, reject, end, evict, sentinel | relay without the outbox | hosts that vanish, late answers, capacity | a call ends everywhere; rooms stay within their limit |
| Groups (`events/membership.ts`, `dmState.ts`, `routes/dm.ts`) | members, owner, metadata per instance | add, remove, leave, transfer, rename | outbox | events of different entities reordered | one instance speaks for the owner; all find out which |
| Friends, profiles, presence (`events/friends.ts`, `profile.ts`, `federationPresence.ts`, `federationRollback.ts`) | requests, friendships, profile data | request, accept, cancel, roll back | outbox | crossing requests, rollback after a permanent rejection | symmetric friendships |
| File queue (`utils/federationWorker.ts`) | `federation_file_queue` | download, retry, reject by size | the peer's uploads | attempts at their limit | every entry ends |
| Spaces, channels, users, search, settings, invites, admin routes | SQLite tables | synchronous handlers | web client | little: one handler at a time | reached by the tests |
| Storage janitor, uploads, backups | files, attachment rows | sweep, resume | file system | age guards | live files are kept |
| Web client (`packages/web`) | stores, pending messages, sockets per instance | send, reconnect, failover | ws, HTTP | reconnection, acknowledgements | a pending message is sent or shown as failed |
| Desktop, Android, deploy scripts, landing page | | | | operating-system I/O | not modelled |

## 2. Modules

| Module | Contents |
|---|---|
| `RelayPromise` | What relay promises: an abstract specification over the authors' messages and the peers' replicas |
| `RelayOutbox` | Handlers, outbox, worker, receiver and network for direct messages; its properties |
| `MCRelayOutbox` | Values of its constants |
| `RelayOutboxProofs` | Its theorems |
| `SecretRotation` | Both instances' peer rows, rotation calls, health checks, clock and signed traffic; its properties |
| `SecretRotationProofs` | Its theorems |
| `Peering` | How the two peer rows come about and go: handshakes, approvals, denials, revocation, the worker's status writes; its properties |
| `MCPeering` | The symmetry of its two instances |
| `PeeringProofs` | Its theorems |
| `SyncPromise` | What pull-sync promises: `lastSyncedAt` is a horizon behind which nothing is unaccounted for |
| `SyncPull` | The mutation log, the pages of `/sync`, the three passes of a pull; its properties, and that it implements `SyncPromise` |
| `SyncPullProofs` | Its theorems, the refinement among them |
| `IncarnationReset` | A peer that is wiped or restored: detection, flags, journal, handshakes, heal; its properties |
| `IncarnationResetProofs` | Its theorems |
| `SeatPromise` | What the instances of a group promise about the owner's seat: a baton that one instance hands to another |
| `GroupDm` | A group conversation replicated on several instances: routes, outbox rows, inbound handlers; its properties, and that it implements `SeatPromise` |
| `MCGroupDm` | Homes of its users and the symmetry |
| `GroupDmProofs` | Its theorems about the seat and about who is reached |
| `GroupDmOwnersProofs` | That the instances agree about the owner; the refinement of `SeatPromise` |
| `GroupDmNamesProofs` | That they agree about the name |

### RelayOutbox

`authored[m]` is the author's row of message m: its state and the number of its
edits, which stands for its contents. `replica` holds the peers' copies.
`outbox`, `snapshot`, `posting`/`batch` are the table, the tick's unposted entries
and the outstanding request; `todo`, `accepted`, `duplicate` are the request at the
peer; `late` holds the events of requests the worker gave up (timeout, stop,
crash) that the peer may still apply. Actions:

- `SendMessage`, `EditMessage`, `DeleteMessage`: the handler's write and
  `queueOutboxEvent` in one step, since nothing awaits between them;
  `CrashInHandler` is the process stopping in that place.
- `SelectDue` (one select per tick), `PostRelay(p)` (the next peer, with the
  *snapshot's* payloads), `DeliveryAnswered` (200), `DeliveryRefused` (401/403),
  `DeliveryFailed` (everything else, the answer's loss included),
  `WorkerRestart`, `BackoffElapses`, `PeerRecovers`, `InboundRelay`.
- `ServeEvent`, `ServeLateEvent`: one event at the peer. A create takes two steps,
  the lookup and the insert, because profiles are hydrated in between.
- `RefuseEvent`, `RefuseLateEvent`: the create is refused before its await or after
  it, because a participant, the author or the group's channel is not resolved
  (`missing_participants`, `participant_not_found`, `author_not_found`,
  `channel_not_found`). None of these is terminal: the row stays and is posted again
  at the next tick. Whether the peer refuses is its affair at each attempt.

Row ids are not modelled: a (peer, message) key gets at most one row in its life
after a create was cancelled or acknowledged, so deleting by id and by key agree.
The events of one request are applied in any order because they concern different
messages. `gap` is a history variable: the (peer, message) pairs with a mutation
that overlapped a transmission not yet answered, that was not queued because the
peer was `needs_attention`, or that a crash kept from the queue. It appears in
`InSyncWhenQuiet` and `EventuallyInSync` as their exact exception: what falls in a
gap is excused there, not caught, and the two violation runs show what such a gap
costs. `needs_attention` is absorbing here: leaving
it takes an administrator. Not modelled: the TTL and the batch limit, pending
peers, the repair of a replica by sync pull, attachments and reactions, and blocked
conversations, whose creates are accepted without being stored
(`events/dmMessages.ts:128-131`). Attempts are abstracted to whether a row is due, so
how long a backoff lasts is not seen.

### SecretRotation

Each instance has one row about the other. A rotation call is a record that moves
from `sent` to `accepted` or `refused` and is then heard or lost; `key` is the
primary secret read before the POST. Time advances by `Tick`, which waits for due
health checks; `age` counts from `secret_rotation_at` to just past the grace
period. A call lasts less than a unit (its timeout is 10 s, the grace period 15
min). `Relay(i)` is a whole exchange with the auth-failure count. `broken` is a
history variable: an accepted rotation whose answer was lost, or two accepted
rotations that crossed. Both leave the two rows with different secrets until an
administrator peers again: the code stores the pending secret only after the
answer, and overwrites one that arrived meanwhile. (docs/systems/federation.md:91
has the initiator store it *before* the POST; the code does not.) Finalization is
modelled where the code does it, in the health check, for `age > Grace`.
Auto-rotation is the same action as the administrator's rotation: both read an
active row without a pending secret and post.

### Peering

`row[i]` is instance i's `federation_peers` row about the other: id, status,
secret, approval token and who inserted it (`by`). `request[i]` is its approval
request, of which there is at most one: `queueApprovalRequest` reuses the origin's
row whatever its direction, and an outbound request is inserted where there is
none. A server-to-server call is a record with a `step`; who posted it waits until
the step is an answer, and `c.row` is the id it will write by.

- `Initiate` (`/peer/initiate`), `EnsureNewPeer`, `EnsurePending` (`ensurePeered`),
  `ApproveInbound`, `ApproveOutbound`: the pending row and the POST.
  `CreatePlaceholder` is the row `queueOutboxEvent` inserts for an unknown origin.
- `ServeAccept` is `/peer/accept` with its gate, its statuses and its token;
  `ServeEpoch` the signed round trip that `/peer/initiate` adds after a 200;
  `ServeDenied` is `/peer/denied`.
- `Hear` is what the caller does with the answer (200, 202, refusal, blocked,
  delivered denial); `Abandon` is its catch block, which deletes the row it
  inserted; `Restart` forgets every call. An abandoned call that was not served may
  still be served later.
- `Revoke`, `RemoveRow` (delete for good, and reset), `StartTask`/`EndTask` (the
  outbox worker and the recovery probe write by id what they decided earlier),
  `FanOut` (the end of `onPeerActivated`, which removes outbound requests).

One number minted per operation stands for the secret, the row or request id and
the token it generates. The token is kept only while a row awaits approval, where
alone it is read. The worker and the probe share one slot; an auth failure may end
any relay task, as `SecretRotation` shows rows that agree may suffer one. An
activation is tracked only if an outbound request is there. `known` (the secrets an
instance generated or adopted) and `stale` (the last adoption took the secret of a
caller that had moved on) are history variables; `stale` is the exact exception in
`SameSecretUnlessOvertaken`, and `crossed_handshakes` shows it is needed. Not
modelled: expiry of requests, their subscribers and notifications, epochs and
`markPeerReset`, rotation (see `SecretRotation`), rate limits.

### SyncPull

`log` is the responder's `federation_mutation_log`, stamped with its clock `now`;
`pull[id]` is the activation under way for the requester's peer row `id`, with its
pass, the page being replayed and the checkpoint it will ask from next;
`lastSynced` belongs to the current row `peerRow`.

- `Mutate`, `DeleteMessage` are `appendMutationLog`; `ShareOrUnshare` is the first
  member homed at the requester joining the channel, or the last leaving.
- `Request` is `POST /sync`: the select with its joins and filters (`Selected`,
  `Listed`), the limit (`Page`: rows of one stamp come in any order), the checkpoint
  and `hasMore` computed *before* friend rows are filtered, and what the requester
  does with an empty page. `RequestFails` is every other answer.
- `Replay` is one event of `processRelayEvents`, which may throw; `Finish` writes
  the local clock to `lastSyncedAt` by row id; `Restart`, `PeerAnew` end or orphan
  a pull. `Activate` may happen at any time, which is more than the status
  transitions allow.

`skipped` and `lost` are history: the rows a pull has passed over and those a pull
that completed gave up, each with one of five reasons. `tie`: rows of one
millisecond on both sides of a page's end. `emptied`: a full page whose events were
all filtered ends the pass. `late`: logged while the pull was past its context, or
stamped at or before a `lastSyncedAt` taken from a faster clock. `unshared`: no
member of the channel was homed at the requester when it asked. `threw`: the event
threw when replayed. Dropping any one of them from `Covered` gives a
counterexample in which the row is really lost.

### IncarnationReset

`epoch` is the incarnation that runs at the peer, `ran` how many there were. `row`
is the `federation_peers` row with its trusted baseline, `journal` the open
`federation_reset_events` row, `user[u]` the fate and the `federation_heal_pending`
flag of the users of that domain: stubs (replicated, no password) and accounts.
`probes` and `calls` are outstanding requests with the row as it was read;
`syncing` is `inFlightActivation`.

- Detection (`Detect` = `markPeerReset`): by the recovery probe and the sweep
  (`Answer`), after the auth threshold, by an inbound `/peer/accept`
  (`AcceptRefused`).
- Handshakes: `Initiate`, `Retry`, `SettleAccepted`, `SettleOtherwise`, `AcceptMet`.
  Each success runs `Activated`: join the activation in flight, heal (`Heal`), or be
  cut in the heal (`HealCut`, which leaves any prefix of its commits), by an exception
  that `onPeerActivated` catches and logs or with the whole process.
- `ApproveInbound` is the admin's approval of a request the peer once queued: it
  replaces any row that is not active, a pending or an unreachable one included.
- `Prove`, `Reattach`, `ProofLost` are a detached account proving its new identity:
  the proof is checked over a row that is active, and the account is bound after the
  await, by id, whatever has become of the row. `Replace` is the wipe or restore; `Fail`, `Refresh`, `ResetPeering`, `Revoke`, `Restart` are as named.

`spared` and `stranded` are history: whom the last detection does not hold, and why
an active row has an open journal. Assumed: the peer advertises its epoch; no
request outlives the incarnation it was made to. Failures and thresholds may come
at any time, which is more than the counters allow. Not modelled: the password
self-heal at login, which requests wait for approval (see `Peering`), what
`tombstoneUser` and the merge of a re-attachment do to other tables, the admin's list
of reset events. An attach proof found valid may be heard after the peer was
replaced.

### GroupDm

`owner`, `members`, `meta` are the `dm_channels` row and `dm_members` of each
instance; `log` is the events issued, whose index is their id; `outbox` the
undelivered rows `<<to, id>>`; `applied` the system messages whose (source instance,
source message id) is how a handler recognises a replay; `fetching` the handlers
that wait for an icon's download. An instance *holds the seat* if it believes that
one of its own users owns the group.

- `Create`, `AddMember`, `LeaveAsMember`, `LeaveAsOwner` (with the automatic
  transfer), `Kick`, `Transfer`, `Rename` are the routes of `routes/dm.ts`, each with
  its guards and its rows. `Targets` keeps what `getGroupDmTargetOrigins` does when
  no remote member is left: it returns no list, and an event without a list goes to
  every peer.
- `ReceiveAdd`, `ReceiveFirstAdd`/`FinishAdd` (bootstrap), `ReceiveRemove`,
  `ReceiveTransfer`, `ReceiveRename`/`FinishRename` and `ReceiveReplay` are the
  handlers of `events/membership.ts`. Rows are taken in any order: each has a backoff
  of its own. An event rejected without a terminal reason changes nothing and its row
  stays, so it has no action.
- A name (`Meta`) has what it shows, a name and an icon that may both be empty, and a
  version. A newer one that shows what is shown already is accepted and its version
  not written (`Same`); one whose icon differs is written after a download. The code
  has a replay marker for the name and one for the icon, the model one for both.
- `Answered` deletes the row, or the answer is lost and the event will come again.

Members act on the instance they are homed at: clients send owner-only requests to
the owner's instance. `flaws` is history: each time the code loses an event for good
it records how, and each property names the flaws it needs to exclude. For each
excluded flaw there is a counterexample without it. A flaw excuses the hazard it
names, and the property then shows that nothing else has its effect.

`SeatIsBaton` is the refinement of `SeatPromise`. The instances in `holders` believe
that a user of theirs owns the group; `bound` is where a transfer is under way that
its receiver would take; `forgotten` is where the last transfer led if that
instance had no channel, so accepted it and kept nothing. `forked` is the flaw
`ahead`, and the three sets are empty from then on: the promise is about what
happens until a snapshot overtakes a transfer. Each action of `SeatPromise` is needed:
without any one of them TLC finds a step of `GroupDm` that is none of the others.

Not modelled: messages and
reactions in the group, read state, closing and reopening (`dmState.ts`), the purge
of an empty group after 24 hours, expiry of rows, deletion of accounts (which
reassigns the owner on each instance without an event), calls.

## 3. Runs

| Run | Shows | Bounds |
|---|---|---|
| `relay_outbox` | `TypeOK`, `OneRowPerEntity`, `OneCopyPerMessage`, `InSyncWhenQuiet`; implements `RelayPromise` | 1 peer, 2 messages, 1 edit each, 1 late event, thresholds 2 |
| `relay_outbox_peers` | `InSyncWhenQuiet`, `RegressesOnlyLate` with one tick's snapshot shared by two peers | 2 peers, 1 message, 2 edits, 1 late event |
| `relay_outbox_live` | `EventuallyInSync`, `EveryCreateSettles` | 1 peer, 1 message, 2 edits, 1 late event, no symmetry |
| `cancelled_was_relayed` | *violated*: a queued create cancelled by a deletion was never relayed | 1 peer, 1 message |
| `edit_lost_to_duplicate` | *violated*: an edit over a queued create reaches the peer with the full message | 1 peer, 1 message, 1 edit |
| `secret_rotation` | `TypeOK`, `UnderstoodOutsideWindows`, `RotationsFollowOneAnother`, `UnderstoodAgain` | 2 rotations, 1 restart, Grace = HealthInterval = 2, threshold 2 |
| `spurious_auth_failure` | *violated*: the health-check interval keeps rotation from causing auth failures | 1 rotation, no restart |
| `peering` | `TypeOK`, `ActiveSecretIsShared`, `SameSecretUnlessOvertaken`, `GatedRowsAreLocal`, `RevokedOutlivesPeer`, `ActiveEndsAtHome`, for every choice of gated instances | 3 operations that generate something, 2 upsets (lost calls, restarts, removals, worker tasks), instances interchangeable |
| `crossed_handshakes` | *violated*: after peering both instances store the same secret | 2 operations, no upset |
| `sync_pull` | `TypeOK`, `Covered`, `PullEnds`; implements `SyncPromise` | pages of 1 row, 2 rows in the log, 2 clock ticks, the requester's clock 1 ahead, 2 peer rows one after the other |
| `incarnation_reset` | `TypeOK`, `FlagsFollowJournal`, `UnchangedUntouched`, `SparedSurvive`, `ActiveMeansHealed`, `HealsByProof`, `HealIsComplete`, `ResetNoticed` | 1 stub, 1 account, 2 incarnations, each of which may be restored, 2 peer rows, 1 probe |
| `group_dm` | `TypeOK`, `OneOwnerSeat`, `SeatNotLost`, `SeatFoundWhenQuiet`, `OwnersAgreeWhenQuiet`, `NamesAgreeWhenQuiet`, `AddedAreReached`, `SeatLeavesByTransfer`; implements `SeatPromise` | 3 instances, 4 users (two share an instance), 4 events, a name and an icon or none, clocks to 2, 1 lost answer, groups of at most 4 |

Why the bounds suffice. Two messages let one request carry two events, one settled
and one rejected. A message's version only needs to be compared, so two edits are
enough to tell "old", "newer" and "newest": an older payload overtaking a newer one
needs a create or an edit already applied, hence `MaxEdits = 2` where
`RegressesOnlyLate` is checked. One late event is enough to race the retry of the
same event. Thresholds of 2 leave room for a failure below and one at the
threshold. In `SecretRotation` the code's interval equals its grace period; two
units of each let a health check fall before, at and after the period's end, with
every phase of the two instances' timers (`Init`); two rotations let a second one
follow, or cross, the first. Deadlock is not checked: with all edits and rotations
used up, a system at rest is as it should be.

Fairness. `RelayOutbox`: `scheduleOutboxTick` rearms itself after every tick, so
`SelectDue` is weakly fair; `BackoffElapses` is the clock; `PeerRecovers` is weakly
fair because `processRecoveryTick` probes an unreachable peer for ever.
`PostRelay` and `DeliveryAnswered` are strongly fair, and so is that the peer gets
round to an event, by `ServeEvent` or `RefuseEvent`: a restart or a failure may
interrupt any attempt, but not every one. This is an assumption on the network and
the operator; the code can only retry. What the peer answers is not fair. A create
refused at every attempt is never there and keeps its row (until a TTL that is not
modelled): `EventuallyInSync` and `EveryCreateSettles` except exactly the peers that
refuse it infinitely often, so a peer that stops refusing does get it, and nothing
else (a lost answer, a restart, a create that meets its own late copy) makes the
worker retry for ever. Nothing obliges users to write
or edit. `SecretRotation`: clocks advance, health checks are rearmed after each
(`scheduleHealthCheckTick`) and a call ends within its timeout. Nothing obliges
anyone to rotate, relay or restart.

In `Peering` three operations let two handshakes cross while a third (an approval,
a denial, a placeholder) meddles, and two upsets let, say, an admin revoke a row
whose handshake is abandoned; what holds was also checked once with three upsets
and with two operations and five upsets. Rows left pending are retried only by the
next message, so the module states no liveness and assumes no fairness.

In `SyncPull` a page of one row makes every pair of rows a page boundary, and two
rows meet it as a tie, in order, or with one filtered. Two peer rows let a pull that
began for the first end after the second exists. `WF` on `PullStep`: the responder
answers or the request times out, and the requester's event loop runs.

In `IncarnationReset` two users suffice because users differ only in kind and in
when they became known; the heal treats each by itself. The safety properties were
also checked once with two probes (3.8 million states). Fairness: `WF` on `Sweep`
(every 15-minute health tick and each start-up), `WF` on `ProbeEnds` (a probe has a
10-second timeout), `SF` on `Heard`: a peer that is asked again and again answers at
some time. Only `ResetNoticed` needs them.

In `GroupDm` four events are a creation with one or two invitations and two or three
changes, enough for two transfers by different issuers to meet at a third instance,
for a transfer there and back, and for a snapshot to overtake either; a limit of
four members lets the group be full. One name beside none, and one icon beside none,
let a name be given, cleared and given again, and a newer one equal an older one; the
run has 785 000 states. Larger instances were run once without an error: clocks to 3
(1.2 million states), any founder and lossy answers everywhere (stopped after 4.7
million states), five events without renames (stopped after 7.4 million states), and
creations and transfers alone on four instances with five users and six events (7.7
million states). The last shows the case of section 5,
item 7, in which a fourth instance ends with the wrong user though no transfer was
ever taken after a later one of its issuer: it needs five transfers and is why
`overtaken` is recorded as early as it is. The module states what holds when nothing
is left to deliver rather than liveness: delivery
itself is `RelayOutbox`'s.

What history variables excuse. Where the code itself loses something for good, the
property that would fail names the case by a history variable (`gap`, `broken`,
`stale`, `skipped` and `lost`, `stranded`, `flaws`) or by a window. There the hazard
is excused, not ruled out: the property says that nothing else has the same effect,
and section 5 says what the excused cases are. So `UnderstoodOutsideWindows` and
`UnderstoodAgain` say nothing of a rotation whose accepted answer was lost or that
crossed another; `RevokedOutlivesPeer` and `ActiveEndsAtHome` except an instance's own
call or task under way; `ActiveMeansHealed` excepts a probe answered with an old row
and a heal that was cut; `Covered` counts what a pull gave up; and the group's
properties except a transfer that reached an instance without the channel. The
liveness of `SecretRotation` is about signatures being accepted: a peer parked in
`needs_attention` still refuses.

## 4. Proofs

Theorems hold for every value of the constants that satisfies the named
assumptions; `tlapm` checks them to the last leaf.

- `RelayOutboxProofs!TypeCorrect`, `OneCopy`, `OneRow`: by induction, with
  `TypeOK` as the strengthening. `OneCopy` rests on the unique index
  (`InsertCreate` inserts where no copy is), not on the lookup before the await.
- `RelayOutboxProofs!ImplementsPromise`: every step of `RelayOutbox` is a step of
  `RelayPromise` or leaves `authored` and `replica` alone. It needs the lemma
  `PayloadsGenuine`: everything queued, snapshotted, posted or late carries a
  version its author has written, and a delete is on its way only for a deleted
  message.
- `SecretRotationProofs!TypeCorrect` adds that an active peer's count stays below
  the threshold.
- `SecretRotationProofs!Understood` and `OneRotationAtATime` follow from one
  inductive invariant, `IInv`: a call that waits is at most one clock move old,
  and, unless something is `broken`, the rows and the calls are in one of the
  phases of a rotation (nobody pending, one side pending and the answer unread,
  both pending, one side finalized). `UnderstoodOutsideWindows` alone is not
  inductive: it does not say that the calls under way carry the secret the rows
  will hold, nor that the side that stored first is the older one. That a call is
  over before the first side can finalize is where `Grace >= 2` units is used.
- `PeeringProofs!TypeCorrect` adds that every row has a secret and that every number
  in use was minted, so a new one is fresh.
- `PeeringProofs!ActiveSecretShared` is by the inductive invariant
  `SecretsGenuine`. `ActiveSecretIsShared` alone is not inductive: it does not say
  what a write by id, decided before an await, will find. The invariant does: a
  pending row's secret is its own; a handshake that was answered 200 carries a secret
  the other side adopted; the row a handshake or a task will write by id, if it is
  still there, holds the handshake's secret or a shared one. Lemma `SecretsKept`
  covers every step that mints nothing, `NewRowGenuine` the others.
- `PeeringProofs!GatedRowsLocal` is by `GatedRowsKept`: the row a denial inserts at a
  gated instance is never among those a handshake or a task of that instance may
  still write, so nothing but an admin's revocation or another denial touches it.
- `PeeringProofs!RevokedStays` needs the types only: it goes through every action
  that writes a row.
- `PeeringProofs!ActiveEnds` needs the types only: `/peer/accept` and `/peer/denied`
  leave an active row active (`ServeLeavesActive`), and of what an instance hears or
  a task writes, only the answer to a handshake about that row and the relay worker's
  count end one (`HearLeavesActive`, `EndTaskLeavesActive`); so does the catch block
  of a handshake that is given up. A 202 heard late is such an answer:
  the row that the other admin's approval made active goes back to
  `awaiting_approval` (`handlers/approvals.ts:172`).
- `SyncPullProofs!HorizonCovers` by the invariant `IInv`: for the pull of the current
  row, every wanted row at or before the point it has reached in a pass (`GoneBy`) is
  replayed, given up, passed over by this pull, or on the page in hand. `Covered` says
  nothing about a pull that has not finished; the invariant says where each stands,
  and that stamps never exceed the clock.
- `SyncPullProofs!Refinement`: every step of `SyncPull` is a step of `SyncPromise` or
  a stutter, from `HorizonCovers` and the lemma that what was given up stays recorded.
- `IncarnationResetProofs`: `FlagsFollow`, `SparedSurviveHolds` and `ActiveHealed`
  are inductive with the types and with `ProvingIsDetached`: nothing that happens while
  an attach proof is awaited (a detection, a heal, whole or cut) ends the detachment,
  so a re-attachment, which does not look again, meets the account it expects. `Untouched` needs that no epoch is known here, in a
  row, a probe or the journal, that has not run. `HealByProof` and `HealComplete` are
  about single steps; the second needs that, while the journal is open, everyone not
  spared is flagged or already gone, also after a heal that was cut.
- `GroupDmProofs!OneSeat`, `SeatKept`: the inductive invariant `Inv` says, as long as
  no snapshot was `ahead`: at most one instance holds the seat, at most one transfer
  to an instance that would take it is untaken, and never both (`OneHolder`); an owner
  whose own instance has no channel, in a row or in a snapshot, was made owner by a
  transfer, issued before that snapshot (`OwnersTold`, `SnapshotsTold`); and such a
  transfer is the last, nobody holds the seat and no other transfer carries it
  (`AbsentIsLast`). Steps are classified first (an issuer that keeps the owner, one
  that hands over, an instance that hears something, takes the seat, or boots from a
  snapshot), and the invariant is shown for each class, not each action.
- `GroupDmProofs!SeatLeaves` from the types; `EveryoneReached` by an invariant of its
  own: who is listed anywhere has the channel at home or a `member_add` on its way.

- `RelayOutboxProofs!InSyncAtRest` is by `SyncInv`, which states for each peer and
  message outside `gap` what delivery owes at every moment: a queued payload is what
  its author left (`PayloadsCurrent`) and what is under way is what is queued
  (`SentAsQueued`); a row that was posted is known as posted (`PostedIsSent`); what
  the peer holds fits the row before the first post (`FitBeforePost`) and after it,
  when an unheard attempt may have been applied (`FitAfterPost`); without a row, or
  once the receiver has answered, the two agree (`SettledInSync`). So an empty set of
  rows already means agreement: what is under way then changes nothing.
- `RelayOutboxProofs!OnlyLateRegresses` is by `VersionsInv`: rows are never older than
  what is under way or delivered, and what the worker holds is never older than what
  it has given up or the peer has, and is one version per peer and message.
- `PeeringProofs!SameSecret` is by `SecretsSettled`. Agreement of the rows in use
  is not inductive; agreement of the *usable* ones is: rows that are active or
  unreachable, or that the worker, the probe or a handshake already answered 200 may
  still make active. Only an adoption makes a row usable that was not, and one that is
  not overtaken leaves both rows with the caller's secret. The rest is bookkeeping of
  ids: no two calls share one, and nothing else writes the row a denial will insert
  (`DenialsApart`).
- `GroupDmOwnersProofs!OwnersAgree`, `SeatFound`: the inductive invariant `OwnersInv`.
  The transfers of a group form a trail over the instances: each starts where the one
  before it led, since only the holder of the seat issues one. Rows arrive in any
  order, so what an instance has still to take is no final part of the log; but it is
  a trail from where the instance believes the owner to be to the seat, with round
  trips beside it (`Trail`). A transfer the instance takes is the first of some such
  trail (`TrailTake`), a new one prolongs all of them (`TrailExtend`), and where none
  starts the trail is empty (`TrailEnds`): the instance stands at the seat. A trail is
  stated as a permutation of the events, which avoids an induction over its length.
  That the very user agrees needs that each instance has taken a first part of the log
  (`InOrder`), which holds until a transfer overtakes an earlier one of its issuer.
- `GroupDmOwnersProofs!BatonRefinement`: every step of `GroupDm` is a step of
  `SeatPromise` or a stutter. From the same invariant: while no snapshot was ahead
  the seat is in one place at most (`SeatLocated`), what changes neither owners nor
  the transfers still to be taken leaves it there (`SeatUnmoved`), and the classes of
  steps are mapped one by one (`ActBaton` for what issues, `HeardBaton`, `TookBaton`
  and `BootedBaton` for what hears); `ActForks` and `ForkFoundedHolds` are the end of
  the promise.
- `GroupDmNamesProofs!NamesAgree`: the inductive invariant `NamesSafe`, around
  `LastIsNewest`. The last name given is the newest, though clocks differ: its issuer
  held the seat, so had heard of the one before it, and took a stamp above or lost the
  name (`renameStale`). Whoever has settled the last name either wrote it or showed it
  already (`Same`). In the second case it keeps showing it, though its version was not
  written: an older name that comes later and is written over it is `unversioned`. The
  theorem excludes seven such ways and is about what is shown, not about the versions
  stored, which do differ.

Only model-checked: the liveness properties (`EventuallyInSync`,
`EveryCreateSettles`, `UnderstoodAgain`, `PullEnds`, `ResetNoticed`), since fairness
and ENABLED are beyond the proof system. Every invariant and every action property of
the passing runs is a theorem. Each inductive invariant was first checked by TLC on
the bounds of its run.

## 5. What the runs found

1. A deletion cancels a queued create even if the create has been posted or
   applied (`cancelled_was_relayed`); the peer keeps the message.
2. A create is posted with the snapshot's payload and applied, its answer is lost, and
   an edit made before the retry is coalesced into the row: the retry carries the edit,
   is answered `duplicate`, which is terminal, and the peer keeps the older version
   (`edit_lost_to_duplicate`). An edit made while the POST is outstanding is dropped by
   a plain `accepted` as well; that is a gap of `InSyncWhenQuiet`.
3. With a health-check interval equal to the grace period, a new secret is refused
   for up to one interval after the grace period ends
   (`spurious_auth_failure`).
4. Two handshakes that cross leave both rows active under different secrets: each
   side adopts the other's, and then keeps it when its own call is answered 200
   (`crossed_handshakes`).

The passing runs name, as exceptions of their properties, what the code does not
hold together. Each was met in a counterexample before it was written down.

5. Sync pull (`SyncPull`). `handlers/relay.ts:748-749` computes the checkpoint before
   filtering "so filtered-out events still advance the cursor", but the requester
   ends the pass on a page without events, so the rest of the log waits for a later
   activation and is then older than `lastSyncedAt`. A pull that fails midway is
   repeated only by the next activation.
6. Reset and heal (`IncarnationReset`). A second detection (an inbound `/peer/accept`
   while parked) flags the users created since the first, which
   `utils/federationReset.ts:75-76` says survive. A probe answered after peering anew
   flags users and opens a journal beside an active row. An activation that joins one
   in flight skips the heal. A crash or an exception between the activation and the end
   of the heal leaves the journal open beside an active row, and no later start resumes
   it.
7. Groups (`GroupDm`).
   - A transfer that reaches an instance before the `member_add` that creates the
     channel there is accepted and forgotten (`dropped`); if it was made to a user
     of that instance, the group has no owner who can act (`seatDropped`).
   - A `member_add` whose snapshot overtakes a transfer leaves that transfer refused
     and retried until ownership comes back: then it is taken, and two instances hold
     the seat (`ahead`).
   - Two transfers of one issuer that change places leave the wrong user as owner at
     a third instance; the comment at `events/membership.ts:463-465` is about replays
     only (`overtaken`). It is enough that the later one is taken first, even if
     the earlier one is never taken after it: with A to B, B to C (user c), C to B, B
     to A, A to C (user c2), a fourth instance that takes A to C, C to B and then B to
     C settles on c.
   - With two seats (`ahead`), the transfers of the two can strand each other: each
     reaches an instance that believes the other. `SeatFoundWhenQuiet` excludes it.
   - An instance whose last member left is no longer told; when a user there is added
     again the channel exists, the snapshot is ignored and the owner is stale
     (`missed`).
   - Any member may add a friend (`routes/dm.ts:1792`), but an instance new to the
     group accepts the snapshot only from the owner's instance; the refusal is
     terminal, and the user never gets the group (`refused`).
   - A name is lost at a third instance that has not heard of a transfer
     (`renameRefused`), when the new owner's clock is behind (`renameStale`), when a
     snapshot is older (`behind`), and is replaced by an older one applied after
     its icon was downloaded (`regressed`).
   - A newer name that shows what is shown already is accepted without its version
     (`events/membership.ts:674-680`), so an older one that arrives later is applied
     over it (`unversioned`): no name, then "Y", then none again, with the last two
     changing places, leaves "Y" for good. docs/systems/federation.md:975 has "rapid
     edits coalesce per peer with `entityId = channelId`"; the entity id carries the
     time of the change (`utils/federationOutbox.ts:979`), so two changes are two rows
     and may change places.
   - `processMemberAddEvent` checks the limit before membership: a bootstrap of a
     full group inserts all members and is then refused `max_members_exceeded` at
     every retry.
   - The owner need not be a member (the seat may pass to a user who has left where
     the old owner has not heard of it): comments that "kicks always leave the
     owner behind" (`routes/dm.ts:782`) rest on it.

## 6. Plan and what is not modelled

Done: `RelayOutbox`, `SecretRotation`, `Peering`, `SyncPull`, `IncarnationReset`,
`GroupDm`. What is left, most important first:

| Part | State | Why it is worth a model, or is not |
|---|---|---|
| Calls (`events/calls.ts`, `ws/handler.ts`, `utils/voiceCapacity.ts`) | not modelled | Relayed without the outbox: a lost end is repaired by the sentinel only, and reservations expire while their users connect. The next module to write; its state is in memory and shares nothing with the modules here. |
| Messages and reactions within a group | not modelled | Composes `RelayOutbox`'s receiver with `GroupDm`'s channels: a message before its `member_add` is rejected and retried. |
| Batch limit and TTL of outbox rows | not modelled | Fifty rows that stay rejected fill every batch. `RelayOutbox` keeps such rows but selects all that are due. |
| Expiry of approval requests, liveness of peering | not modelled | `Peering` reaches rows that stay pending or rejected; which of them is meant to recover no document says. |
| Friends (`events/friends.ts`, `federationRollback.ts`) | not modelled | Crossing requests and the rollback after a terminal refusal. |
| File queue, janitor | not modelled | One download at a time; age guards over the file system. |
| Web client (`packages/web`) | not modelled | The pending-message store over reconnection would make a module; the rest renders data. |
| Spaces, channels, users, search, settings, invites, admin routes | not modelled | One synchronous handler at a time over one database connection; tests reach them. |
| Desktop, Android, deployment, landing page | not modelled | Operating-system I/O, scripts, static pages. |

Theorems worth adding: for each exception a theorem names, that the model reaches it;
and the safety of the modules above once they are written.
