------------------------------ MODULE Peering ------------------------------
(***************************************************************************)
(* How two instances come to hold a peer row about each other, and lose    *)
(* it.  Four local operations post /peer/accept to the other instance: an  *)
(* admin's /peer/initiate, ensurePeered on behalf of a user or of queued   *)
(* mail, and an admin's approval of an inbound or an outbound request.     *)
(* All of them await the answer between the insertion of a pending row and *)
(* the write that settles it, and write by the id of that row whatever     *)
(* happened to it meanwhile.  Answers are lost, requests are served after  *)
(* their caller gave up, processes restart, admins revoke and reset, and   *)
(* the relay worker and the recovery probe write the status on their own.  *)
(*                                                                         *)
(* A number minted by an operation stands for the secret it generates, the *)
(* id of the row or request it inserts and the token of the 202 it gets.   *)
(* approval_token is read while a row awaits approval only, and set when   *)
(* it starts to: elsewhere it is 0.  An instance has at most one approval  *)
(* request about the other, since inbound ones reuse the row of either     *)
(* direction and an outbound one is inserted where there is none.          *)
(* The relay worker and the recovery probe share one slot per instance.    *)
(* Expiry of requests, epochs, rotation and rate limits are left out.      *)
(***************************************************************************)
EXTENDS Naturals

CONSTANTS
  Here, There,  \* the two instances
  MaxMints,     \* bound: operations that generate something
  MaxUpsets     \* bound: lost calls, restarts, removals and worker tasks

ASSUME PeeringAssumption ==
  /\ Here # There
  /\ MaxMints \in Nat
  /\ MaxUpsets \in Nat

Instances == {Here, There}

Other(i) == IF i = Here THEN There ELSE Here

Ids == 1 .. MaxMints

VARIABLES
  gated,      \* the instances with autoAcceptPeering = 0; never changes
  row,        \* each instance's federation_peers row about the other
  request,    \* its peer_approval_requests row about the other
  calls,      \* server-to-server calls under way
  activated,  \* rows whose onPeerActivated has not reached its fan-out
  worker,     \* what the relay worker or the recovery probe waits for
  minted,     \* operations so far
  upsets,     \* lost calls, restarts, removals and worker tasks so far
  known,      \* history: the secrets an instance generated or adopted
  stale       \* history: the secret adopted last came from a call whose
              \* caller's row held another one by then, or was gone

vars == <<gated, row, request, calls, activated, worker, minted, upsets, known, stale>>

Status == {"none", "pending", "awaiting_approval", "active", "unreachable",
           "needs_attention", "rejected", "revoked"}

\* Who inserted a row: an admin, a user's ensurePeered, queueOutboxEvent,
\* the other instance's call, or a denial.
Creator == {"nobody", "admin", "user", "relay", "peer", "denial"}

Row == [id : Ids \cup {0}, status : Status, secret : Ids \cup {0},
        token : Ids \cup {0}, by : Creator]

NoRow == [id |-> 0, status |-> "none", secret |-> 0, token |-> 0, by |-> "nobody"]

Request == [dir : {"none", "inbound", "outbound"}, id : Ids \cup {0},
            secret : Ids \cup {0}, token : Ids \cup {0}]

NoRequest == [dir |-> "none", id |-> 0, secret |-> 0, token |-> 0]

Handshakes == {"initiate", "ensure", "approve_inbound", "approve_outbound"}

\* "activated": a 200 answer; "proved", "unproved": the outcome of the signed
\* round trip of /peer/initiate; "abandoned": nobody waits for the answer.
Steps == {"sent", "activated", "queued", "blocked", "refused", "proved",
          "unproved", "abandoned"}

Call == [id : Ids, from : Instances, kind : Handshakes \cup {"deny"},
         row : Ids \cup {0}, secret : Ids, token : Ids \cup {0},
         request : Ids \cup {0}, step : Steps]

Task == [task : {"none", "relay", "probe"}, id : Ids \cup {0}]

Idle == [task |-> "none", id |-> 0]

TypeOK ==
  /\ gated \subseteq Instances
  /\ row \in [Instances -> Row]
  /\ request \in [Instances -> Request]
  /\ calls \subseteq Call
  /\ activated \in [Instances -> SUBSET Ids]
  /\ worker \in [Instances -> Task]
  /\ minted \in 0 .. MaxMints
  /\ upsets \in 0 .. MaxUpsets
  /\ known \in [Instances -> SUBSET Ids]
  /\ stale \in BOOLEAN
  /\ \A i \in Instances :
       /\ row[i] = NoRow \/ (row[i].status # "none" /\ row[i].id \in Ids)
       /\ request[i] = NoRequest \/ request[i].dir # "none"

Init ==
  /\ gated \in SUBSET Instances
  /\ row = [i \in Instances |-> NoRow]
  /\ request = [i \in Instances |-> NoRequest]
  /\ calls = {}
  /\ activated = [i \in Instances |-> {}]
  /\ worker = [i \in Instances |-> Idle]
  /\ minted = 0
  /\ upsets = 0
  /\ known = [i \in Instances |-> {}]
  /\ stale = FALSE

-----------------------------------------------------------------------------
(* Writes by id, as every handler makes them after an await.               *)

\* UPDATE federation_peers SET status WHERE id: nothing if the row is gone.
WithStatus(i, id, s, token) ==
  IF row[i].status # "none" /\ row[i].id = id
  THEN [row EXCEPT ![i].status = s, ![i].token = token]
  ELSE row

\* DELETE FROM federation_peers WHERE id.
WithoutRow(i, id) ==
  IF row[i].id = id THEN [row EXCEPT ![i] = NoRow] ELSE row

\* DELETE FROM peer_approval_requests WHERE id.
WithoutRequest(i, id) ==
  IF request[i].dir = "inbound" /\ request[i].id = id
  THEN [request EXCEPT ![i] = NoRequest]
  ELSE request

\* onPeerActivated starts for a row.  Its fan-out matters to an outbound request
\* that is there now: a later one is asked for when the row is gone.
StartActivation(i, id) ==
  activated' = IF request[i].dir = "outbound"
               THEN [activated EXCEPT ![i] = @ \cup {id}]
               ELSE activated

Upset ==
  /\ upsets < MaxUpsets
  /\ upsets' = upsets + 1

\* A new number, and the secret it stands for.
Mint ==
  /\ minted < MaxMints
  /\ minted' = minted + 1

Learn(i, secret) == known' = [known EXCEPT ![i] = @ \cup {secret}]

PendingRow(id, by) ==
  [id |-> id, status |-> "pending", secret |-> id, token |-> 0, by |-> by]

\* The instance inserts a pending row (over the one it deletes, if any) and
\* posts the secret it generated to the other instance's /peer/accept.
Handshake(i, kind, by, token, req) ==
  LET n == minted + 1
  IN  /\ Mint
      /\ Learn(i, n)
      /\ row' = [row EXCEPT ![i] = PendingRow(n, by)]
      /\ calls' = calls \cup
           {[id |-> n, from |-> i, kind |-> kind, row |-> n, secret |-> n,
             token |-> token, request |-> req, step |-> "sent"]}

-----------------------------------------------------------------------------
(* The local operations.                                                   *)

\* POST /peer/initiate.
Initiate(i) ==
  /\ row[i].status \in {"none", "revoked", "rejected", "needs_attention"}
  /\ Handshake(i, "initiate", "admin", 0, 0)
  /\ UNCHANGED <<gated, request, activated, worker, upsets, stale>>

\* queueOutboxEvent meets an origin it has no row for.
CreatePlaceholder(i) ==
  /\ row[i].status = "none"
  /\ Mint
  /\ Learn(i, minted + 1)
  /\ row' = [row EXCEPT ![i] = PendingRow(minted + 1, "relay")]
  /\ UNCHANGED <<gated, request, calls, activated, worker, upsets, stale>>

\* An ensurePeered of this instance awaits its answer (inFlightPeering).
Ensuring(i) ==
  \E c \in calls : c.from = i /\ c.kind = "ensure" /\ c.step # "abandoned"

\* ensurePeered without a row: the gate is open.
EnsureNewPeer(i) ==
  /\ row[i].status = "none"
  /\ request[i].dir # "inbound"
  /\ i \notin gated
  /\ ~Ensuring(i)
  /\ Handshake(i, "ensure", "user", 0, 0)
  /\ UNCHANGED <<gated, request, activated, worker, upsets, stale>>

\* ensurePeered with a pending row, whose secret it posts.
EnsurePending(i) ==
  /\ row[i].status = "pending"
  /\ request[i].dir # "inbound"
  /\ ~Ensuring(i)
  /\ Mint
  /\ calls' = calls \cup
       {[id |-> minted + 1, from |-> i, kind |-> "ensure", row |-> row[i].id,
         secret |-> row[i].secret, token |-> 0, request |-> 0, step |-> "sent"]}
  /\ UNCHANGED <<gated, row, request, activated, worker, upsets, known, stale>>

\* ensurePeered without a row on behalf of a user, at a gated instance.
AskAdmin(i) ==
  /\ row[i].status = "none"
  /\ i \in gated
  /\ request[i].dir = "none"
  /\ request' = [request EXCEPT ![i] = [NoRequest EXCEPT !.dir = "outbound"]]
  /\ UNCHANGED <<gated, row, calls, activated, worker, minted, upsets, known, stale>>

\* An admin approves an inbound request.
ApproveInbound(i) ==
  /\ request[i].dir = "inbound"
  /\ \/ /\ row[i].status = "active"
        /\ request' = [request EXCEPT ![i] = NoRequest]
        /\ UNCHANGED <<row, calls, minted, known>>
     \/ /\ row[i].status # "active"
        /\ Handshake(i, "approve_inbound", "admin", request[i].token, request[i].id)
        /\ UNCHANGED request
  /\ UNCHANGED <<gated, activated, worker, upsets, stale>>

\* An admin approves an outbound request: its INSERT needs the origin free.
ApproveOutbound(i) ==
  /\ request[i].dir = "outbound"
  /\ row[i].status = "none"
  /\ Handshake(i, "approve_outbound", "admin", 0, 0)
  /\ UNCHANGED <<gated, request, activated, worker, upsets, stale>>

\* An admin denies an inbound request: the other instance is told first,
\* in a call signed with the secret of the request.
DenyInbound(i) ==
  /\ request[i].dir = "inbound"
  /\ Mint
  /\ calls' = calls \cup
       {[id |-> minted + 1, from |-> i, kind |-> "deny", row |-> 0,
         secret |-> request[i].secret, token |-> 0,
         request |-> request[i].id, step |-> "sent"]}
  /\ UNCHANGED <<gated, row, request, activated, worker, upsets, known, stale>>

\* An admin denies an outbound request: a local matter.
DenyOutbound(i) ==
  /\ request[i].dir = "outbound"
  /\ request' = [request EXCEPT ![i] = NoRequest]
  /\ UNCHANGED <<gated, row, calls, activated, worker, minted, upsets, known, stale>>

-----------------------------------------------------------------------------
(* Serving the other instance's calls.                                     *)

Moved(c, step) == (calls \ {c}) \cup {[c EXCEPT !.step = step]}

\* The answer goes to whoever still waits for it.
Answer(c, step) ==
  calls' = IF c.step = "abandoned" THEN calls \ {c} ELSE Moved(c, step)

\* Mutant of GateShut: only a denied origin meets the gate.
GateForRejectedOnly(j) == j \in gated /\ row[j].status = "rejected"

\* The autoAcceptPeering gate of /peer/accept at instance j.
GateShut(j) ==
  j \in gated /\ row[j].status \notin {"pending", "awaiting_approval"}

\* Mutant of Verdict: a revoked row is a row to update.
RevokedIsUpdated(j, c) ==
  CASE GateShut(j) -> "queued"
    [] ~GateShut(j) /\ row[j].status \in {"active", "needs_attention"} -> "refused"
    [] OTHER -> "activated"

\* What /peer/accept does with a call, by the status of the row.
Verdict(j, c) ==
  CASE row[j].status = "rejected" /\ GateShut(j) -> "blocked"
    [] row[j].status # "rejected" /\ GateShut(j) -> "queued"
    [] ~GateShut(j) /\ row[j].status \in {"active", "needs_attention", "revoked"} -> "refused"
    [] row[j].status = "awaiting_approval" /\ j \in gated /\ row[j].token # c.token -> "queued"
    [] OTHER -> "activated"

\* queueApprovalRequest: one row per origin, whatever its direction.
QueueApprovalRequest(j, c) ==
  request' = [request EXCEPT ![j] =
    IF @.dir = "none"
    THEN [dir |-> "inbound", id |-> c.id, secret |-> c.secret, token |-> c.id]
    ELSE [@ EXCEPT !.secret = c.secret, !.token = c.id]]

\* Mutant of AdoptedRow: an UPDATE where there may be no row.
UpdatedRow(j, c) ==
  [row[j] EXCEPT !.status = "active", !.secret = c.secret, !.token = 0]

\* Mutant of AdoptedRow: success is reported without adopting the caller's secret.
UnadoptedRow(j, c) ==
  IF row[j].status = "none"
  THEN [id |-> c.id, status |-> "active", secret |-> c.secret, token |-> 0, by |-> "peer"]
  ELSE [row[j] EXCEPT !.status = "active", !.token = 0]

\* The row about the caller, active under the caller's secret.
AdoptedRow(j, c) ==
  IF row[j].status = "none"
  THEN [id |-> c.id, status |-> "active", secret |-> c.secret, token |-> 0, by |-> "peer"]
  ELSE [row[j] EXCEPT !.status = "active", !.secret = c.secret, !.token = 0]

\* The caller's row is no longer the one it posted the secret of.
Overtaken(c) == row[c.from].id # c.row \/ row[c.from].secret # c.secret

\* A valid token also clears the requests about the caller.
Adopt(j, c) ==
  /\ row' = [row EXCEPT ![j] = AdoptedRow(j, c)]
  /\ request' = IF row[j].status = "awaiting_approval" /\ row[j].token = c.token
                THEN [request EXCEPT ![j] = NoRequest]
                ELSE request
  /\ StartActivation(j, AdoptedRow(j, c).id)
  /\ Learn(j, c.secret)
  /\ stale' = Overtaken(c)

\* POST /peer/accept.
ServeAccept(c) ==
  LET j == Other(c.from)
      verdict == Verdict(j, c)
  IN  /\ c.kind \in Handshakes
      /\ c.step \in {"sent", "abandoned"}
      /\ Answer(c, verdict)
      /\ \/ verdict = "activated" /\ Adopt(j, c)
         \/ /\ verdict = "queued"
            /\ QueueApprovalRequest(j, c)
            /\ UNCHANGED <<row, activated, known, stale>>
         \/ /\ verdict \in {"blocked", "refused"}
            /\ UNCHANGED <<row, request, activated, known, stale>>
      /\ UNCHANGED <<gated, worker, minted, upsets>>

\* The signed round trip of /peer/initiate after a 200: fetchPeerEpoch with the
\* secret the call carried, verified against the other instance's row.  It
\* fails too when it is not answered.
ServeEpoch(c) ==
  LET j == Other(c.from)
      proves == row[j].status \notin {"none", "revoked"} /\ row[j].secret = c.secret
  IN  /\ c.kind = "initiate"
      /\ c.step = "activated"
      /\ \/ proves /\ calls' = Moved(c, "proved")
         \/ calls' = Moved(c, "unproved")
      /\ UNCHANGED <<gated, row, request, activated, worker, minted, upsets, known, stale>>

\* POST /peer/denied.
ServeDenied(c) ==
  LET j == Other(c.from)
      heeded == row[j].status = "awaiting_approval" /\ row[j].secret = c.secret
  IN  /\ c.kind = "deny"
      /\ c.step \in {"sent", "abandoned"}
      /\ Answer(c, IF heeded THEN "activated" ELSE "refused")
      /\ row' = IF heeded THEN WithStatus(j, row[j].id, "rejected", 0) ELSE row
      /\ UNCHANGED <<gated, request, activated, worker, minted, upsets, known, stale>>

-----------------------------------------------------------------------------
(* Hearing the answer, or giving up.                                       *)

\* Row c.row becomes active, if it is still there; onPeerActivated starts.
Activate(c) ==
  /\ row' = WithStatus(c.from, c.row, "active", 0)
  /\ StartActivation(c.from, c.row)

\* Mutant of HearQueued: a 202 counts as response.ok.
QueuedMeansAccepted(c) ==
  /\ c.kind \in Handshakes
  /\ c.step = "queued"
  /\ Activate(c)
  /\ UNCHANGED request

\* 202: the other instance queued the request under the token it returns.
HearQueued(c) ==
  /\ c.kind \in Handshakes
  /\ c.step = "queued"
  /\ row' = WithStatus(c.from, c.row, "awaiting_approval", c.id)
  /\ request' = IF c.kind = "approve_inbound"
                THEN WithoutRequest(c.from, c.request) ELSE request
  /\ UNCHANGED activated

\* 200, and for /peer/initiate the outcome of its round trip.
HearActivated(c) ==
  \/ /\ \/ c.kind = "initiate" /\ c.step = "proved"
        \/ c.kind \in Handshakes \ {"initiate"} /\ c.step = "activated"
     /\ Activate(c)
     /\ request' = IF c.kind = "approve_inbound"
                   THEN WithoutRequest(c.from, c.request) ELSE request
  \/ /\ c.kind = "initiate" /\ c.step = "unproved"
     /\ row' = WithStatus(c.from, c.row, "needs_attention", 0)
     /\ UNCHANGED <<request, activated>>

\* 4xx or 5xx: the pending row goes, unless ensurePeered found it there.  The
\* code PEERING_REQUIRES_APPROVAL is heeded by ensurePeered only.
HearRefused(c) ==
  /\ c.kind \in Handshakes
  /\ c.step \in {"blocked", "refused"}
  /\ row' = IF c.kind = "ensure" /\ c.step = "blocked"
            THEN WithStatus(c.from, c.row, "rejected", 0)
            ELSE IF c.row = c.id THEN WithoutRow(c.from, c.row) ELSE row
  /\ UNCHANGED <<request, activated>>

\* Mutant of HearDenied: a peering made meanwhile is denied as well.
HearDeniedActive(c) ==
  LET i == c.from
      denied == [id |-> c.id, status |-> "rejected", secret |-> c.secret,
                 token |-> 0, by |-> "denial"]
  IN  /\ c.kind = "deny"
      /\ c.step \in {"activated", "refused"}
      /\ \/ /\ c.step = "activated"
            /\ row' = IF row[i].status = "none" THEN [row EXCEPT ![i] = denied]
                      ELSE WithStatus(i, row[i].id, "rejected", 0)
            /\ request' = WithoutRequest(i, c.request)
         \/ c.step = "refused" /\ UNCHANGED <<row, request>>
      /\ UNCHANGED activated

\* The denial was delivered: the row about the other instance, inserted if
\* there is none, is rejected unless it is active.
HearDenied(c) ==
  LET i == c.from
      denied == [id |-> c.id, status |-> "rejected", secret |-> c.secret,
                 token |-> 0, by |-> "denial"]
  IN  /\ c.kind = "deny"
      /\ c.step \in {"activated", "refused"}
      /\ \/ /\ c.step = "activated"
            /\ row' = IF row[i].status = "none" THEN [row EXCEPT ![i] = denied]
                      ELSE IF row[i].status = "active" THEN row
                      ELSE WithStatus(i, row[i].id, "rejected", 0)
            /\ request' = WithoutRequest(i, c.request)
         \/ c.step = "refused" /\ UNCHANGED <<row, request>>
      /\ UNCHANGED activated

Hear(c) ==
  /\ calls' = calls \ {c}
  /\ HearQueued(c) \/ HearActivated(c) \/ HearRefused(c) \/ HearDenied(c)
  /\ UNCHANGED <<gated, worker, minted, upsets, known, stale>>

\* A request not yet served stays under way; an unread answer is lost.
Forsaken(gone) ==
  (calls \ gone) \cup
    {[c EXCEPT !.step = "abandoned"] : c \in {d \in gone : d.step \in {"sent", "abandoned"}}}

\* The call times out or the connection breaks.
Abandon(c) ==
  /\ Upset
  /\ c.step \notin {"abandoned", "proved", "unproved"}
  /\ calls' = Forsaken({c})
  /\ row' = IF c.kind \in Handshakes /\ c.row = c.id
            THEN WithoutRow(c.from, c.row) ELSE row
  /\ UNCHANGED <<gated, request, activated, worker, minted, known, stale>>

\* The process stops and starts: everything it waited for is forgotten.
Restart(i) ==
  /\ Upset
  /\ calls' = Forsaken({c \in calls : c.from = i})
  /\ activated' = [activated EXCEPT ![i] = {}]
  /\ worker' = [worker EXCEPT ![i] = Idle]
  /\ UNCHANGED <<gated, row, request, minted, known, stale>>

-----------------------------------------------------------------------------
(* Administration, relay, recovery, and the fan-out of onPeerActivated.    *)

\* DELETE /peers/:id.
Revoke(i) ==
  /\ Upset
  /\ row[i].status # "none"
  /\ row' = WithStatus(i, row[i].id, "revoked", 0)
  /\ UNCHANGED <<gated, request, calls, activated, worker, minted, known, stale>>

\* DELETE /peers/:id/permanent and POST /peers/:id/reset.
RemoveRow(i) ==
  /\ Upset
  /\ row[i].status \in {"revoked", "needs_attention"}
  /\ row' = [row EXCEPT ![i] = NoRow]
  /\ UNCHANGED <<gated, request, calls, activated, worker, minted, known, stale>>

\* The outbox worker posts to an active peer, the recovery worker (or the
\* admin's recheck) probes an unreachable one.
StartTask(i) ==
  /\ Upset
  /\ worker[i] = Idle
  /\ \/ /\ row[i].status = "active"
        /\ worker' = [worker EXCEPT ![i] = [task |-> "relay", id |-> row[i].id]]
     \/ /\ row[i].status = "unreachable"
        /\ worker' = [worker EXCEPT ![i] = [task |-> "probe", id |-> row[i].id]]
  /\ UNCHANGED <<gated, row, request, calls, activated, minted, known, stale>>

\* The task ends: the threshold of failures or of auth failures is reached, the
\* probe finds the peer, or there is no status to write.  Auth failures happen
\* between rows that agree, too (see SecretRotation).
EndTask(i) ==
  /\ worker[i] # Idle
  /\ worker' = [worker EXCEPT ![i] = Idle]
  /\ \/ UNCHANGED <<row, activated>>
     \/ /\ worker[i].task = "relay"
        /\ \E s \in {"unreachable", "needs_attention"} :
             row' = WithStatus(i, worker[i].id, s, 0)
        /\ UNCHANGED activated
     \/ /\ worker[i].task = "probe"
        /\ row' = WithStatus(i, worker[i].id, "active", 0)
        /\ StartActivation(i, worker[i].id)
  /\ UNCHANGED <<gated, request, calls, minted, upsets, known, stale>>

\* fanoutOutboundSubscribers, at the end of onPeerActivated.
FanOut(i, id) ==
  /\ id \in activated[i]
  /\ activated' = [activated EXCEPT ![i] = @ \ {id}]
  /\ request' = IF row[i].id = id /\ request[i].dir = "outbound"
                THEN [request EXCEPT ![i] = NoRequest] ELSE request
  /\ UNCHANGED <<gated, row, calls, worker, minted, upsets, known, stale>>

Next ==
  \/ \E i \in Instances :
       \/ Initiate(i) \/ CreatePlaceholder(i) \/ EnsureNewPeer(i) \/ EnsurePending(i)
       \/ AskAdmin(i) \/ ApproveInbound(i) \/ ApproveOutbound(i)
       \/ DenyInbound(i) \/ DenyOutbound(i)
       \/ Restart(i) \/ Revoke(i) \/ RemoveRow(i) \/ StartTask(i) \/ EndTask(i)
       \/ \E id \in activated[i] : FanOut(i, id)
  \/ \E c \in calls : ServeAccept(c) \/ ServeEpoch(c) \/ ServeDenied(c) \/ Hear(c) \/ Abandon(c)

Spec == Init /\ [][Next]_vars

-----------------------------------------------------------------------------
(* Properties.                                                             *)

\* An active peer row holds a secret the other instance generated or adopted:
\* a handshake never leaves a row active under a secret of its own that the
\* other side refused, queued or never saw.
ActiveSecretIsShared ==
  \A i \in Instances :
    row[i].status \in {"active", "unreachable"} => row[i].secret \in known[Other(i)]

\* Two rows that are active, or unreachable and to be active at the next probe,
\* hold the same secret, unless the last one adopted came from a request that
\* was overtaken: its caller had meanwhile adopted another secret, or given the
\* request up and dropped its row.
SameSecretUnlessOvertaken ==
  ~stale /\ (\A i \in Instances : row[i].status \in {"active", "unreachable"})
    => row[Here].secret = row[There].secret

\* "Both instances store the same HMAC secret" (docs/systems/federation.md:87).
BothStoreSameSecret ==
  (\A i \in Instances : row[i].status = "active")
    => row[Here].secret = row[There].secret

\* At a gated instance a row that was ever active comes from a local admin or
\* from a local user's message: never from the other instance's call alone,
\* nor from a request that was denied.
GatedRowsAreLocal ==
  \A i \in gated :
    row[i].status \in {"active", "unreachable"} => row[i].by \in {"admin", "relay"}

\* Only work that was under way when an admin revoked a row brings that row
\* back: the other instance cannot.
RevokedOutlivesPeer ==
  [][\A i \in Instances :
       row[i].status = "revoked" /\ row'[i].id = row[i].id /\ row'[i].status # "revoked"
         => \/ worker[i].id = row[i].id
            \/ \E c \in calls : c.from = i /\ c.step # "abandoned"]_vars

\* An active row ceases to be active at the hand of its own instance only: its
\* admin revokes it, the relay worker counts the failures of posts to that very
\* row, or a handshake of its own about that very row is over.  No call of the
\* other instance ends it, nor does what is left of an earlier row.
ActiveEndsAtHome ==
  [][\A i \in Instances :
       row[i].status = "active" /\ row'[i].status # "active" =>
         \/ row'[i].status = "revoked" /\ row'[i].id = row[i].id
         \/ /\ worker[i] = [task |-> "relay", id |-> row[i].id]
            /\ row'[i].status \in {"unreachable", "needs_attention"}
         \/ \E c \in calls \ calls' :
              /\ c.from = i
              /\ c.kind \in Handshakes
              /\ c.row = row[i].id
              /\ c.step # "abandoned"]_vars
=============================================================================
