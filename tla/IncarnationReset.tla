-------------------------- MODULE IncarnationReset --------------------------
(***************************************************************************)
(* A peer that was wiped and reinstalled on the same domain.  Each         *)
(* incarnation of the peer has an epoch.  This instance trusts the epoch   *)
(* it met in a handshake (peer_instance_id) and, when it observes another, *)
(* flags the users it knows from that domain (federation_heal_pending) and *)
(* writes a journal (federation_reset_events).  The next handshake heals:  *)
(* flagged stubs are tombstoned, flagged accounts detached, the journal is *)
(* resolved.                                                               *)
(*                                                                         *)
(* Covered: the four ways an epoch is observed, probes answered after the  *)
(* row changed, handshakes in both directions, activations that join one   *)
(* in flight, an exception or a crash at any point of the heal, restarts,  *)
(* a peer restored from a backup, attach proofs whose answer is late. The  *)
(* peer advertises its epoch, and no request outlives the incarnation it   *)
(* was made to. Left out: the login self-heal, the approval queue, profile *)
(* pulls, what a tombstone removes.                                        *)
(***************************************************************************)
EXTENDS Naturals, FiniteSets

CONSTANTS
  Stubs,      \* users replicated over S2S only (no local password)
  Accounts,   \* users of the peer's domain with a local password
  MaxEpoch,   \* bound: incarnations of the peer
  MaxRows,    \* bound: federation_peers rows for its origin, one at a time
  MaxProbes   \* bound: probes waiting for an answer

ASSUME ResetAssumption ==
  /\ Stubs \cap Accounts = {}
  /\ MaxEpoch \in Nat \ {0}
  /\ MaxRows \in Nat \ {0}
  /\ MaxProbes \in Nat \ {0}

Users == Stubs \cup Accounts

Epochs == 1 .. MaxEpoch

RowIds == 1 .. MaxRows

\* No baseline, no secret; an answer without a readable instanceId.
Unknown == 0

VARIABLES
  epoch,      \* the incarnation that runs at the peer
  ran,        \* incarnations so far
  row,        \* federation_peers row of the peer's origin
  journal,    \* federation_reset_events row of the origin
  user,       \* users rows of the peer's domain
  probes,     \* GET /api/instance/info calls waiting for an answer
  calls,      \* rows with a POST /peer/accept of ours under way
  syncing,    \* inFlightActivation: rows whose activation has not finished
  proving,    \* detached accounts whose attach proof the peer found valid,
              \* before its answer is handled
  spared,     \* history: users the last detection does not hold: created, or
              \* re-attached without a flag, since then, or cleared as a
              \* false alarm
  stranded    \* history: why the row is active while the journal is open

vars == <<epoch, ran, row, journal, user, probes, calls, syncing, proving,
          spared, stranded>>

\* "parked" is awaiting_approval and rejected.
Statuses == {"gone", "pending", "parked", "active", "unreachable",
             "needs_attention", "revoked"}

\* base is peer_instance_id; secret the incarnation hmac_secret was agreed
\* with; reason tells "peer_reset_detected" from the others.
Row == [id : RowIds, status : Statuses, base : Epochs \cup {Unknown},
        secret : Epochs \cup {Unknown}, reason : {"reset", "other"}]

Journal == [open : BOOLEAN, dead : Epochs \cup {Unknown}]

User == [fate : {"absent", "live", "buried", "detached"}, pending : BOOLEAN]

Probe == [id : RowIds, base : Epochs \cup {Unknown},
          kind : {"recover", "detect"}]

Causes == {"none", "joined", "cut", "recovered", "stale"}

TypeOK ==
  /\ epoch \in 1 .. ran
  /\ ran \in Epochs
  /\ row \in Row
  /\ journal \in Journal
  /\ user \in [Users -> User]
  /\ \A s \in Stubs : user[s].fate # "detached"
  /\ \A a \in Accounts : user[a].fate # "buried"
  /\ probes \subseteq Probe
  /\ calls \subseteq RowIds
  /\ syncing \subseteq RowIds
  /\ proving \subseteq Accounts
  /\ spared \subseteq Users
  /\ stranded \in Causes

Absent == [fate |-> "absent", pending |-> FALSE]

Fresh == [fate |-> "live", pending |-> FALSE]

\* The peers have met; a row older than the epoch exchange has no baseline.
Init ==
  /\ epoch = 1
  /\ ran = 1
  /\ \E base \in {Unknown, 1} :
       row = [id |-> 1, status |-> "active", base |-> base, secret |-> 1,
              reason |-> "other"]
  /\ journal = [open |-> FALSE, dead |-> Unknown]
  /\ user = [u \in Users |-> Absent]
  /\ probes = {}
  /\ calls = {}
  /\ syncing = {}
  /\ proving = {}
  /\ spared = {}
  /\ stranded = "none"

-----------------------------------------------------------------------------
(* Detection: flag and journal, never destroy.                             *)

\* Rows with is_deleted = 0.
Present(u) == user[u].fate \in {"live", "detached"}

\* Mutant of Flagged: only stubs are flagged, as the heal tombstones only them.
FlaggedStubs == [u \in Users |-> IF u \in Stubs /\ Present(u)
                                 THEN [user[u] EXCEPT !.pending = TRUE]
                                 ELSE user[u]]

Flagged == [u \in Users |-> IF Present(u)
                            THEN [user[u] EXCEPT !.pending = TRUE] ELSE user[u]]

\* markPeerReset for the row "id", whose baseline was "dead" when it was read.
Detect(id, dead) ==
  /\ row' = IF row.id = id /\ row.status # "gone"
            THEN [row EXCEPT !.status = "needs_attention", !.reason = "reset"]
            ELSE row
  /\ user' = Flagged
  /\ journal' = IF journal.open THEN journal
                                ELSE [open |-> TRUE, dead |-> dead]
  /\ spared' = {}
  /\ stranded' = IF row'.status = "active" THEN "stale" ELSE "none"

-----------------------------------------------------------------------------
(* Heal.                                                                   *)

\* Mutant of Doomed: accounts are tombstoned too.
DoomedAll == {u \in Users : user[u].pending /\ Present(u)}

\* Mutant of Doomed: every stub of the domain, flagged or not.
DoomedUnflagged == {s \in Stubs : Present(s)}

Doomed == {s \in Stubs : user[s].pending /\ Present(s)}

Orphans == {a \in Accounts : user[a].pending /\ Present(a)}

Buried(doomed, u) ==
  IF u \in doomed THEN [user[u] EXCEPT !.fate = "buried"] ELSE user[u]

\* The flags of the stubs just tombstoned are cleared, by id.
StubsHealed(u) ==
  IF u \in Doomed THEN [fate |-> "buried", pending |-> FALSE] ELSE user[u]

\* Mutant of Healed: the detached accounts keep their flag.
HealedFlagKept(u) ==
  IF u \in Orphans THEN [user[u] EXCEPT !.fate = "detached"]
                   ELSE StubsHealed(u)

Healed(u) ==
  IF u \in Orphans THEN [fate |-> "detached", pending |-> FALSE]
                   ELSE StubsHealed(u)

Cleared(u) == [user[u] EXCEPT !.pending = FALSE]

\* A false alarm: no flag is left, nobody is lost.
AlarmOff ==
  /\ user' = [u \in Users |-> Cleared(u)]
  /\ spared' = {u \in Users : user[u].fate = "live"}

Resolved == journal' = [open |-> FALSE, dead |-> Unknown]

\* Mutant of Heal: it returns early when there is no stub to tombstone.
HealUnlessNoStub(base) ==
  /\ stranded' = "none"
  /\ IF journal.open /\ Doomed # {}
     THEN user' = [u \in Users |-> Healed(u)] /\ Resolved
     ELSE UNCHANGED <<journal, user>>
  /\ UNCHANGED spared

\* healResetIncarnation with the epoch of the row just activated.
Heal(base) ==
  /\ stranded' = "none"
  /\ \/ /\ ~journal.open
        /\ UNCHANGED <<journal, user, spared>>
     \/ /\ journal.open
        /\ journal.dead = base
        /\ AlarmOff
        /\ Resolved
     \/ /\ journal.open
        /\ journal.dead # base
        /\ user' = [u \in Users |-> Healed(u)]
        /\ Resolved
        /\ UNCHANGED spared

\* The heal is cut short, by an exception or with the process: what was
\* committed stays, the journal is open.
HealCut(base) ==
  /\ journal.open
  /\ \/ UNCHANGED <<user, spared>>
     \/ journal.dead = base /\ AlarmOff
     \/ /\ journal.dead # base
        /\ UNCHANGED spared
        /\ \/ \E doomed \in SUBSET Doomed :
                user' = [u \in Users |-> Buried(doomed, u)]
           \/ user' = [u \in Users |-> StubsHealed(u)]
           \/ user' = [u \in Users |-> Healed(u)]
  /\ stranded' = "cut"
  /\ UNCHANGED journal

Forget == probes' = {} /\ calls' = {} /\ syncing' = {} /\ proving' = {}

\* onPeerActivated after a handshake: it joins an activation of the same row
\* that is in flight, or heals.  An exception ends the activation without a
\* sync, and is logged.  "cl" is the calls the caller leaves.
Activated(id, base, cl) ==
  \/ /\ \/ /\ id \in syncing
           /\ stranded' = IF journal.open THEN "joined" ELSE "none"
           /\ UNCHANGED <<journal, user, syncing, spared>>
        \/ /\ id \notin syncing
           /\ Heal(base)
           /\ syncing' = syncing \cup {id}
        \/ /\ id \notin syncing
           /\ HealCut(base)
           /\ UNCHANGED syncing
     /\ calls' = cl
     /\ UNCHANGED <<probes, proving>>
  \/ /\ id \notin syncing
     /\ HealCut(base)
     /\ Forget

\* Mutant of Recovered: the reason gate is dropped, a probe heals.
RecoveredHeals(id) ==
  /\ Heal(row.base)
  /\ syncing' = syncing \cup {id}

\* onPeerActivated after a probe: the reason gate keeps the heal out.
Recovered(id) ==
  /\ stranded' = IF journal.open THEN "recovered" ELSE "none"
  /\ syncing' = syncing \cup {id}
  /\ UNCHANGED <<journal, user, spared>>

-----------------------------------------------------------------------------
(* The peer and its users.                                                 *)

\* Wiped and set up anew, or restored from a backup.
Replace(e) ==
  /\ e # epoch
  /\ e <= ran + 1
  /\ epoch' = e
  /\ ran' = IF e > ran THEN e ELSE ran
  /\ UNCHANGED <<row, journal, user, probes, calls, syncing, proving, spared,
                 stranded>>

\* A user of the domain becomes known here: a stub or an account of its own.
Learn(u) ==
  /\ user[u].fate = "absent"
  /\ user' = [user EXCEPT ![u] = Fresh]
  /\ spared' = spared \cup {u}
  /\ UNCHANGED <<epoch, ran, proving, row, journal, probes, calls, syncing,
                 stranded>>

\* A detached account's one-time proof is sent over the active row, and the
\* incarnation that shares its secret finds it valid.
Prove(a) ==
  /\ user[a].fate = "detached"
  /\ row.status = "active"
  /\ row.secret = epoch
  /\ proving' = proving \cup {a}
  /\ UNCHANGED <<epoch, ran, row, journal, user, probes, calls, syncing,
                 spared, stranded>>

\* The peer's word arrives: the account is bound to its new home identity, by
\* id and whatever has become of it and of the row since; a stub of that
\* identity is merged into it.
Reattach(a) ==
  /\ proving' = proving \ {a}
  /\ \E twin \in {{}} \cup {{s} : s \in {t \in Stubs : Present(t)}} :
       /\ user' = [u \in Users |-> IF u = a THEN [user[a] EXCEPT !.fate = "live"]
                                   ELSE IF u \in twin THEN Absent
                                   ELSE user[u]]
       /\ spared' = (spared \ twin)
                         \cup (IF user[a].pending THEN {} ELSE {a})
  /\ UNCHANGED <<epoch, ran, row, journal, probes, calls, syncing, stranded>>

\* It is lost, or the identity is held by another account.
ProofLost(a) ==
  /\ proving' = proving \ {a}
  /\ UNCHANGED <<epoch, ran, row, journal, user, probes, calls, syncing,
                 spared, stranded>>

-----------------------------------------------------------------------------
(* Deliveries and probes.                                                  *)

\* A delivery fails for the last time: the row is written by id, whatever its
\* status has become since the delivery began.
Reached == row.status \in {"active", "unreachable", "needs_attention",
                           "revoked"}

Fail ==
  /\ Reached
  /\ row' = [row EXCEPT !.status = "unreachable"]
  /\ UNCHANGED <<epoch, ran, proving, journal, user, probes, calls, syncing,
                 spared, stranded>>

\* 401 or 403 once too often; the row's baseline is probed at once.
AuthThreshold ==
  /\ Reached
  /\ Cardinality(probes) < MaxProbes
  /\ row' = [row EXCEPT !.status = "needs_attention"]
  /\ probes' = probes \cup
       (IF row.base = Unknown THEN {}
        ELSE {[id |-> row.id, base |-> row.base, kind |-> "detect"]})
  /\ UNCHANGED <<epoch, ran, proving, journal, user, calls, syncing, spared,
                 stranded>>

Ask(kind) ==
  /\ Cardinality(probes) < MaxProbes
  /\ [id |-> row.id, base |-> row.base, kind |-> kind] \notin probes
  /\ probes' = probes \cup {[id |-> row.id, base |-> row.base, kind |-> kind]}
  /\ UNCHANGED <<epoch, ran, proving, row, journal, user, calls, syncing,
                 spared, stranded>>

\* Recovery tick, or the admin's recheck.
ProbeUnreachable == row.status = "unreachable" /\ Ask("recover")

Candidate ==
  /\ row.status = "needs_attention"
  /\ row.base # Unknown
  /\ row.reason # "reset"

\* Mutant of Sweep: it looks at unreachable rows only.
SweepUnreachable ==
  row.status = "unreachable" /\ row.base # Unknown /\ Ask("detect")

\* The sweep of the health tick and of the start-up.
Sweep == Candidate /\ Ask("detect")

\* Mutant of Differs: an answer without an epoch counts as another one.
DiffersUnread(base, observed) == base # Unknown /\ observed # base

Differs(base, observed) ==
  base # Unknown /\ observed # Unknown /\ observed # base

\* recoverOrDetectReset and detectResetForPeer, with the row as it was when
\* the probe was sent.
Answer(p, observed) ==
  /\ \/ /\ Differs(p.base, observed)
        /\ Detect(p.id, p.base)
        /\ UNCHANGED syncing
     \/ /\ ~Differs(p.base, observed)
        /\ p.kind = "recover" /\ row.id = p.id /\ row.status # "gone"
        /\ row' = [row EXCEPT !.status = "active"]
        /\ Recovered(p.id)
     \/ /\ ~Differs(p.base, observed)
        /\ p.kind = "detect" \/ row.id # p.id \/ row.status = "gone"
        /\ UNCHANGED <<row, journal, user, syncing, spared, stranded>>
  /\ probes' = probes \ {p}
  /\ UNCHANGED <<epoch, ran, proving, calls>>

Answered == \E p \in probes : \E observed \in {epoch, Unknown} :
              Answer(p, observed)

\* No answer within ten seconds.
NoAnswer(p) ==
  /\ probes' = probes \ {p}
  /\ UNCHANGED <<epoch, ran, proving, row, journal, user, calls, syncing,
                 spared, stranded>>

\* refreshPeerEpochs, or a signed relay: an active row without a baseline takes
\* the epoch of the incarnation that holds its secret.
Refresh ==
  /\ row.status = "active"
  /\ row.base = Unknown
  /\ row.secret = epoch
  /\ row' = [row EXCEPT !.base = epoch]
  /\ UNCHANGED <<epoch, ran, proving, journal, user, probes, calls, syncing,
                 spared, stranded>>

-----------------------------------------------------------------------------
(* Handshakes.                                                             *)

\* A row after a handshake with the running incarnation.
Met(r) == [r EXCEPT !.status = "active", !.base = epoch, !.secret = epoch]

NextRow(status) ==
  [id |-> row.id + 1, status |-> status, base |-> Unknown, secret |-> Unknown,
   reason |-> "other"]

\* POST /peer/accept from the peer onto a row it may not rekey.
AcceptRefused ==
  /\ row.status \in {"active", "needs_attention"}
  /\ Differs(row.base, epoch)
  /\ Detect(row.id, row.base)
  /\ UNCHANGED <<epoch, ran, proving, probes, calls, syncing>>

\* POST /peer/accept onto any other row that is not revoked, or onto no row;
\* with autoAcceptPeering off it is queued and nothing happens here.
AcceptMet ==
  /\ \/ row.status \in {"pending", "parked", "unreachable"}
        /\ row' = Met(row)
     \/ /\ row.status = "gone"
        /\ row.id < MaxRows
        /\ row' = Met(NextRow("active"))
  /\ Activated(row'.id, row'.base, calls)
  /\ UNCHANGED <<epoch, ran>>

\* A new pending row in the place of the one there is, and the call.
PeerAnew ==
  /\ row.id < MaxRows
  /\ row' = NextRow("pending")
  /\ calls' = calls \cup {row.id + 1}
  /\ UNCHANGED <<epoch, ran, proving, journal, user, probes, syncing, spared,
                 stranded>>

\* POST /peer/initiate, or ensurePeered.
Initiate ==
  /\ row.status \in {"gone", "parked", "needs_attention", "revoked"}
  /\ PeerAnew

\* The admin approves a request the peer once queued here: whatever row there
\* is goes, unless it is active.
ApproveInbound == row.status # "active" /\ PeerAnew

\* ensurePeered over a row left pending.
Retry ==
  /\ row.status = "pending"
  /\ row.id \notin calls
  /\ calls' = calls \cup {row.id}
  /\ UNCHANGED <<epoch, ran, proving, row, journal, user, probes, syncing,
                 spared, stranded>>

\* The answer to our /peer/accept.  The row is written by id.
SettleAccepted(id) ==
  /\ row.id = id
  /\ row.status # "gone"
  /\ \E reason \in {row.reason, "other"} :
       row' = [Met(row) EXCEPT !.reason = reason]
  /\ Activated(id, row'.base, calls \ {id})
  /\ UNCHANGED <<epoch, ran>>

\* 202, a refusal, an unverified 200, or an error.
SettleOtherwise(id) ==
  /\ \/ row.id # id /\ row' = row
     \/ /\ row.id = id /\ row.status # "gone"
        /\ row' \in {[row EXCEPT !.status = "parked"],
                     [row EXCEPT !.status = "needs_attention",
                                 !.reason = "other"],
                     [row EXCEPT !.status = "gone"],
                     row}
     \/ row.status = "gone" /\ row' = row
  /\ calls' = calls \ {id}
  /\ UNCHANGED <<epoch, ran, proving, journal, user, probes, syncing, spared,
                 stranded>>

-----------------------------------------------------------------------------
(* The admin, restarts.                                                    *)

\* POST /peers/:id/reset
ResetPeering ==
  /\ row.status = "needs_attention"
  /\ row' = [row EXCEPT !.status = "gone"]
  /\ UNCHANGED <<epoch, ran, proving, journal, user, probes, calls, syncing,
                 spared, stranded>>

\* DELETE /peers/:id
Revoke ==
  /\ row.status \notin {"gone", "revoked"}
  /\ row' = [row EXCEPT !.status = "revoked"]
  /\ UNCHANGED <<epoch, ran, proving, journal, user, probes, calls, syncing,
                 spared, stranded>>

\* The mutation-log sync of an activation is over.
SyncEnds(id) ==
  /\ syncing' = syncing \ {id}
  /\ UNCHANGED <<epoch, ran, proving, row, journal, user, probes, calls,
                 spared, stranded>>

Restart ==
  /\ Forget
  /\ UNCHANGED <<epoch, ran, row, journal, user, spared, stranded>>

Next ==
  \/ \E e \in Epochs : Replace(e)
  \/ \E u \in Users : Learn(u)
  \/ \E a \in Accounts : Prove(a)
  \/ \E a \in proving : Reattach(a) \/ ProofLost(a)
  \/ Fail
  \/ AuthThreshold
  \/ ProbeUnreachable
  \/ Sweep
  \/ Answered
  \/ \E p \in probes : NoAnswer(p)
  \/ Refresh
  \/ AcceptRefused
  \/ AcceptMet
  \/ Initiate
  \/ ApproveInbound
  \/ Retry
  \/ \E id \in calls : SettleAccepted(id)
  \/ \E id \in calls : SettleOtherwise(id)
  \/ ResetPeering
  \/ Revoke
  \/ \E id \in syncing : SyncEnds(id)
  \/ Restart

Spec == Init /\ [][Next]_vars

\* The sweep asks about this row, and the peer tells its epoch.
Heard == \E p \in probes : /\ p.id = row.id
                           /\ p.base = row.base
                           /\ Answer(p, epoch)

ProbeEnds == \E p \in probes : Answer(p, epoch) \/ NoAnswer(p)

\* The sweep runs every fifteen minutes and probes end within ten seconds; a
\* peer that is asked again and again answers at some time.
FairSpec ==
  /\ Spec
  /\ WF_vars(Sweep)
  /\ WF_vars(ProbeEnds)
  /\ SF_vars(Heard)

-----------------------------------------------------------------------------
(* Properties.                                                             *)

\* A flag set by a detection is not forgotten: while a user carries one, the
\* journal waits for the handshake that decides about it, whatever crashed.
FlagsFollowJournal ==
  \A u \in Users : user[u].pending /\ Present(u) => journal.open

\* A peer that was never replaced loses nobody and is never journalled, through
\* every order of failures, probes, handshakes and restarts.
UnchangedUntouched ==
  ran = 1 => /\ ~journal.open
             /\ \A u \in Users : /\ ~user[u].pending
                                 /\ user[u].fate \in {"absent", "live"}

\* markPeerReset: "Any stub created AFTER this point is un-flagged and survives
\* the heal".  The point is the last detection: each one flags anew.
SparedSurvive == \A u \in spared : user[u] = Fresh

\* The row of a reset peer does not go back to active with the reset unhealed,
\* but for the four cases "stranded" names: the activation joined one in
\* flight, was cut short, was a recovery, or the detection was of an earlier
\* row.
ActiveMeansHealed ==
  row.status = "active" /\ journal.open => stranded # "none"

\* Users are lost, and the journal resolved, only in a step that leaves the row
\* active with the running incarnation's epoch; and users are lost only when
\* that is not the epoch the journal holds for dead.
Lost(u) == /\ user[u].fate = "live"
           /\ user'[u].fate \in {"buried", "detached"}

HealsByProof ==
  [][/\ (\E u \in Users : Lost(u)) \/ (journal.open /\ ~journal'.open)
        => row'.status = "active" /\ row'.base = epoch'
     /\ (\E u \in Users : Lost(u)) => journal.dead # epoch']_vars

\* A heal after a change of incarnation leaves none of those the detection saw:
\* stubs are tombstoned and accounts detached, whatever an earlier attempt that
\* crashed had done.
HealIsComplete ==
  [][journal.open /\ ~journal'.open /\ journal.dead # epoch'
       => \A u \in Users \ spared :
            user'[u].fate \in {"absent", "buried", "detached"}]_vars

\* A reset of a peer parked in needs_attention is noticed, if the row stays.
ResetNoticed ==
  Candidate /\ row.base # epoch
    ~> \/ journal.open
       \/ ~Candidate
       \/ row.base = epoch

=============================================================================
