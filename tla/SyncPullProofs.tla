--------------------------- MODULE SyncPullProofs ---------------------------
(***************************************************************************)
(* Machine-checked safety of SyncPull for every page size, clock skew and  *)
(* length of the log: types, the horizon lastSyncedAt covers everything    *)
(* before it, and the refinement of SyncPromise.                           *)
(***************************************************************************)
EXTENDS SyncPull, FiniteSetTheorems, TLAPS

\* Pages hold rows of the log.
PagesLogged == \A id \in PeerRows : pull[id].page \subseteq DOMAIN log

Typed == TypeOK /\ PagesLogged

\* Each context has its pass.
LEMMA Passes ==
  /\ DOMAIN Contexts = 1 .. 3
  /\ Len(Contexts) = 3
  /\ \A n \in 1 .. 3 : PassOf(Contexts[n]) = n
  /\ \A ctx \in {Contexts[n] : n \in DOMAIN Contexts} :
       PassOf(ctx) \in 1 .. 3 /\ Contexts[PassOf(ctx)] = ctx
<1>1. DOMAIN Contexts = 1 .. 3 /\ Len(Contexts) = 3
  BY DEF Contexts
<1>2. Contexts[1] = "dm" /\ Contexts[2] = "friend" /\ Contexts[3] = "profile"
  BY DEF Contexts
<1>3. \A m, n \in 1 .. 3 : Contexts[m] = Contexts[n] => m = n
  BY <1>2, SMT
<1>4. ASSUME NEW n \in 1 .. 3
      PROVE  PassOf(Contexts[n]) = n
  <2>1. \E m \in DOMAIN Contexts : Contexts[m] = Contexts[n]
    BY <1>1, <1>4
  <2>2. \A m \in DOMAIN Contexts : Contexts[m] = Contexts[n] => m = n
    BY <1>1, <1>3, <1>4
  <2>3. QED
    BY <2>1, <2>2 DEF PassOf
<1>5. QED
  BY <1>1, <1>4

LEMMA ZeroTime == 0 \in Times
BY SyncAssumption DEF Times

\* The end of a pass leaves a pull without a page.
LEMMA NextPassType ==
  ASSUME NEW p \in Pull
  PROVE  NextPass(p) \in Pull /\ NextPass(p).page = {}
<1> DEFINE over == [p EXCEPT !.page = {}, !.more = FALSE, !.checkpoint = 0,
                             !.since = p.from]
<1>1. over \in Pull /\ over.page = {} /\ over.pass = p.pass
  BY ZeroTime DEF Pull
<1>2. CASE p.pass = Len(Contexts)
  <2>1. NextPass(p) = [over EXCEPT !.at = "finish"]
    BY <1>2 DEF NextPass
  <2>2. QED
    BY <1>1, <2>1 DEF Pull
<1>3. CASE p.pass # Len(Contexts)
  <2>1. NextPass(p) = [over EXCEPT !.at = "request", !.pass = @ + 1]
    BY <1>3 DEF NextPass
  <2>2. p.pass + 1 \in DOMAIN Contexts
    BY <1>3, Passes DEF Pull
  <2>3. QED
    BY <1>1, <2>1, <2>2 DEF Pull
<1>4. QED
  BY <1>2, <1>3

\* The end of a page does, too.
LEMMA AfterPageType ==
  ASSUME NEW p \in Pull
  PROVE  AfterPage(p) \in Pull /\ AfterPage(p).page = {}
<1>1. CASE p.more
  BY <1>1, ZeroTime DEF AfterPage, Pull
<1>2. CASE ~ p.more
  BY <1>2, NextPassType DEF AfterPage
<1>3. QED
  BY <1>1, <1>2

\* What the requester makes of an answer is a pull whose page is in the answer.
LEMMA ReceivedType ==
  ASSUME NEW p \in Pull, NEW page \in SUBSET (1 .. MaxLog), NEW c \in Times
  PROVE  /\ Received(p, page, c) \in Pull
         /\ Received(p, page, c).page \subseteq page
<1>1. CASE Events(page) = {}
  BY <1>1, NextPassType DEF Received
<1>2. CASE Events(page) # {}
  <2>1. Events(page) \subseteq page /\ HasMore(page) \in BOOLEAN
    BY DEF Events, HasMore
  <2>2. QED
    BY <1>2, <2>1 DEF Received, Pull
<1>3. QED
  BY <1>1, <1>2

\* Losses that name rows of the log.
LEMMA SkippedType ==
  ASSUME TypeOK, NEW ctx, NEW since, NEW page
  PROVE  SkippedBy(ctx, since, page) \subseteq Losses
<1>1. DOMAIN log = 1 .. Len(log) /\ Len(log) \in Nat
  BY DEF TypeOK
<1>2. DOMAIN log \subseteq 1 .. MaxLog
  BY <1>1, SyncAssumption DEF TypeOK
<1>3. QED
  BY <1>2 DEF SkippedBy, Losses, Reasons

LEMMA MissedType ==
  ASSUME NEW p, NEW ctx, NEW i \in 1 .. MaxLog
  PROVE  MissedBy(p, ctx, i) \subseteq Losses
BY DEF MissedBy, Losses, Reasons

LEMMA LogGrows ==
  ASSUME TypeOK, NEW row \in LogRow, LogMutation(row)
  PROVE  /\ log' \in Seq(LogRow)
         /\ Len(log') = Len(log) + 1
         /\ Len(log') <= MaxLog
         /\ Len(log) + 1 \in 1 .. MaxLog
         /\ DOMAIN log' = DOMAIN log \cup {Len(log) + 1}
         /\ Len(log) + 1 \notin DOMAIN log
         /\ \A i \in DOMAIN log : log'[i] = log[i]
         /\ log'[Len(log) + 1] = row
<1>1. /\ log \in Seq(LogRow)
      /\ Len(log) \in Nat
      /\ DOMAIN log = 1 .. Len(log)
      /\ Len(log) < MaxLog
      /\ log' = Append(log, row)
  BY DEF TypeOK, LogMutation
<1>2. QED
  BY <1>1, SyncAssumption

LEMMA LogMutationType ==
  ASSUME Typed, NEW row \in LogRow, LogMutation(row)
  PROVE  Typed'
<1> USE DEF Typed
<1>1. /\ skipped' \subseteq Losses
      /\ lost' \subseteq Losses
  BY LogGrows, MissedType DEF LogMutation, TypeOK, Losses, Reasons
<1>2. TypeOK'
  BY <1>1, LogGrows DEF LogMutation, TypeOK
<1>3. PagesLogged'
  BY LogGrows DEF PagesLogged, LogMutation
<1>4. QED
  BY <1>2, <1>3

LEMMA MutateType ==
  ASSUME Typed,
         (\E n \in DOMAIN Contexts, ours \in BOOLEAN : Mutate(Contexts[n], ours))
         \/ (\E i \in DOMAIN log : DeleteMessage(i))
  PROVE  \E row \in LogRow : LogMutation(row) /\ row.stamp = now
<1>1. ASSUME NEW n \in DOMAIN Contexts, NEW ours \in BOOLEAN,
             Mutate(Contexts[n], ours)
      PROVE  \E row \in LogRow : LogMutation(row) /\ row.stamp = now
  <2> DEFINE row == [ctx |-> Contexts[n], stamp |-> now, deletes |-> 0,
                     ours |-> ours]
  <2>1. row \in LogRow
    BY SyncAssumption DEF LogRow, Typed, TypeOK
  <2>2. QED
    BY <1>1, <2>1 DEF Mutate
<1>2. ASSUME NEW i \in DOMAIN log, DeleteMessage(i)
      PROVE  \E row \in LogRow : LogMutation(row) /\ row.stamp = now
  <2> DEFINE row == [ctx |-> "dm", stamp |-> now, deletes |-> i, ours |-> TRUE]
  <2>1. i \in 0 .. MaxLog
    BY SyncAssumption DEF Typed, TypeOK
  <2>2. "dm" \in {Contexts[n] : n \in DOMAIN Contexts}
    BY Passes DEF Contexts
  <2>3. row \in LogRow
    BY <2>1, <2>2 DEF LogRow, Typed, TypeOK
  <2>4. QED
    BY <1>2, <2>3 DEF DeleteMessage
<1>3. QED
  BY <1>1, <1>2

LEMMA RequestType ==
  ASSUME Typed, NEW id \in PeerRows, Request(id)
  PROVE  Typed'
<1> DEFINE p == pull[id]
           ctx == Contexts[p.pass]
           rows == Selected(ctx, p.since)
<1>1. PICK page \in SUBSET rows, c \in Times :
        /\ pull' = [pull EXCEPT ![id] = Received(p, page, c)]
        /\ skipped' = skipped \cup
             {l \in SkippedBy(ctx, p.since, page) : id = peerRow}
  BY DEF Request
<1>2. page \subseteq DOMAIN log /\ DOMAIN log \subseteq 1 .. MaxLog
  BY SyncAssumption DEF Selected, Typed, TypeOK
<1>3. p \in Pull
  BY DEF Typed, TypeOK
<1>4. Received(p, page, c) \in Pull /\ Received(p, page, c).page \subseteq page
  BY <1>2, <1>3, ReceivedType
<1>5. skipped' \subseteq Losses
  BY <1>1, SkippedType DEF Typed, TypeOK
<1>6. TypeOK'
  BY <1>1, <1>4, <1>5 DEF Typed, TypeOK, Request
<1>7. PagesLogged'
  BY <1>1, <1>2, <1>4 DEF Typed, TypeOK, PagesLogged, Request
<1>8. QED
  BY <1>6, <1>7 DEF Typed

LEMMA ReplayType ==
  ASSUME Typed, NEW id \in PeerRows, Replay(id)
  PROVE  Typed'
<1> DEFINE p == pull[id]
<1>1. PICK i \in p.page :
        LET rest == [p EXCEPT !.page = @ \ {i}]
            next == IF rest.page = {} THEN AfterPage(rest) ELSE rest
        IN  /\ pull' = [pull EXCEPT ![id] = next]
            /\ \/ /\ replayed' = replayed \cup {i}
                  /\ UNCHANGED skipped
               \/ /\ skipped' = skipped \cup
                       {l \in {[row |-> i, why |-> "threw"]} : id = peerRow}
                  /\ UNCHANGED replayed
  BY DEF Replay
<1> DEFINE rest == [p EXCEPT !.page = @ \ {i}]
           next == IF rest.page = {} THEN AfterPage(rest) ELSE rest
<1>2. p \in Pull /\ p.page \subseteq DOMAIN log /\ i \in DOMAIN log
      /\ i \in 1 .. MaxLog
  BY SyncAssumption DEF Typed, TypeOK, PagesLogged, Pull
<1>3. rest \in Pull /\ rest.page \subseteq p.page
  BY <1>2 DEF Pull
<1>4. next \in Pull /\ next.page \subseteq p.page
  BY <1>3, AfterPageType
<1>5. pull' = [pull EXCEPT ![id] = next]
  BY <1>1
<1>6. replayed' \subseteq DOMAIN log /\ skipped' \subseteq Losses
  BY <1>1, <1>2 DEF Typed, TypeOK, Losses, Reasons
<1> HIDE DEF next
<1>7. TypeOK'
  BY <1>4, <1>5, <1>6 DEF Typed, TypeOK, Replay
<1>8. PagesLogged'
  BY <1>2, <1>4, <1>5 DEF Typed, TypeOK, PagesLogged, Replay
<1>9. QED
  BY <1>7, <1>8 DEF Typed

LEMMA IdleType == Idle \in Pull
BY Passes, SyncAssumption DEF Idle, Pull, Times

\* The log, the pulls and the history keep their types, and no page names a
\* row that is not in the log: appending a row changes no page under way.
LEMMA TypingHolds == Spec => []Typed
<1>1. Init => Typed
  BY IdleType, SyncAssumption
  DEF Init, Typed, TypeOK, PagesLogged, PeerRows, Times, Idle
<1>2. Typed /\ [Next]_vars => Typed'
  <2> SUFFICES ASSUME Typed, [Next]_vars
               PROVE  Typed'
    OBVIOUS
  <2>1. CASE Tick
    BY <2>1, SyncAssumption DEF Tick, Typed, TypeOK, PagesLogged
  <2>2. ASSUME \/ \E n \in DOMAIN Contexts, ours \in BOOLEAN :
                    Mutate(Contexts[n], ours)
               \/ \E i \in DOMAIN log : DeleteMessage(i)
        PROVE  Typed'
    BY <2>2, MutateType, LogMutationType
  <2>3. CASE ShareOrUnshare
    BY <2>3 DEF ShareOrUnshare, Typed, TypeOK, PagesLogged
  <2>4. CASE Activate
    <3> DEFINE started == [Idle EXCEPT !.at = "request", !.from = lastSynced,
                                       !.since = lastSynced]
    <3>1. started \in Pull /\ started.page = {}
      BY IdleType DEF Typed, TypeOK, Pull, Idle
    <3>2. pull' = [pull EXCEPT ![peerRow] = started]
      BY <2>4 DEF Activate
    <3> HIDE DEF started
    <3>3. QED
      BY <2>4, <3>1, <3>2 DEF Activate, Typed, TypeOK, PagesLogged
  <2>5. ASSUME NEW id \in PeerRows, Request(id)
        PROVE  Typed'
    BY <2>5, RequestType
  <2>6. ASSUME NEW id \in PeerRows, Replay(id)
        PROVE  Typed'
    BY <2>6, ReplayType
  <2>7. ASSUME NEW id \in PeerRows, Finish(id)
        PROVE  Typed'
    <3>1. now + Skew \in Times
      BY SyncAssumption DEF Typed, TypeOK, Times
    <3>2. Idle.page = {}
      BY DEF Idle
    <3>3. QED
      BY <2>7, <3>1, <3>2, IdleType DEF Finish, Typed, TypeOK, PagesLogged
  <2>8. ASSUME NEW id \in PeerRows, RequestFails(id)
        PROVE  Typed'
    <3>1. Idle.page = {}
      BY DEF Idle
    <3>2. QED
      BY <2>8, <3>1, IdleType DEF RequestFails, Typed, TypeOK, PagesLogged
  <2>9. CASE Restart
    <3>1. Idle.page = {}
      BY DEF Idle
    <3>2. QED
      BY <2>9, <3>1, IdleType DEF Restart, Typed, TypeOK, PagesLogged
  <2>10. CASE PeerAnew
    BY <2>10, SyncAssumption
    DEF PeerAnew, Typed, TypeOK, PagesLogged, PeerRows, Times
  <2>11. CASE UNCHANGED vars
    BY <2>11 DEF vars, Typed, TypeOK, PagesLogged
  <2>12. QED
    BY <2>1, <2>2, <2>3, <2>4, <2>5, <2>6, <2>7, <2>8, <2>9, <2>10, <2>11
    DEF Next, PullStep
<1>3. QED
  BY <1>1, <1>2, PTL DEF Spec

\* The log, the pulls and the history keep their types, whatever the answers,
\* failures and restarts (utils/federationPeerActivation.ts).
THEOREM TypeCorrect == Spec => []TypeOK
<1>1. Typed => TypeOK
  BY DEF Typed
<1>2. QED
  BY <1>1, TypingHolds, PTL

-----------------------------------------------------------------------------
(* The horizon covers everything before it.                                *)

\* Accounted for so far: replayed, given up, or passed over by this pull.
Seen == replayed \cup Lost \cup {l.row : l \in skipped}

StampsPast == \A i \in DOMAIN log : log[i].stamp <= now

LaterRowsIdle == \A id \in PeerRows : id > peerRow => pull[id] = Idle

\* Where a pull stands: it started at lastSyncedAt, and it asks for rows after
\* lastSyncedAt or after a row of the pass's context.
Positioned(p) ==
  /\ p.at # "idle" => p.from = lastSynced
  /\ p.at # "replay" => p.page = {}
  /\ p.at = "request" =>
       \/ p.since = lastSynced
       \/ \E j \in DOMAIN log : /\ log[j].ctx = Contexts[p.pass]
                               /\ log[j].stamp = p.since
  /\ p.at = "replay" =>
       \E j \in DOMAIN log : /\ log[j].ctx = Contexts[p.pass]
                            /\ log[j].stamp = p.checkpoint

\* Rows the pull will not ask for any more.
GoneBy(p, i) ==
  \/ p.at = "finish"
  \/ p.at # "idle" /\ PassOf(log[i].ctx) < p.pass
  \/ /\ p.at = "request"
     /\ PassOf(log[i].ctx) = p.pass
     /\ log[i].stamp <= p.since
  \/ /\ p.at = "replay"
     /\ PassOf(log[i].ctx) = p.pass
     /\ log[i].stamp <= p.checkpoint \/ ~ p.more

Progress(p, seen) ==
  \A i \in DOMAIN log : Wanted(i) /\ GoneBy(p, i) => i \in seen \cup p.page

IInv ==
  /\ Typed
  /\ StampsPast
  /\ LaterRowsIdle
  /\ Positioned(pull[peerRow])
  /\ Progress(pull[peerRow], Seen)
  /\ Covered

\* A step that leaves the log alone may be judged by the new pull alone.
LEMMA PullFrame ==
  ASSUME log' = log, lastSynced' = lastSynced, NEW q, NEW seen,
         Positioned(q), Progress(q, seen),
         pull'[peerRow'] = q, seen \subseteq Seen'
  PROVE  Positioned(pull[peerRow])' /\ Progress(pull[peerRow], Seen)'
BY DEF Positioned, Progress, GoneBy, Wanted, Listed

LEMMA CoveredFrame ==
  ASSUME Covered, log' = log, lastSynced' = lastSynced,
         replayed \subseteq replayed', lost' = lost
  PROVE  Covered'
BY DEF Covered, Wanted, Listed, Lost

LEMMA LogTypes ==
  ASSUME TypeOK, NEW i \in DOMAIN log
  PROVE  /\ log[i] \in LogRow
         /\ log[i].stamp \in Nat
         /\ log[i].stamp > 0
         /\ PassOf(log[i].ctx) \in 1 .. 3
         /\ Contexts[PassOf(log[i].ctx)] = log[i].ctx
<1>1. log[i] \in LogRow
  BY DEF TypeOK
<1>2. QED
  BY <1>1, Passes, SyncAssumption DEF LogRow

\* A pull that has accounted for a pass and those before may go on.
LEMMA NextPassProgress ==
  ASSUME TypeOK, NEW p \in Pull, NEW seen,
         p.from = lastSynced,
         \A i \in DOMAIN log :
           Wanted(i) /\ (\/ PassOf(log[i].ctx) <= p.pass
                        \/ log[i].stamp <= lastSynced) => i \in seen
  PROVE  Positioned(NextPass(p)) /\ Progress(NextPass(p), seen)
<1> DEFINE q == NextPass(p)
<1>1. p.pass \in 1 .. 3
  BY Passes DEF Pull
<1>2. ASSUME p.pass = 3
      PROVE  Positioned(q) /\ Progress(q, seen)
  <2>1. q.at = "finish" /\ q.page = {} /\ q.from = lastSynced
    BY <1>2, Passes DEF NextPass, Pull
  <2>2. \A i \in DOMAIN log : PassOf(log[i].ctx) <= p.pass
    BY <1>2, LogTypes
  <2> HIDE DEF q
  <2>3. QED
    BY <2>1, <2>2 DEF Positioned, Progress
<1>3. ASSUME p.pass # 3
      PROVE  Positioned(q) /\ Progress(q, seen)
  <2>1. q.at = "request" /\ q.page = {} /\ q.from = lastSynced
        /\ q.since = lastSynced /\ q.pass = p.pass + 1
    BY <1>3, Passes DEF NextPass, Pull
  <2> HIDE DEF q
  <2>2. Positioned(q)
    BY <2>1 DEF Positioned
  <2>3. ASSUME NEW i \in DOMAIN log, Wanted(i), GoneBy(q, i)
        PROVE  i \in seen
    <3>1. PassOf(log[i].ctx) < q.pass \/ log[i].stamp <= lastSynced
      BY <2>1, <2>3 DEF GoneBy
    <3>2. QED
      BY <1>1, <2>1, <2>3, <3>1, LogTypes
  <2>4. QED
    BY <2>2, <2>3 DEF Progress
<1>4. QED
  BY <1>2, <1>3

\* The end of a page, likewise.
LEMMA AfterPageProgress ==
  ASSUME TypeOK, NEW p \in Pull, NEW seen,
         p.at = "replay", p.page = {},
         Positioned(p), Progress(p, seen),
         \A i \in DOMAIN log :
           Wanted(i) /\ log[i].stamp <= lastSynced => i \in seen
  PROVE  Positioned(AfterPage(p)) /\ Progress(AfterPage(p), seen)
<1>1. p.from = lastSynced /\ p.pass \in 1 .. 3
  BY Passes DEF Positioned, Pull
<1>2. \A i \in DOMAIN log : Wanted(i) /\ GoneBy(p, i) => i \in seen
  BY DEF Progress
<1>3. CASE p.more
  <2> DEFINE q == [p EXCEPT !.at = "request", !.since = p.checkpoint,
                            !.page = {}, !.more = FALSE, !.checkpoint = 0]
  <2>1. AfterPage(p) = q
    BY <1>3 DEF AfterPage
  <2>2. q.at = "request" /\ q.since = p.checkpoint /\ q.page = {}
        /\ q.from = p.from /\ q.pass = p.pass
    BY DEF Pull
  <2> HIDE DEF q
  <2>3. Positioned(q)
    BY <1>1, <2>2 DEF Positioned
  <2>4. ASSUME NEW i \in DOMAIN log, Wanted(i), GoneBy(q, i)
        PROVE  i \in seen
    <3>1. GoneBy(p, i)
      BY <2>2, <2>4 DEF GoneBy
    <3>2. QED
      BY <1>2, <2>4, <3>1
  <2>5. QED
    BY <2>1, <2>3, <2>4 DEF Progress
<1>4. CASE ~ p.more
  <2>1. \A i \in DOMAIN log :
          Wanted(i) /\ PassOf(log[i].ctx) <= p.pass => i \in seen
    <3>1. \A i \in DOMAIN log : PassOf(log[i].ctx) <= p.pass => GoneBy(p, i)
      BY <1>1, <1>4, LogTypes DEF GoneBy
    <3>2. QED
      BY <1>2, <3>1
  <2>2. AfterPage(p) = NextPass(p)
    BY <1>4 DEF AfterPage
  <2>3. QED
    BY <1>1, <2>1, <2>2, NextPassProgress
<1>5. QED
  BY <1>3, <1>4

\* An answer: each wanted row of the context is in the page, was passed over
\* and counted, or is still to be asked for.
LEMMA ReceivedProgress ==
  ASSUME TypeOK, NEW p \in Pull, NEW seen,
         p.at = "request",
         Positioned(p), Progress(p, seen),
         \A i \in DOMAIN log :
           Wanted(i) /\ log[i].stamp <= lastSynced => i \in seen,
         NEW page \in SUBSET Selected(Contexts[p.pass], p.since),
         NEW c \in Times,
         Page(Selected(Contexts[p.pass], p.since), page),
         Checkpoint(page, p.since, c),
         NEW more,
         seen \cup {l.row : l \in SkippedBy(Contexts[p.pass], p.since, page)}
           \subseteq more
  PROVE  /\ Positioned(Received(p, page, c))
         /\ Progress(Received(p, page, c), more)
<1> DEFINE ctx == Contexts[p.pass]
           rows == Selected(ctx, p.since)
           unseen == {i \in DOMAIN log : /\ log[i].ctx = ctx
                                         /\ log[i].stamp > p.since
                                         /\ i \notin page}
<1>1. p.from = lastSynced /\ p.pass \in 1 .. 3 /\ p.since \in Nat
      /\ p.page = {}
  BY Passes, SyncAssumption DEF Positioned, Pull, Times
<1>2. \A i \in DOMAIN log : Wanted(i) /\ GoneBy(p, i) => i \in seen
  BY <1>1 DEF Progress
<1>3. rows \subseteq DOMAIN log /\ IsFiniteSet(rows)
  <2>1. DOMAIN log = 1 .. Len(log) /\ Len(log) \in Nat
    BY DEF TypeOK
  <2>2. IsFiniteSet(1 .. Len(log))
    BY <2>1, FS_Interval, 1 \in Int /\ Len(log) \in Int
  <2>3. rows \subseteq DOMAIN log
    BY DEF Selected
  <2>4. QED
    BY <2>1, <2>2, <2>3, FS_Subset
<1>4. ~ HasMore(page) => page = rows
  <2>1. Cardinality(page) \in Nat /\ Cardinality(rows) \in Nat
        /\ (Cardinality(page) = Cardinality(rows) => page = rows)
    BY <1>3, FS_Subset, FS_CardinalityType
  <2>2. QED
    BY <2>1, SyncAssumption DEF HasMore, Page
<1>5. ctx = "dm" /\ ~ shared => page = {}
  BY DEF Selected
<1>6. \A i \in DOMAIN log : PassOf(log[i].ctx) = p.pass <=> log[i].ctx = ctx
  BY <1>1, Passes, LogTypes
\* A wanted row of the context after "since" is selected, or not shared.
<1>7. ASSUME NEW i \in DOMAIN log, Wanted(i), log[i].ctx = ctx,
             log[i].stamp > p.since
      PROVE  i \in rows \/ (ctx = "dm" /\ ~ shared)
  BY <1>7 DEF Selected, Wanted
\* A row before "since" is accounted for.
<1>8. ASSUME NEW i \in DOMAIN log, Wanted(i),
             PassOf(log[i].ctx) < p.pass
             \/ (log[i].ctx = ctx /\ log[i].stamp <= p.since)
      PROVE  i \in seen
  <2>1. GoneBy(p, i)
    BY <1>6, <1>8 DEF GoneBy
  <2>2. QED
    BY <1>2, <1>8, <2>1
<1>9. ASSUME NEW i \in unseen, ctx = "dm" /\ ~ shared
      PROVE  i \in more
  <2>1. [row |-> i, why |-> "unshared"] \in SkippedBy(ctx, p.since, page)
    BY <1>9 DEF SkippedBy
  <2>2. QED
    BY <2>1
<1>10. CASE Events(page) = {}
  <2>1. ASSUME NEW i \in DOMAIN log, Wanted(i), log[i].ctx = ctx,
               log[i].stamp > p.since
        PROVE  i \in more
    <3>1. i \notin page
      BY <1>10, <2>1 DEF Events, Wanted
    <3>2. CASE ctx = "dm" /\ ~ shared
      BY <1>9, <2>1, <3>1, <3>2
    <3>3. CASE ~ (ctx = "dm" /\ ~ shared)
      <4>1. HasMore(page)
        BY <1>4, <1>7, <2>1, <3>1, <3>3
      <4>2. [row |-> i, why |-> "emptied"] \in SkippedBy(ctx, p.since, page)
        BY <1>10, <2>1, <3>1, <3>3, <4>1 DEF SkippedBy
      <4>3. QED
        BY <4>2
    <3>4. QED
      BY <3>2, <3>3
  <2>2. ASSUME NEW i \in DOMAIN log, Wanted(i),
               PassOf(log[i].ctx) <= p.pass \/ log[i].stamp <= lastSynced
        PROVE  i \in more
    <3>1. CASE log[i].stamp <= lastSynced
      BY <2>2, <3>1
    <3>2. CASE PassOf(log[i].ctx) < p.pass
      BY <1>8, <2>2, <3>2
    <3>3. CASE PassOf(log[i].ctx) = p.pass
      <4>1. log[i].ctx = ctx /\ log[i].stamp \in Nat
        BY <1>6, <3>3, LogTypes
      <4>2. CASE log[i].stamp > p.since
        BY <2>1, <2>2, <4>1, <4>2
      <4>3. CASE log[i].stamp <= p.since
        BY <1>8, <2>2, <4>1, <4>3
      <4>4. QED
        BY <1>1, <4>1, <4>2, <4>3
    <3>4. QED
      BY <1>1, <2>2, <3>1, <3>2, <3>3, LogTypes
  <2>3. Received(p, page, c) = NextPass(p)
    BY <1>10 DEF Received
  <2>4. QED
    BY <1>1, <2>2, <2>3, NextPassProgress
<1>11. CASE Events(page) # {}
  <2> DEFINE q == [p EXCEPT !.at = "replay", !.page = Events(page),
                            !.more = HasMore(page), !.checkpoint = c]
  <2>1. Received(p, page, c) = q
    BY <1>11 DEF Received
  <2>2. /\ q.at = "replay"
        /\ q.page = Events(page)
        /\ q.more = HasMore(page)
        /\ q.checkpoint = c
        /\ q.from = p.from
        /\ q.pass = p.pass
    BY DEF Pull
  <2> HIDE DEF q
  <2>3. page # {} /\ Events(page) \subseteq page
    BY <1>11 DEF Events
  <2>4. PICK j \in page : log[j].stamp = c
    BY <2>3 DEF Checkpoint
  <2>5. Positioned(q)
    <3>1. j \in DOMAIN log /\ log[j].ctx = ctx
      BY <2>4 DEF Selected
    <3>2. QED
      BY <1>1, <2>2, <2>4, <3>1 DEF Positioned
  <2>6. ~ (ctx = "dm" /\ ~ shared)
    BY <1>5, <2>3
  <2>7. ASSUME NEW i \in DOMAIN log, Wanted(i), log[i].ctx = ctx,
               log[i].stamp > p.since, i \notin page,
               log[i].stamp <= c \/ ~ HasMore(page)
        PROVE  i \in more
    <3>1. i \in rows
      BY <1>7, <2>6, <2>7
    <3>2. HasMore(page)
      BY <1>4, <2>7, <3>1
    <3>3. log[j].stamp <= log[i].stamp
      BY <2>4, <2>7, <3>1 DEF Page
    <3>4. log[j].stamp = log[i].stamp
      BY <2>4, <2>7, <3>2, <3>3, LogTypes, SyncAssumption DEF Times
    <3>5. [row |-> i, why |-> "tie"] \in SkippedBy(ctx, p.since, page)
      BY <1>11, <2>6, <2>7, <3>4 DEF SkippedBy
    <3>6. QED
      BY <3>5
  <2>8. ASSUME NEW i \in DOMAIN log, Wanted(i), GoneBy(q, i)
        PROVE  i \in more \cup q.page
    <3>1. CASE PassOf(log[i].ctx) < p.pass
      BY <1>8, <2>8, <3>1
    <3>2. CASE PassOf(log[i].ctx) = p.pass
      <4>1. log[i].ctx = ctx /\ log[i].stamp \in Nat
            /\ (log[i].stamp <= c \/ ~ HasMore(page))
        BY <1>1, <1>6, <2>2, <2>8, <3>2, LogTypes DEF GoneBy
      <4>2. CASE i \in page
        BY <2>2, <2>8, <4>2 DEF Events, Wanted
      <4>3. CASE i \notin page /\ log[i].stamp > p.since
        BY <2>7, <2>8, <4>1, <4>3
      <4>4. CASE log[i].stamp <= p.since
        BY <1>8, <2>8, <4>1, <4>4
      <4>5. QED
        BY <1>1, <4>1, <4>2, <4>3, <4>4
    <3>3. QED
      BY <1>1, <2>2, <2>8, <3>1, <3>2, LogTypes DEF GoneBy
  <2>9. QED
    BY <2>1, <2>5, <2>8 DEF Progress
<1>12. QED
  BY <1>10, <1>11

\* The responder logs a row: it is ahead of the pull, or counted as missed.
LEMMA LogMutationKeeps ==
  ASSUME IInv, NEW row \in LogRow, row.stamp = now, LogMutation(row)
  PROVE  IInv'
<1> SUFFICES ASSUME NEW n, n = Len(log) + 1, NEW p, p = pull[peerRow]
             PROVE  IInv'
  OBVIOUS
<1>1. /\ DOMAIN log' = DOMAIN log \cup {n}
      /\ n \notin DOMAIN log
      /\ \A i \in DOMAIN log : log'[i] = log[i]
      /\ log'[n] = row
  BY LogGrows DEF IInv, Typed
<1>2. /\ skipped' = skipped \cup MissedBy(p, row.ctx, n)
      /\ lost' = lost \cup {l \in {[row |-> n, why |-> "late"]} :
                              now <= lastSynced}
      /\ UNCHANGED <<now, shared, peerRow, lastSynced, pull, replayed>>
  BY DEF LogMutation
<1>3. Seen \subseteq Seen' /\ Lost \subseteq Lost'
  BY <1>2 DEF Seen, Lost
<1>4. \A i \in DOMAIN log : Wanted(i)' => Wanted(i)
  BY <1>1 DEF Wanted, Listed
<1>5. now <= lastSynced => n \in Lost'
  <2> HAVE now <= lastSynced
  <2>1. [row |-> n, why |-> "late"] \in lost'
    BY <1>2
  <2>2. QED
    BY <2>1 DEF Lost
<1>6. MissedBy(p, row.ctx, n) # {} => n \in Seen'
  <2> SUFFICES ASSUME NEW l \in MissedBy(p, row.ctx, n)
               PROVE  n \in Seen'
    OBVIOUS
  <2>1. l \in skipped' /\ l.row = n
    BY <1>2 DEF MissedBy
  <2>2. QED
    BY <2>1 DEF Seen
<1>7. Typed'
  BY LogMutationType DEF IInv
<1>8. StampsPast'
  BY <1>1, <1>2, LogTypes DEF IInv, Typed, TypeOK, StampsPast
<1>9. LaterRowsIdle'
  BY <1>2 DEF IInv, LaterRowsIdle
<1>10. Positioned(p)'
  BY <1>1, <1>2 DEF IInv, Positioned
<1>11. ASSUME GoneBy(p, n)'
       PROVE  n \in Seen'
  <2>1. /\ p.at = "request" => p.since \in Nat
        /\ p.at = "replay" => p.checkpoint \in Nat
        /\ now \in Nat
        /\ PassOf(row.ctx) \in 1 .. 3
    <3>1. p \in Pull
      BY DEF IInv, Typed, TypeOK
    <3>2. QED
      BY <3>1, SyncAssumption, Passes
      DEF IInv, Typed, TypeOK, Pull, Times, LogRow
  <2>2. log'[n].ctx = row.ctx /\ log'[n].stamp = now
    BY <1>1
  <2>3. CASE Passed(p, row.ctx)
    <3>1. [row |-> n, why |-> "late"] \in MissedBy(p, row.ctx, n)
      BY <2>3 DEF MissedBy
    <3>2. QED
      BY <1>6, <3>1
  <2>4. CASE ~ Passed(p, row.ctx)
    <3>1. /\ PassOf(row.ctx) = p.pass
          /\ \/ p.at = "replay" /\ now <= p.checkpoint
             \/ p.at = "request" /\ now <= p.since
      BY <1>2, <1>11, <2>2, <2>4 DEF GoneBy, Passed
    <3>2. CASE p.at = "request" /\ p.since = lastSynced
      BY <1>5, <3>1, <3>2 DEF Seen, Lost
    <3>3. CASE ~ (p.at = "request" /\ p.since = lastSynced)
      <4>1. PICK j \in DOMAIN log :
              /\ log[j].ctx = Contexts[p.pass]
              /\ \/ p.at = "replay" /\ log[j].stamp = p.checkpoint
                 \/ p.at = "request" /\ log[j].stamp = p.since
        BY <3>1, <3>3 DEF IInv, Positioned
      <4>2. log[j].stamp = now
        BY <2>1, <3>1, <4>1 DEF IInv, StampsPast
      <4>3. log[j].ctx = row.ctx
        BY <3>1, <4>1, Passes DEF LogRow
      <4>4. Tied(p, row.ctx)
        BY <3>1, <4>2, <4>3 DEF Tied
      <4>5. [row |-> n, why |-> "tie"] \in MissedBy(p, row.ctx, n)
        BY <2>4, <4>4 DEF MissedBy
      <4>6. QED
        BY <1>6, <4>5
    <3>4. QED
      BY <3>2, <3>3
  <2>5. QED
    BY <2>3, <2>4
<1>12. Progress(p, Seen)'
  <2> SUFFICES ASSUME NEW i \in DOMAIN log', Wanted(i)', GoneBy(p, i)'
               PROVE  i \in Seen' \cup p.page
    BY DEF Progress
  <2>1. CASE i = n
    BY <1>11, <2>1
  <2>2. CASE i \in DOMAIN log
    <3>1. GoneBy(p, i)
      BY <1>1, <1>2, <2>2 DEF GoneBy
    <3>2. i \in Seen \cup p.page
      BY <1>4, <2>2, <3>1 DEF IInv, Progress
    <3>3. QED
      BY <1>2, <1>3, <3>2
  <2>3. QED
    BY <1>1, <2>1, <2>2
<1>13. Covered'
  <2> SUFFICES ASSUME NEW i \in DOMAIN log', Wanted(i)',
                      log'[i].stamp <= lastSynced'
               PROVE  i \in replayed' \cup Lost'
    BY DEF Covered
  <2>1. CASE i = n
    BY <1>1, <1>2, <1>5, <2>1
  <2>2. CASE i \in DOMAIN log
    BY <1>1, <1>2, <1>3, <1>4, <2>2 DEF IInv, Covered
  <2>3. QED
    BY <1>1, <2>1, <2>2
<1>14. Positioned(pull[peerRow])' /\ Progress(pull[peerRow], Seen)'
  BY <1>2, <1>10, <1>12 DEF Positioned, Progress, GoneBy
<1>15. QED
  BY <1>7, <1>8, <1>9, <1>13, <1>14 DEF IInv

\* Another row's pull does not disturb the current one's.
LEMMA OtherPullKeeps ==
  ASSUME IInv, Typed', NEW id \in PeerRows, id # peerRow, NEW q,
         pull' = [pull EXCEPT ![id] = q],
         id > peerRow => q = Idle,
         UNCHANGED <<now, log, shared, peerRow, lastSynced, lost>>,
         replayed \subseteq replayed', skipped' = skipped
  PROVE  IInv'
<1>1. pull'[peerRow'] = pull[peerRow]
  BY DEF IInv, Typed, TypeOK
<1>2. Seen \subseteq Seen'
  BY DEF Seen, Lost
<1>3. Positioned(pull[peerRow])' /\ Progress(pull[peerRow], Seen)'
  BY <1>1, <1>2, PullFrame DEF IInv
<1>4. Covered'
  BY CoveredFrame DEF IInv
<1>5. LaterRowsIdle'
  BY DEF IInv, LaterRowsIdle, Typed, TypeOK
<1>6. QED
  BY <1>3, <1>4, <1>5 DEF IInv, StampsPast

\* The current row's pull may be judged alone.
LEMMA CurrentPullKeeps ==
  ASSUME IInv, Typed', NEW q, NEW seen,
         pull' = [pull EXCEPT ![peerRow] = q],
         Positioned(q), Progress(q, seen), seen \subseteq Seen',
         UNCHANGED <<now, log, peerRow, lastSynced, lost>>,
         replayed \subseteq replayed'
  PROVE  IInv'
<1>1. pull'[peerRow'] = q
  BY DEF IInv, Typed, TypeOK
<1>2. Positioned(pull[peerRow])' /\ Progress(pull[peerRow], Seen)'
  BY <1>1, PullFrame DEF IInv
<1>3. Covered'
  BY CoveredFrame DEF IInv
<1>4. LaterRowsIdle'
  BY SyncAssumption DEF IInv, LaterRowsIdle, Typed, TypeOK, PeerRows
<1>5. QED
  BY <1>2, <1>3, <1>4 DEF IInv, StampsPast

\* A pull that is idle owes nothing.
LEMMA IdleProgress ==
  ASSUME NEW seen
  PROVE  Positioned(Idle) /\ Progress(Idle, seen)
BY DEF Positioned, Progress, GoneBy, Idle

\* What the horizon covers is accounted for.
LEMMA CoveredSeen ==
  ASSUME IInv, NEW i \in DOMAIN log, Wanted(i), log[i].stamp <= lastSynced
  PROVE  i \in replayed \cup Lost /\ i \in Seen
BY DEF IInv, Covered, Seen

LEMMA RequestKeeps ==
  ASSUME IInv, NEW id \in PeerRows, Request(id)
  PROVE  IInv'
<1> DEFINE p == pull[id]
           ctx == Contexts[p.pass]
           rows == Selected(ctx, p.since)
<1>1. PICK page \in SUBSET rows, c \in Times :
        /\ Page(rows, page)
        /\ Checkpoint(page, p.since, c)
        /\ pull' = [pull EXCEPT ![id] = Received(p, page, c)]
        /\ skipped' = skipped \cup
             {l \in SkippedBy(ctx, p.since, page) : id = peerRow}
  BY DEF Request
<1>2. Typed'
  BY RequestType DEF IInv
<1>3. p.at = "request" /\ p \in Pull
  BY DEF Request, IInv, Typed, TypeOK
<1>4. UNCHANGED <<now, log, shared, peerRow, lastSynced, replayed, lost>>
  BY DEF Request
<1>5. CASE id = peerRow
  <2>1. PICK more : more = Seen'
    OBVIOUS
  <2>2. Seen \cup {l.row : l \in SkippedBy(ctx, p.since, page)} \subseteq more
    BY <1>1, <1>4, <1>5, <2>1 DEF Seen, Lost
  <2>3. TypeOK /\ Positioned(p) /\ Progress(p, Seen)
    BY <1>5 DEF IInv, Typed
  <2>4. \A i \in DOMAIN log :
          Wanted(i) /\ log[i].stamp <= lastSynced => i \in Seen
    BY CoveredSeen
  <2>5. /\ Positioned(Received(p, page, c))
        /\ Progress(Received(p, page, c), more)
    BY <1>1, <1>3, <2>2, <2>3, <2>4, ReceivedProgress
  <2>6. QED
    BY <1>1, <1>2, <1>4, <1>5, <2>1, <2>5, CurrentPullKeeps
<1>6. CASE id # peerRow
  <2>1. ~ (id > peerRow)
    BY <1>3 DEF IInv, LaterRowsIdle, Idle
  <2>2. skipped' = skipped
    BY <1>1, <1>6
  <2>3. QED
    BY <1>1, <1>2, <1>4, <1>6, <2>1, <2>2, OtherPullKeeps
<1>7. QED
  BY <1>5, <1>6

LEMMA ReplayKeeps ==
  ASSUME IInv, NEW id \in PeerRows, Replay(id)
  PROVE  IInv'
<1> DEFINE p == pull[id]
<1>1. PICK i \in p.page :
        LET rest == [p EXCEPT !.page = @ \ {i}]
            next == IF rest.page = {} THEN AfterPage(rest) ELSE rest
        IN  /\ pull' = [pull EXCEPT ![id] = next]
            /\ \/ /\ replayed' = replayed \cup {i}
                  /\ UNCHANGED skipped
               \/ /\ skipped' = skipped \cup
                       {l \in {[row |-> i, why |-> "threw"]} : id = peerRow}
                  /\ UNCHANGED replayed
  BY DEF Replay
<1> DEFINE rest == [p EXCEPT !.page = @ \ {i}]
           next == IF rest.page = {} THEN AfterPage(rest) ELSE rest
<1>2. Typed'
  BY ReplayType DEF IInv
<1>3. p.at = "replay" /\ p \in Pull
  BY DEF Replay, IInv, Typed, TypeOK
<1>4. UNCHANGED <<now, log, shared, peerRow, lastSynced, lost>>
  BY DEF Replay
<1>5. pull' = [pull EXCEPT ![id] = next] /\ replayed \subseteq replayed'
  BY <1>1
<1>6. CASE id = peerRow
  <2>1. PICK seen : seen = Seen'
    OBVIOUS
  <2>2. Seen \subseteq seen
    BY <1>1, <1>4, <2>1 DEF Seen, Lost
  <2>3. i \in seen
    <3>1. CASE i \in replayed'
      BY <2>1, <3>1 DEF Seen
    <3>2. CASE [row |-> i, why |-> "threw"] \in skipped'
      BY <2>1, <3>2 DEF Seen
    <3>3. QED
      BY <1>1, <1>6, <3>1, <3>2
  <2>4. /\ rest \in Pull
        /\ rest.at = "replay"
        /\ rest.from = p.from
        /\ rest.pass = p.pass
        /\ rest.checkpoint = p.checkpoint
        /\ rest.more = p.more
        /\ rest.page = p.page \ {i}
    BY <1>3 DEF Pull
  <2> HIDE DEF rest
  <2>5. Positioned(p) /\ Progress(p, Seen) /\ TypeOK
    BY <1>6 DEF IInv, Typed
  <2>6. Positioned(rest)
    BY <1>3, <2>4, <2>5 DEF Positioned
  <2>7. Progress(rest, seen)
    BY <1>3, <2>2, <2>3, <2>4, <2>5 DEF Progress, GoneBy
  <2>8. Positioned(next) /\ Progress(next, seen)
    <3>1. CASE rest.page # {}
      BY <2>6, <2>7, <3>1
    <3>2. CASE rest.page = {}
      <4>1. \A j \in DOMAIN log :
              Wanted(j) /\ log[j].stamp <= lastSynced => j \in seen
        BY <2>2, CoveredSeen
      <4>2. QED
        BY <2>4, <2>5, <2>6, <2>7, <3>2, <4>1, AfterPageProgress
    <3>3. QED
      BY <3>1, <3>2
  <2> HIDE DEF next
  <2>9. QED
    BY <1>2, <1>4, <1>5, <1>6, <2>1, <2>8, CurrentPullKeeps
<1>7. CASE id # peerRow
  <2>1. ~ (id > peerRow)
    BY <1>3 DEF IInv, LaterRowsIdle, Idle
  <2>2. skipped' = skipped
    BY <1>1, <1>7
  <2> HIDE DEF next
  <2>3. QED
    BY <1>2, <1>4, <1>5, <1>7, <2>1, <2>2, OtherPullKeeps
<1>8. QED
  BY <1>6, <1>7

LEMMA FinishKeeps ==
  ASSUME IInv, Typed', NEW id \in PeerRows, Finish(id)
  PROVE  IInv'
<1> DEFINE p == pull[id]
<1>1. /\ p.at = "finish"
      /\ pull' = [pull EXCEPT ![id] = Idle]
      /\ UNCHANGED <<now, log, shared, peerRow, replayed>>
  BY DEF Finish
<1>2. CASE id = peerRow
  <2>1. lost' = lost \cup skipped
    BY <1>2 DEF Finish
  <2>2. Seen \subseteq replayed' \cup Lost'
    BY <1>1, <2>1 DEF Seen, Lost
  <2>3. \A i \in DOMAIN log : Wanted(i) => i \in Seen
    <3>1. p.page = {} /\ Progress(p, Seen)
      BY <1>1, <1>2 DEF IInv, Positioned
    <3>2. QED
      BY <1>1, <3>1 DEF Progress, GoneBy
  <2>4. Covered'
    BY <1>1, <2>2, <2>3 DEF Covered, Wanted, Listed
  <2>5. pull'[peerRow'] = Idle
    BY <1>1, <1>2 DEF IInv, Typed, TypeOK
  <2>6. Positioned(pull[peerRow])' /\ Progress(pull[peerRow], Seen)'
    BY <2>5 DEF Positioned, Progress, GoneBy, Idle
  <2>7. LaterRowsIdle'
    BY <1>1, <1>2 DEF IInv, LaterRowsIdle, Typed, TypeOK
  <2>8. QED
    BY <1>1, <2>4, <2>6, <2>7 DEF IInv, StampsPast
<1>3. CASE id # peerRow
  <2>1. UNCHANGED <<lastSynced, skipped, lost>>
    BY <1>3 DEF Finish
  <2>2. QED
    BY <1>1, <1>3, <2>1, OtherPullKeeps
<1>4. QED
  BY <1>2, <1>3

LEMMA ActivateKeeps ==
  ASSUME IInv, Typed', Activate
  PROVE  IInv'
<1> DEFINE q == [Idle EXCEPT !.at = "request", !.from = lastSynced,
                             !.since = lastSynced]
<1>1. /\ pull' = [pull EXCEPT ![peerRow] = q]
      /\ UNCHANGED <<now, log, shared, peerRow, lastSynced, replayed, lost>>
  BY DEF Activate
<1>2. /\ q.at = "request" /\ q.from = lastSynced /\ q.since = lastSynced
      /\ q.page = {} /\ q.pass = 1
  BY DEF Idle
<1> HIDE DEF q
<1>3. replayed \cup Lost \subseteq Seen'
  BY <1>1 DEF Seen, Lost
<1>4. Positioned(q)
  BY <1>2 DEF Positioned
<1>5. Progress(q, replayed \cup Lost)
  <2> SUFFICES ASSUME NEW i \in DOMAIN log, Wanted(i), GoneBy(q, i)
               PROVE  i \in replayed \cup Lost
    BY DEF Progress
  <2>1. PassOf(log[i].ctx) \in 1 .. 3
    BY LogTypes DEF IInv, Typed
  <2>2. log[i].stamp <= lastSynced
    BY <1>2, <2>1 DEF GoneBy
  <2>3. QED
    BY <2>2, CoveredSeen
<1>6. QED
  BY <1>1, <1>3, <1>4, <1>5, CurrentPullKeeps

LEMMA RequestFailsKeeps ==
  ASSUME IInv, Typed', NEW id \in PeerRows, RequestFails(id)
  PROVE  IInv'
<1>1. /\ pull' = [pull EXCEPT ![id] = Idle]
      /\ skipped' = {l \in skipped : id # peerRow}
      /\ UNCHANGED <<now, log, shared, peerRow, lastSynced, replayed, lost>>
  BY DEF RequestFails
<1>2. CASE id = peerRow
  <2>1. PICK seen : seen = Seen'
    OBVIOUS
  <2>2. Positioned(Idle) /\ Progress(Idle, seen)
    BY IdleProgress
  <2>3. QED
    BY <1>1, <1>2, <2>1, <2>2, CurrentPullKeeps
<1>3. CASE id # peerRow
  <2>1. skipped' = skipped
    BY <1>1, <1>3
  <2>2. QED
    BY <1>1, <1>3, <2>1, OtherPullKeeps
<1>4. QED
  BY <1>2, <1>3

\* Steps after which every pull that matters is idle.
LEMMA IdleKeeps ==
  ASSUME IInv, Typed', pull'[peerRow'] = Idle,
         LaterRowsIdle', UNCHANGED <<now, log>>, Covered'
  PROVE  IInv'
<1>1. Positioned(pull[peerRow])' /\ Progress(pull[peerRow], Seen)'
  BY DEF Positioned, Progress, GoneBy, Idle
<1>2. QED
  BY <1>1 DEF IInv, StampsPast

LEMMA RestartKeeps ==
  ASSUME IInv, Typed', Restart
  PROVE  IInv'
<1>1. /\ pull' = [id \in PeerRows |-> Idle]
      /\ UNCHANGED <<now, log, shared, peerRow, lastSynced, replayed, lost>>
  BY DEF Restart
<1>2. pull'[peerRow'] = Idle /\ LaterRowsIdle'
  BY <1>1 DEF LaterRowsIdle, IInv, Typed, TypeOK
<1>3. Covered'
  BY <1>1, CoveredFrame DEF IInv
<1>4. QED
  BY <1>1, <1>2, <1>3, IdleKeeps

LEMMA PeerAnewKeeps ==
  ASSUME IInv, Typed', PeerAnew
  PROVE  IInv'
<1>1. /\ peerRow' = peerRow + 1
      /\ lastSynced' = 0
      /\ UNCHANGED <<now, log, shared, pull, replayed>>
  BY DEF PeerAnew
<1>2. peerRow' \in PeerRows /\ peerRow \in Nat
  BY SyncAssumption DEF Typed, TypeOK, IInv, PeerRows
<1>3. pull'[peerRow'] = Idle /\ LaterRowsIdle'
  BY <1>1, <1>2, SyncAssumption DEF LaterRowsIdle, IInv, PeerRows
<1>4. Covered'
  BY <1>1, LogTypes DEF Covered, IInv, Typed
<1>5. QED
  BY <1>1, <1>3, <1>4, IdleKeeps

\* Steps that leave the pull, the log and the horizon alone.
LEMMA ElsewhereKeeps ==
  ASSUME IInv, Typed', now' >= now,
         UNCHANGED <<log, peerRow, lastSynced, pull, replayed, skipped, lost>>
  PROVE  IInv'
<1>1. Seen' = Seen
  BY DEF Seen, Lost
<1>2. Positioned(pull[peerRow])' /\ Progress(pull[peerRow], Seen)'
  BY <1>1, PullFrame DEF IInv
<1>3. Covered'
  BY CoveredFrame DEF IInv
<1>4. StampsPast'
  BY LogTypes DEF StampsPast, IInv, Typed, TypeOK
<1>5. LaterRowsIdle'
  BY DEF LaterRowsIdle, IInv
<1>6. QED
  BY <1>2, <1>3, <1>4, <1>5 DEF IInv

\* At every time, whatever the pages, the clocks, the failures and the
\* mutations logged meanwhile, each row of the peer's log that concerns this
\* instance and is not after lastSyncedAt was replayed, or given up by a pull
\* in one of the five ways.
THEOREM HorizonCovers == Spec => []Covered
<1>1. Init => IInv
  <2> SUFFICES ASSUME Init
               PROVE  IInv
    OBVIOUS
  <2>1. Typed
    BY IdleType, SyncAssumption
    DEF Init, Typed, TypeOK, PagesLogged, PeerRows, Times, Idle
  <2>2. pull[peerRow] = Idle /\ DOMAIN log = {}
    BY SyncAssumption DEF Init, PeerRows
  <2>3. QED
    BY <2>1, <2>2, IdleProgress
    DEF Init, IInv, StampsPast, LaterRowsIdle, Covered, PeerRows
<1>2. IInv /\ Typed' /\ [Next]_vars => IInv'
  <2> SUFFICES ASSUME IInv, Typed', [Next]_vars
               PROVE  IInv'
    OBVIOUS
  <2>1. CASE Tick
    <3>1. now' >= now
      BY <2>1, SyncAssumption DEF Tick, IInv, Typed, TypeOK
    <3>2. QED
      BY <2>1, <3>1, ElsewhereKeeps DEF Tick
  <2>2. ASSUME \/ \E n \in DOMAIN Contexts, ours \in BOOLEAN :
                    Mutate(Contexts[n], ours)
               \/ \E i \in DOMAIN log : DeleteMessage(i)
        PROVE  IInv'
    BY <2>2, MutateType, LogMutationKeeps DEF IInv
  <2>3. CASE ShareOrUnshare
    <3>1. now' >= now
      BY <2>3 DEF ShareOrUnshare, IInv, Typed, TypeOK
    <3>2. QED
      BY <2>3, <3>1, ElsewhereKeeps DEF ShareOrUnshare
  <2>4. CASE Activate
    BY <2>4, ActivateKeeps
  <2>5. ASSUME NEW id \in PeerRows, PullStep(id) \/ RequestFails(id)
        PROVE  IInv'
    BY <2>5, RequestKeeps, ReplayKeeps, FinishKeeps, RequestFailsKeeps
    DEF PullStep
  <2>6. CASE Restart
    BY <2>6, RestartKeeps
  <2>7. CASE PeerAnew
    BY <2>7, PeerAnewKeeps
  <2>8. CASE UNCHANGED vars
    <3>1. now' >= now
      BY <2>8 DEF vars, IInv, Typed, TypeOK
    <3>2. QED
      BY <2>8, <3>1, ElsewhereKeeps DEF vars
  <2>9. QED
    BY <2>1, <2>2, <2>3, <2>4, <2>5, <2>6, <2>7, <2>8 DEF Next
<1>3. IInv => Covered
  BY DEF IInv
<1>4. QED
  BY <1>1, <1>2, <1>3, TypingHolds, PTL DEF Spec

-----------------------------------------------------------------------------
(* The refinement of SyncPromise.                                          *)

\* What the history says, it says of rows of the log; the horizon is never
\* further ahead than the requester's clock.
Recorded ==
  /\ \A l \in skipped \cup lost : l.row \in DOMAIN log
  /\ lastSynced <= now + Skew

LEMMA RecordedKept ==
  ASSUME Typed, Recorded, [Next]_vars
  PROVE  Recorded'
<1>1. now \in Nat /\ lastSynced \in Nat /\ Skew \in Nat
  BY SyncAssumption DEF Typed, TypeOK, Times
<1>2. CASE Tick
  BY <1>1, <1>2 DEF Tick, Recorded
<1>3. ASSUME \/ \E n \in DOMAIN Contexts, ours \in BOOLEAN :
                  Mutate(Contexts[n], ours)
             \/ \E i \in DOMAIN log : DeleteMessage(i)
      PROVE  Recorded'
  <2>1. PICK row \in LogRow : LogMutation(row)
    BY <1>3, MutateType
  <2>2. DOMAIN log' = DOMAIN log \cup {Len(log) + 1}
    BY <2>1, LogGrows DEF Typed
  <2>3. \A l \in (skipped' \cup lost') \ (skipped \cup lost) :
          l.row = Len(log) + 1
    BY <2>1 DEF LogMutation, MissedBy
  <2>4. UNCHANGED <<now, lastSynced>>
    BY <2>1 DEF LogMutation
  <2>5. QED
    BY <2>2, <2>3, <2>4 DEF Recorded
<1>4. CASE ShareOrUnshare
  BY <1>4 DEF ShareOrUnshare, Recorded
<1>5. CASE Activate
  BY <1>5 DEF Activate, Recorded
<1>6. ASSUME NEW id \in PeerRows, Request(id)
      PROVE  Recorded'
  <2>1. \A ctx, since, page :
          \A l \in SkippedBy(ctx, since, page) : l.row \in DOMAIN log
    BY DEF SkippedBy
  <2>2. \A l \in skipped' \ skipped : l.row \in DOMAIN log
    BY <1>6, <2>1 DEF Request
  <2>3. UNCHANGED <<now, log, lastSynced, lost>>
    BY <1>6 DEF Request
  <2>4. QED
    BY <2>2, <2>3 DEF Recorded
<1>7. ASSUME NEW id \in PeerRows, Replay(id)
      PROVE  Recorded'
  <2>1. UNCHANGED <<now, log, lastSynced, lost>>
    BY <1>7 DEF Replay
  <2>2. pull[id].page \subseteq DOMAIN log
    BY DEF Typed, PagesLogged
  <2>3. \A l \in skipped' \ skipped : l.row \in DOMAIN log
    BY <1>7, <2>2 DEF Replay
  <2>4. QED
    BY <2>1, <2>3 DEF Recorded
<1>8. ASSUME NEW id \in PeerRows, Finish(id)
      PROVE  Recorded'
  BY <1>1, <1>8 DEF Finish, Recorded
<1>9. ASSUME NEW id \in PeerRows, RequestFails(id)
      PROVE  Recorded'
  BY <1>9 DEF RequestFails, Recorded
<1>10. CASE Restart
  BY <1>10 DEF Restart, Recorded
<1>11. CASE PeerAnew
  BY <1>1, <1>11 DEF PeerAnew, Recorded
<1>12. CASE UNCHANGED vars
  BY <1>12 DEF vars, Recorded
<1>13. QED
  BY <1>2, <1>3, <1>4, <1>5, <1>6, <1>7, <1>8, <1>9, <1>10, <1>11, <1>12
  DEF Next, PullStep

LEMMA RecordedAlways == Spec => []Recorded
<1>1. Init => Recorded
  BY SyncAssumption DEF Init, Recorded
<1>2. QED
  BY <1>1, RecordedKept, TypingHolds, PTL DEF Spec

\* The log as the promise sees it.
Entries == [i \in DOMAIN log |-> [stamp |-> log[i].stamp, wanted |-> Wanted(i)]]

LEMMA EntriesLength ==
  ASSUME TypeOK
  PROVE  /\ Len(Entries) = Len(log)
         /\ DOMAIN Entries = DOMAIN log
         /\ \A i \in DOMAIN log : /\ Entries[i].stamp = log[i].stamp
                                  /\ Entries[i].wanted = Wanted(i)
<1>1. DOMAIN log = 1 .. Len(log) /\ Len(log) \in Nat
  BY DEF TypeOK
<1>2. DOMAIN Entries = 1 .. Len(log)
  BY <1>1 DEF Entries
<1>3. Len(Entries) = Len(log)
  BY <1>1, <1>2
<1>4. QED
  BY <1>1, <1>2, <1>3 DEF Entries

\* The promise, in the model's terms.
LEMMA KeptIsCovered ==
  ASSUME TypeOK, Covered
  PROVE  Promise!Kept
BY EntriesLength DEF Promise!Kept, Promise!Due, Covered, Entries

LEMMA KeptIsCoveredNext ==
  ASSUME TypeOK', Covered'
  PROVE  Promise!Kept'
<1>1. DOMAIN Entries' = DOMAIN log'
  BY DEF Entries
<1>2. \A i \in DOMAIN log' : /\ Entries'[i].stamp = log'[i].stamp
                             /\ Entries'[i].wanted = Wanted(i)'
  BY DEF Entries
<1>3. QED
  BY <1>1, <1>2 DEF Promise!Kept, Promise!Due, Covered, Entries

\* The promise's variables change with the model's.
LEMMA PromiseStutters ==
  ASSUME UNCHANGED <<log, replayed, lost, lastSynced>>
  PROVE  UNCHANGED Promise!promiseVars
BY DEF Promise!promiseVars, Lost, Wanted, Listed

LEMMA MutationPublishes ==
  ASSUME Typed, Typed', Covered', NEW row \in LogRow, LogMutation(row)
  PROVE  Promise!Publish
<1>1. /\ DOMAIN log' = DOMAIN log \cup {Len(log) + 1}
      /\ Len(log') = Len(log) + 1
      /\ \A i \in DOMAIN log : log'[i] = log[i]
  BY LogGrows DEF Typed
<1>2. /\ DOMAIN log' = 1 .. Len(log')
      /\ Len(log') \in Nat
      /\ Len(log) \in Nat
  BY DEF Typed, TypeOK
<1>3. Len(Entries') = Len(log')
  <2>1. DOMAIN Entries' = 1 .. Len(log')
    BY <1>2 DEF Entries
  <2>2. QED
    BY <1>2, <2>1
<1>4. Len(Entries') = Len(Entries) + 1
  BY <1>1, <1>3, EntriesLength DEF Typed
<1>5. \A i \in DOMAIN Entries :
        /\ Entries'[i].stamp = Entries[i].stamp
        /\ Entries'[i].wanted => Entries[i].wanted
  <2> SUFFICES ASSUME NEW i \in DOMAIN Entries
               PROVE  /\ Entries'[i].stamp = Entries[i].stamp
                      /\ Entries'[i].wanted => Entries[i].wanted
    OBVIOUS
  <2>1. i \in DOMAIN log /\ i \in DOMAIN log'
    BY <1>1, EntriesLength DEF Typed
  <2>2. Entries'[i].stamp = log'[i].stamp /\ Entries'[i].wanted = Wanted(i)'
    BY <2>1 DEF Entries
  <2>3. Entries[i].stamp = log[i].stamp /\ Entries[i].wanted = Wanted(i)
    BY <2>1, EntriesLength DEF Typed
  <2>4. Wanted(i)' => Wanted(i)
    BY <1>1, <2>1 DEF Wanted, Listed
  <2>5. QED
    BY <1>1, <2>1, <2>2, <2>3, <2>4
<1>6. Lost \subseteq Lost' /\ Lost' \ Lost \subseteq {Len(Entries')}
  <2>1. lost \subseteq lost'
        /\ \A l \in lost' \ lost : l.row = Len(log) + 1
    BY DEF LogMutation
  <2>2. QED
    BY <1>1, <1>3, <2>1 DEF Lost
<1>7. UNCHANGED <<replayed, lastSynced>>
  BY DEF LogMutation
<1>8. Promise!Kept'
  BY KeptIsCoveredNext DEF Typed
<1>9. QED
  BY <1>4, <1>5, <1>6, <1>7, <1>8 DEF Promise!Publish, Entries

\* Pull-sync implements SyncPromise: every step is a step of the promise or
\* leaves what the promise sees as it was.
THEOREM Refinement == Spec => KeepsPromise
<1>1. Init => Promise!PromiseInit
  <2> SUFFICES ASSUME Init
               PROVE  Promise!PromiseInit
    OBVIOUS
  <2>1. DOMAIN log = {} /\ Lost = {}
    BY DEF Init, Lost
  <2>2. Entries = << >>
    BY <2>1 DEF Entries
  <2>3. QED
    BY <2>1, <2>2 DEF Init, Promise!PromiseInit, Entries
<1>2. Typed /\ Typed' /\ Recorded /\ Recorded' /\ Covered /\ Covered'
      /\ [Next]_vars => [Promise!PromiseNext]_(Promise!promiseVars)
  <2> SUFFICES ASSUME Typed, Typed', Recorded, Recorded', Covered, Covered',
                      [Next]_vars
               PROVE  [Promise!PromiseNext]_(Promise!promiseVars)
    OBVIOUS
  <2>1. CASE Tick
    BY <2>1, PromiseStutters DEF Tick
  <2>2. ASSUME \/ \E n \in DOMAIN Contexts, ours \in BOOLEAN :
                    Mutate(Contexts[n], ours)
               \/ \E i \in DOMAIN log : DeleteMessage(i)
        PROVE  [Promise!PromiseNext]_(Promise!promiseVars)
    BY <2>2, MutateType, MutationPublishes DEF Promise!PromiseNext
  <2>3. CASE ShareOrUnshare
    BY <2>3, PromiseStutters DEF ShareOrUnshare
  <2>4. CASE Activate
    BY <2>4, PromiseStutters DEF Activate
  <2>5. ASSUME NEW id \in PeerRows, Request(id)
        PROVE  [Promise!PromiseNext]_(Promise!promiseVars)
    BY <2>5, PromiseStutters DEF Request
  <2>6. ASSUME NEW id \in PeerRows, Replay(id)
        PROVE  [Promise!PromiseNext]_(Promise!promiseVars)
    <3>1. UNCHANGED <<log, lost, lastSynced>>
      BY <2>6 DEF Replay
    <3>2. PICK i \in pull[id].page :
            replayed' = replayed \cup {i} \/ replayed' = replayed
      BY <2>6 DEF Replay
    <3>3. CASE i \in replayed \/ replayed' = replayed
      <4>1. replayed' = replayed
        BY <3>2, <3>3
      <4>2. QED
        BY <3>1, <4>1, PromiseStutters
    <3>4. CASE i \notin replayed /\ replayed' = replayed \cup {i}
      <4>1. i \in DOMAIN Entries \ replayed
        BY <3>4, EntriesLength DEF Typed, PagesLogged
      <4>2. Entries' = Entries /\ Lost' = Lost
        BY <3>1 DEF Entries, Lost, Wanted, Listed
      <4>3. Promise!Deliver
        BY <3>1, <3>4, <4>1, <4>2 DEF Promise!Deliver, Entries
      <4>4. QED
        BY <4>3 DEF Promise!PromiseNext
    <3>5. QED
      BY <3>2, <3>3, <3>4
  <2>7. ASSUME NEW id \in PeerRows, Finish(id)
        PROVE  [Promise!PromiseNext]_(Promise!promiseVars)
    <3>1. UNCHANGED <<log, replayed, now>>
      BY <2>7 DEF Finish
    <3>2. CASE id = peerRow
      <4>1. lastSynced' = now + Skew /\ lost \subseteq lost'
        BY <2>7, <3>2 DEF Finish
      <4>2. lastSynced' >= lastSynced
        BY <4>1, SyncAssumption DEF Recorded, Typed, TypeOK, Times
      <4>3. Entries' = Entries /\ Lost \subseteq Lost'
        BY <3>1, <4>1 DEF Entries, Lost, Wanted, Listed
      <4>4. Lost' \subseteq DOMAIN Entries
        BY <3>1, EntriesLength DEF Recorded, Lost, Typed
      <4>5. Promise!Kept'
        BY KeptIsCoveredNext DEF Typed
      <4>6. Promise!Advance
        BY <3>1, <4>2, <4>3, <4>4, <4>5 DEF Promise!Advance, Entries
      <4>7. QED
        BY <4>6 DEF Promise!PromiseNext
    <3>3. CASE id # peerRow
      <4>1. UNCHANGED <<lastSynced, lost>>
        BY <2>7, <3>3 DEF Finish
      <4>2. QED
        BY <3>1, <4>1, PromiseStutters
    <3>4. QED
      BY <3>2, <3>3
  <2>8. ASSUME NEW id \in PeerRows, RequestFails(id)
        PROVE  [Promise!PromiseNext]_(Promise!promiseVars)
    BY <2>8, PromiseStutters DEF RequestFails
  <2>9. CASE Restart
    BY <2>9, PromiseStutters DEF Restart
  <2>10. CASE PeerAnew
    <3>1. /\ UNCHANGED <<log, replayed>>
          /\ lastSynced' = 0
          /\ lost' = {}
      BY <2>10 DEF PeerAnew
    <3>2. Entries' = Entries /\ Lost' = {}
      BY <3>1 DEF Entries, Lost, Wanted, Listed
    <3>3. Promise!StartOver
      BY <3>1, <3>2 DEF Promise!StartOver, Entries
    <3>4. QED
      BY <3>3 DEF Promise!PromiseNext
  <2>11. CASE UNCHANGED vars
    BY <2>11, PromiseStutters DEF vars
  <2>12. QED
    BY <2>1, <2>2, <2>3, <2>4, <2>5, <2>6, <2>7, <2>8, <2>9, <2>10, <2>11
    DEF Next, PullStep
<1>3. QED
  BY <1>1, <1>2, TypingHolds, RecordedAlways, HorizonCovers, PTL
  DEF Spec, KeepsPromise, Promise!PromiseSpec
=============================================================================
