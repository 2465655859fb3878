--------------------------- MODULE PeeringProofs ---------------------------
(***************************************************************************)
(* Machine-checked safety of Peering, for any number of operations, lost   *)
(* calls, restarts, removals and worker tasks: the types, that an active   *)
(* row's secret is one the other instance generated or adopted, that two   *)
(* rows in use hold the same secret unless the last one adopted came from  *)
(* an overtaken request, that the rows of a gated instance are its own     *)
(* doing, that a revoked row does not come back at the other instance's    *)
(* call, and that an active row ends at its own instance's hand only.      *)
(***************************************************************************)
EXTENDS Peering, TLAPS

\* The other instance's other instance.
LEMMA OtherSide ==
  ASSUME NEW i \in Instances
  PROVE  /\ Other(i) \in Instances
         /\ Other(i) # i
         /\ Other(Other(i)) = i
         /\ \A j \in Instances : j = i \/ j = Other(i)
BY PeeringAssumption DEF Instances, Other

-----------------------------------------------------------------------------
(* The inductive invariant.                                                *)

\* Every row and every inbound request holds a secret, and every number in use
\* was minted.
Numbered ==
  /\ \A i \in Instances :
       /\ row[i].status # "none" => row[i].secret \in Ids
       /\ request[i].dir = "inbound" => request[i].secret \in Ids
       /\ row[i].id <= minted
       /\ worker[i].id <= minted
       /\ worker[i] # Idle => worker[i].id # 0
  /\ \A c \in calls :
       /\ c.id <= minted /\ c.row <= minted
       /\ c.kind \in Handshakes => c.row # 0

Typed == TypeOK /\ Numbered

\* The other instance generated or adopted this secret.
SharedWith(i, secret) == secret \in known[Other(i)]

RowsGenuine ==
  \A i \in Instances :
    /\ row[i].status = "pending" => row[i].secret \in known[i]
    /\ row[i].status \in {"active", "unreachable"} => SharedWith(i, row[i].secret)

RequestsGenuine ==
  \A i \in Instances :
    request[i].dir = "inbound" => SharedWith(i, request[i].secret)

\* Steps of a handshake whose secret was adopted.
Granted == {"activated", "proved", "unproved"}

\* Row id of instance i may be written: it holds the given secret or a shared one.
Holds(i, id, secret) ==
  row[i].status # "none" /\ row[i].id = id
    => row[i].secret = secret \/ SharedWith(i, row[i].secret)

CallsGenuine ==
  \A c \in calls :
    /\ c.kind \in Handshakes =>
         /\ c.secret \in known[c.from]
         /\ c.step \in Granted => SharedWith(c.from, c.secret)
         /\ Holds(c.from, c.row, c.secret)
    /\ c.kind = "deny" => SharedWith(c.from, c.secret)

WorkerGenuine ==
  \A i \in Instances :
    worker[i] # Idle /\ row[i].status # "none" /\ row[i].id = worker[i].id
      => SharedWith(i, row[i].secret)

SecretsGenuine ==
  RowsGenuine /\ RequestsGenuine /\ CallsGenuine /\ WorkerGenuine

\* Instance i may still write the status of row id.
Writes(i, id) ==
  \/ \E c \in calls : c.from = i /\ c.kind \in Handshakes /\ c.row = id
  \/ worker[i].id = id

\* Instance i may still insert a denial's row under this id.
Denies(i, id) == \E c \in calls : c.from = i /\ c.kind = "deny" /\ c.id = id

\* The rows of gated instances: nobody can write those of a denial.
GatedRowsKept ==
  \A i \in gated :
    /\ row[i].by \in {"nobody", "admin", "relay", "denial"}
    /\ row[i].by = "nobody" => row[i].status = "none"
    /\ row[i].by = "denial" =>
         row[i].status \in {"rejected", "revoked"} /\ ~ Writes(i, row[i].id)
    /\ row[i].by # "denial" => ~ Denies(i, row[i].id)
    /\ \A id \in Ids : ~ (Writes(i, id) /\ Denies(i, id))

-----------------------------------------------------------------------------
(* What the writes by id do.                                               *)

\* A write of the status changes status and token of one row at most.
LEMMA StatusWrite ==
  ASSUME TypeOK, NEW i \in Instances, NEW id, NEW s \in Status \ {"none"},
         NEW t \in Ids \cup {0}
  PROVE  /\ WithStatus(i, id, s, t) \in [Instances -> Row]
         /\ \A j \in Instances :
              /\ WithStatus(i, id, s, t)[j].id = row[j].id
              /\ WithStatus(i, id, s, t)[j].secret = row[j].secret
              /\ WithStatus(i, id, s, t)[j].by = row[j].by
              /\ \/ WithStatus(i, id, s, t)[j] = row[j]
                 \/ /\ j = i /\ row[i].status # "none" /\ row[i].id = id
                    /\ WithStatus(i, id, s, t)[j].status = s
<1>1. CASE row[i].status # "none" /\ row[i].id = id
  <2>1. WithStatus(i, id, s, t)
          = [row EXCEPT ![i] = [row[i] EXCEPT !.status = s, !.token = t]]
    BY <1>1 DEF WithStatus, TypeOK, Row
  <2>2. [row[i] EXCEPT !.status = s, !.token = t] \in Row
    BY DEF TypeOK, Row
  <2>3. QED
    BY <1>1, <2>1, <2>2 DEF TypeOK, Row
<1>2. CASE ~ (row[i].status # "none" /\ row[i].id = id)
  BY <1>2 DEF WithStatus, TypeOK
<1>3. QED
  BY <1>1, <1>2

\* A step that writes the status, row by row.
LEMMA StatusWritten ==
  ASSUME TypeOK, NEW i \in Instances, NEW id, NEW s \in Status \ {"none"},
         NEW t \in Ids \cup {0}, row' = WithStatus(i, id, s, t)
  PROVE  \A j \in Instances :
           /\ row'[j].id = row[j].id /\ row'[j].secret = row[j].secret
           /\ row'[j].by = row[j].by
           /\ \/ row'[j] = row[j]
              \/ /\ j = i /\ row[i].status # "none" /\ row[i].id = id
                 /\ row'[j].status = s
BY StatusWrite

\* A deletion by id removes one row at most.
LEMMA RowDelete ==
  ASSUME TypeOK, NEW i \in Instances, NEW id
  PROVE  /\ WithoutRow(i, id) \in [Instances -> Row]
         /\ \A j \in Instances :
              \/ WithoutRow(i, id)[j] = row[j]
              \/ /\ WithoutRow(i, id)[j] = NoRow
                 /\ j = i /\ row[i].id = id
BY DEF WithoutRow, TypeOK, Row, NoRow, Status, Creator

\* So does the deletion of a request.
LEMMA RequestDelete ==
  ASSUME TypeOK, NEW i \in Instances, NEW id
  PROVE  /\ WithoutRequest(i, id) \in [Instances -> Request]
         /\ \A j \in Instances :
              \/ WithoutRequest(i, id)[j] = request[j]
              \/ WithoutRequest(i, id)[j] = NoRequest
BY DEF WithoutRequest, TypeOK, Request, NoRequest

\* A call moves to a step and is otherwise unchanged.
LEMMA CallStep ==
  ASSUME NEW c \in Call, NEW s \in Steps
  PROVE  LET d == [c EXCEPT !.step = s]
         IN  /\ d \in Call
             /\ d.id = c.id /\ d.from = c.from /\ d.kind = c.kind
             /\ d.row = c.row /\ d.secret = c.secret /\ d.step = s
             /\ d.token = c.token /\ d.request = c.request
BY DEF Call

\* The calls left after some were given up: no step of theirs is new but
\* "abandoned".
LEMMA ForsakenCalls ==
  ASSUME calls \subseteq Call, NEW gone \in SUBSET calls
  PROVE  /\ Forsaken(gone) \subseteq Call
         /\ \A c \in Forsaken(gone) : \E d \in calls :
              /\ c.id = d.id /\ c.from = d.from /\ c.kind = d.kind
              /\ c.row = d.row /\ c.secret = d.secret
              /\ c.step = d.step \/ c.step = "abandoned"
<1> SUFFICES ASSUME NEW c \in Forsaken(gone)
             PROVE  /\ c \in Call
                    /\ \E d \in calls :
                         /\ c.id = d.id /\ c.from = d.from /\ c.kind = d.kind
                         /\ c.row = d.row /\ c.secret = d.secret
                         /\ c.step = d.step \/ c.step = "abandoned"
  OBVIOUS
<1>1. CASE c \in calls
  BY <1>1
<1>2. CASE c \notin calls
  <2>1. PICK d \in gone : c = [d EXCEPT !.step = "abandoned"]
    BY <1>2 DEF Forsaken
  <2>2. d \in Call /\ d \in calls /\ "abandoned" \in Steps
    BY DEF Steps
  <2>3. QED
    BY <2>1, <2>2, CallStep
<1>3. QED
  BY <1>1, <1>2

-----------------------------------------------------------------------------
(* Types.                                                                  *)

\* The types of the rows alone, with what every row has.
RowsTyped ==
  /\ row \in [Instances -> Row]
  /\ \A i \in Instances :
       \/ row[i] = NoRow
       \/ /\ row[i].status # "none" /\ row[i].id \in Ids /\ row[i].secret \in Ids
          /\ row[i].id <= minted

\* Typed after a step, one variable at a time.
LEMMA TypedNext ==
  ASSUME RowsTyped', minted' \in 0 .. MaxMints,
         gated' \subseteq Instances,
         request' \in [Instances -> Request],
         \A i \in Instances :
           /\ request'[i] = NoRequest \/ request'[i].dir # "none"
           /\ request'[i].dir = "inbound" => request'[i].secret \in Ids,
         calls' \subseteq Call,
         \A c \in calls' : /\ c.id <= minted' /\ c.row <= minted'
                           /\ c.kind \in Handshakes => c.row # 0,
         activated' \in [Instances -> SUBSET Ids],
         worker' \in [Instances -> Task],
         \A i \in Instances : /\ worker'[i].id <= minted'
                              /\ worker'[i] # Idle => worker'[i].id # 0,
         upsets' \in 0 .. MaxUpsets,
         known' \in [Instances -> SUBSET Ids],
         stale' \in BOOLEAN
  PROVE  Typed'
<1>1. NoRow.status = "none" /\ NoRow.id = 0
  BY DEF NoRow
<1>2. 0 <= minted'
  BY PeeringAssumption
<1>3. \A i \in Instances :
        /\ row'[i] = NoRow \/ (row'[i].status # "none" /\ row'[i].id \in Ids)
        /\ row'[i].status # "none" => row'[i].secret \in Ids
        /\ row'[i].id <= minted'
  BY <1>1, <1>2 DEF RowsTyped
<1>4. QED
  BY <1>3 DEF Typed, TypeOK, Numbered, RowsTyped

\* Before a step, likewise.
LEMMA TypedNow ==
  ASSUME Typed
  PROVE  /\ RowsTyped
         /\ \A i \in Instances :
              /\ row[i] \in Row /\ request[i] \in Request /\ worker[i] \in Task
              /\ row[i].id \in Ids \cup {0} /\ row[i].id <= minted
              /\ row[i].status \in Status
              /\ worker[i].id \in Ids \cup {0} /\ worker[i].id <= minted
              /\ worker[i] # Idle => worker[i].id # 0
              /\ request[i].secret \in Ids \cup {0}
              /\ request[i].id \in Ids \cup {0}
              /\ request[i].token \in Ids \cup {0}
         /\ \A c \in calls :
              /\ c \in Call
              /\ c.id \in Ids /\ c.from \in Instances
              /\ c.row \in Ids \cup {0} /\ c.secret \in Ids
              /\ c.request \in Ids \cup {0}
              /\ c.id <= minted /\ c.row <= minted
              /\ c.kind \in Handshakes => c.row # 0
         /\ minted \in Nat
BY PeeringAssumption DEF Typed, TypeOK, Numbered, RowsTyped, Row, Request, Task, Call

\* A new number is one of the ids, and is not in use.
LEMMA MintFresh ==
  ASSUME Typed, Mint
  PROVE  /\ minted + 1 \in Ids /\ minted + 1 # 0 /\ minted' = minted + 1
         /\ minted' \in 0 .. MaxMints
         /\ \A n \in Ids \cup {0} : n <= minted => n <= minted' /\ n # minted + 1
BY PeeringAssumption DEF Typed, TypeOK, Mint, Ids

\* Rows that are kept, lose their place, or change status or token are typed.
LEMMA RowsStayTyped ==
  ASSUME Typed, minted' = minted, row' \in [Instances -> Row],
         \A j \in Instances :
           \/ row'[j] = row[j]
           \/ row'[j] = NoRow
           \/ /\ row[j].status # "none" /\ row'[j].status # "none"
              /\ row'[j].id = row[j].id
              /\ row'[j].secret = row[j].secret
  PROVE  RowsTyped'
BY DEF Typed, TypeOK, Numbered, RowsTyped, NoRow

\* So are they after a write of the status.
LEMMA StatusWriteTyped ==
  ASSUME Typed, minted' = minted, NEW i \in Instances, NEW id,
         NEW s \in Status \ {"none"}, NEW t \in Ids \cup {0},
         row' = WithStatus(i, id, s, t)
  PROVE  RowsTyped'
<1>1. TypeOK
  BY DEF Typed
<1>2. /\ row' \in [Instances -> Row]
      /\ \A j \in Instances :
           \/ row'[j] = row[j]
           \/ /\ row[j].status # "none" /\ row'[j].status # "none"
              /\ row'[j].id = row[j].id /\ row'[j].secret = row[j].secret
  BY <1>1, StatusWrite
<1>3. QED
  BY <1>2, RowsStayTyped

\* Handshake inserts a typed row and posts a typed call.
LEMMA HandshakeTyped ==
  ASSUME Typed, NEW i \in Instances, NEW kind \in Handshakes,
         NEW by \in Creator, NEW token \in Ids \cup {0}, NEW req \in Ids \cup {0},
         Handshake(i, kind, by, token, req),
         UNCHANGED <<gated, request, activated, worker, upsets, stale>>
  PROVE  Typed'
<1> DEFINE n == minted + 1
           c == [id |-> n, from |-> i, kind |-> kind, row |-> n, secret |-> n,
                 token |-> token, request |-> req, step |-> "sent"]
<1>1. n \in Ids /\ n # 0 /\ minted' = n /\ minted' \in 0 .. MaxMints
      /\ \A m \in Ids \cup {0} : m <= minted => m <= minted'
  BY MintFresh DEF Handshake
<1>2. c \in Call
  BY <1>1 DEF Call, Steps
<1>3. calls' \subseteq Call
      /\ \A d \in calls' : /\ d.id <= minted' /\ d.row <= minted'
                           /\ d.kind \in Handshakes => d.row # 0
  <2>1. calls' = calls \cup {c}
    BY DEF Handshake
  <2>2. \A d \in calls : /\ d \in Call /\ d.id <= minted /\ d.row <= minted
                         /\ d.kind \in Handshakes => d.row # 0
    BY DEF Typed, TypeOK, Numbered
  <2>3. \A d \in Call : d.id \in Ids \cup {0} /\ d.row \in Ids \cup {0}
    BY DEF Call
  <2>4. c.id <= n /\ c.row <= n /\ c.row # 0
    BY <1>1, PeeringAssumption DEF Typed, TypeOK
  <2>5. \A d \in calls : d.id <= minted' /\ d.row <= minted'
    BY <1>1, <2>2, <2>3
  <2>6. QED
    BY <1>1, <1>2, <2>1, <2>2, <2>4, <2>5
<1>4. RowsTyped'
  <2>1. row' = [row EXCEPT ![i] = PendingRow(n, by)]
    BY DEF Handshake
  <2>2. PendingRow(n, by) \in Row /\ PendingRow(n, by).id = n
        /\ PendingRow(n, by).secret = n /\ PendingRow(n, by).status = "pending"
    BY <1>1 DEF PendingRow, Row, Status
  <2>3. \A j \in Instances : row[j].id \in Ids \cup {0} /\ row[j].id <= minted
    BY DEF Typed, TypeOK, Numbered, Row
  <2>4. n <= n
    BY PeeringAssumption DEF Typed, TypeOK
  <2>5. QED
    BY <1>1, <2>1, <2>2, <2>3, <2>4, TypedNow DEF RowsTyped
<1>5. known' \in [Instances -> SUBSET Ids]
  BY <1>1 DEF Handshake, Learn, Typed, TypeOK
<1>6. \A j \in Instances : worker[j].id <= minted' /\ (worker[j] # Idle => worker[j].id # 0)
  BY <1>1, TypedNow
<1>7. QED
  BY <1>1, <1>3, <1>4, <1>5, <1>6, TypedNext DEF Typed, TypeOK, Numbered

\* A call appended or moved keeps the calls typed; so does dropping some.
LEMMA CallsStayTyped ==
  ASSUME Typed, minted' = minted, NEW gone \in SUBSET calls,
         NEW c \in calls, NEW s \in Steps,
         calls' \in {calls, calls \ {c}, Moved(c, s), Forsaken(gone)}
  PROVE  /\ calls' \subseteq Call
         /\ \A d \in calls' : /\ d.id <= minted' /\ d.row <= minted'
                              /\ d.kind \in Handshakes => d.row # 0
<1>1. CASE calls' \in {calls, calls \ {c}}
  BY <1>1, TypedNow
<1>2. CASE calls' = Moved(c, s)
  <2> DEFINE moved == [c EXCEPT !.step = s]
  <2>1. c \in Call
    BY TypedNow
  <2>2. moved \in Call /\ moved.id = c.id /\ moved.row = c.row /\ moved.kind = c.kind
    BY <2>1, CallStep
  <2>3. calls' = (calls \ {c}) \cup {moved}
    BY <1>2 DEF Moved
  <2>4. QED
    BY <2>2, <2>3, TypedNow
<1>3. CASE calls' = Forsaken(gone)
  BY <1>3, TypedNow, ForsakenCalls
<1>4. QED
  BY <1>1, <1>2, <1>3

\* Posting a call that inserts no row.
LEMMA PostTyped ==
  ASSUME Typed, Mint, NEW c \in Call, c.id = minted + 1, c.row <= minted,
         c.kind \in Handshakes => c.row # 0,
         calls' = calls \cup {c},
         UNCHANGED <<gated, row, request, activated, worker, upsets, known, stale>>
  PROVE  Typed'
<1>1. minted' = minted + 1 /\ minted' \in 0 .. MaxMints
      /\ \A m \in Ids \cup {0} : m <= minted => m <= minted'
  BY MintFresh
<1>2. calls' \subseteq Call
      /\ \A d \in calls' : /\ d.id <= minted' /\ d.row <= minted'
                           /\ d.kind \in Handshakes => d.row # 0
  <2>1. c.row \in Ids \cup {0} /\ minted + 1 <= minted + 1
    BY TypedNow DEF Call
  <2>2. QED
    BY <1>1, <2>1, TypedNow
<1>3. RowsTyped'
  BY <1>1, TypedNow DEF RowsTyped
<1>4. \A j \in Instances : worker'[j].id <= minted' /\ (worker'[j] # Idle => worker'[j].id # 0)
  BY <1>1, TypedNow
<1>5. QED
  BY <1>1, <1>2, <1>3, <1>4, TypedNext DEF Typed, TypeOK, Numbered

\* The local operations keep the types.
LEMMA OperationTyped ==
  ASSUME Typed, NEW i \in Instances,
         \/ Initiate(i) \/ CreatePlaceholder(i) \/ EnsureNewPeer(i) \/ EnsurePending(i)
         \/ AskAdmin(i) \/ ApproveInbound(i) \/ ApproveOutbound(i)
         \/ DenyInbound(i) \/ DenyOutbound(i)
  PROVE  Typed'
<1>0. row[i] \in Row /\ request[i] \in Request /\ request[i].id \in Ids \cup {0}
      /\ request[i].token \in Ids \cup {0}
  BY TypedNow
<1>1. CASE Initiate(i)
  BY <1>1, HandshakeTyped DEF Initiate, Handshakes, Creator
<1>2. CASE CreatePlaceholder(i)
  <2> DEFINE n == minted + 1
  <2>1. n \in Ids /\ minted' = n /\ minted' \in 0 .. MaxMints
        /\ \A m \in Ids \cup {0} : m <= minted => m <= minted'
    BY <1>2, MintFresh DEF CreatePlaceholder
  <2>2. PendingRow(n, "relay") \in Row /\ PendingRow(n, "relay").id = n
        /\ PendingRow(n, "relay").secret = n
        /\ PendingRow(n, "relay").status = "pending"
    BY <2>1 DEF PendingRow, Row, Status, Creator
  <2>3. RowsTyped'
    <3>1. row' = [row EXCEPT ![i] = PendingRow(n, "relay")]
      BY <1>2 DEF CreatePlaceholder
    <3>2. n <= n
      BY TypedNow
    <3>3. QED
      BY <2>1, <2>2, <3>1, <3>2, TypedNow DEF RowsTyped
  <2>4. known' \in [Instances -> SUBSET Ids]
    BY <1>2, <2>1 DEF CreatePlaceholder, Learn, Typed, TypeOK
  <2>5. \A c \in calls' : /\ c.id <= minted' /\ c.row <= minted'
                          /\ c.kind \in Handshakes => c.row # 0
    BY <1>2, <2>1, TypedNow DEF CreatePlaceholder
  <2>6. \A j \in Instances : worker'[j].id <= minted' /\ (worker'[j] # Idle => worker'[j].id # 0)
    BY <1>2, <2>1, TypedNow DEF CreatePlaceholder
  <2>7. UNCHANGED <<gated, request, calls, activated, worker, upsets, stale>>
    BY <1>2 DEF CreatePlaceholder
  <2>8. QED
    BY <2>1, <2>3, <2>4, <2>5, <2>6, <2>7, TypedNext DEF Typed, TypeOK, Numbered
<1>3. CASE EnsureNewPeer(i)
  BY <1>3, HandshakeTyped DEF EnsureNewPeer, Handshakes, Creator
<1>4. CASE EnsurePending(i)
  <2> DEFINE c == [id |-> minted + 1, from |-> i, kind |-> "ensure", row |-> row[i].id,
                   secret |-> row[i].secret, token |-> 0, request |-> 0, step |-> "sent"]
  <2>1. row[i].status = "pending" /\ row[i].secret \in Ids /\ row[i].id <= minted
        /\ row[i].id \in Ids \cup {0}
    BY <1>4, TypedNow DEF EnsurePending, Typed, Numbered
  <2>2. minted + 1 \in Ids
    BY <1>4, MintFresh DEF EnsurePending
  <2>3. c \in Call
    BY <2>1, <2>2 DEF Call, Steps, Handshakes
  <2>4. c.id = minted + 1 /\ c.row <= minted /\ c.row # 0
    BY <2>1, TypedNow DEF RowsTyped, NoRow, Ids
  <2>5. QED
    BY <1>4, <2>3, <2>4, PostTyped DEF EnsurePending
<1>5. CASE AskAdmin(i)
  <2>1. [NoRequest EXCEPT !.dir = "outbound"] \in Request
    BY DEF Request, NoRequest
  <2>2. QED
    BY <1>5, <2>1, TypedNext DEF AskAdmin, Typed, TypeOK, Numbered, RowsTyped, NoRequest
<1>6. CASE ApproveInbound(i)
  <2>1. CASE row[i].status = "active" /\ request' = [request EXCEPT ![i] = NoRequest]
             /\ UNCHANGED <<row, calls, minted, known>>
    <3>1. NoRequest \in Request /\ NoRequest.dir = "none"
      BY DEF NoRequest, Request
    <3>2. QED
      BY <1>6, <2>1, <3>1 DEF ApproveInbound, Typed, TypeOK, Numbered
  <2>2. CASE Handshake(i, "approve_inbound", "admin", request[i].token, request[i].id)
             /\ UNCHANGED request
    BY <1>0, <1>6, <2>2, HandshakeTyped DEF ApproveInbound, Handshakes, Creator
  <2>3. QED
    BY <1>6, <2>1, <2>2 DEF ApproveInbound
<1>7. CASE ApproveOutbound(i)
  BY <1>7, HandshakeTyped DEF ApproveOutbound, Handshakes, Creator
<1>8. CASE DenyInbound(i)
  <2> DEFINE c == [id |-> minted + 1, from |-> i, kind |-> "deny", row |-> 0,
                   secret |-> request[i].secret, token |-> 0,
                   request |-> request[i].id, step |-> "sent"]
  <2>1. request[i].secret \in Ids
    BY <1>8 DEF DenyInbound, Typed, Numbered
  <2>2. minted + 1 \in Ids
    BY <1>8, MintFresh DEF DenyInbound
  <2>3. c \in Call
    BY <1>0, <2>1, <2>2 DEF Call, Steps
  <2>4. c.id = minted + 1 /\ c.row <= minted /\ c.kind \notin Handshakes
    BY TypedNow DEF Handshakes
  <2>5. QED
    BY <1>8, <2>3, <2>4, PostTyped DEF DenyInbound
<1>9. CASE DenyOutbound(i)
  <2>1. NoRequest \in Request /\ NoRequest.dir = "none"
    BY DEF NoRequest, Request
  <2>2. QED
    BY <1>9, <2>1 DEF DenyOutbound, Typed, TypeOK, Numbered
<1>10. QED
  BY <1>1, <1>2, <1>3, <1>4, <1>5, <1>6, <1>7, <1>8, <1>9

\* Serving a call keeps the types.
LEMMA ServeTyped ==
  ASSUME Typed, NEW c \in calls,
         ServeAccept(c) \/ ServeEpoch(c) \/ ServeDenied(c)
  PROVE  Typed'
<1> DEFINE j == Other(c.from)
<1>1. /\ c \in Call /\ c.id \in Ids /\ c.from \in Instances /\ c.secret \in Ids
      /\ c.id <= minted /\ j \in Instances
      /\ row[j] \in Row /\ request[j] \in Request
      /\ row[j] = NoRow \/ row[j].id \in Ids
  BY TypedNow, OtherSide DEF RowsTyped
<1>2. CASE ServeAccept(c)
  <2>1. Verdict(j, c) \in Steps
    BY DEF Verdict, Steps
  <2>2. calls' \subseteq Call
        /\ \A d \in calls' : /\ d.id <= minted' /\ d.row <= minted'
                             /\ d.kind \in Handshakes => d.row # 0
    <3>1. minted' = minted
          /\ calls' \in {calls \ {c}, Moved(c, Verdict(j, c))}
      BY <1>2 DEF ServeAccept, Answer
    <3>2. QED
      BY <2>1, <3>1, CallsStayTyped
  <2>3. CASE Adopt(j, c)
    <3>1. /\ AdoptedRow(j, c) \in Row
          /\ AdoptedRow(j, c).status = "active"
          /\ AdoptedRow(j, c).secret = c.secret
          /\ AdoptedRow(j, c).id \in Ids /\ AdoptedRow(j, c).id <= minted
      <4>1. CASE row[j].status = "none"
        BY <1>1, <4>1 DEF AdoptedRow, Row, Status, Creator
      <4>2. CASE row[j].status # "none"
        <5>1. AdoptedRow(j, c)
                = [row[j] EXCEPT !.status = "active", !.secret = c.secret, !.token = 0]
          BY <4>2 DEF AdoptedRow
        <5>2. row[j].id \in Ids /\ row[j].id <= minted
          BY <1>1, <4>2, TypedNow DEF RowsTyped, NoRow
        <5>3. QED
          BY <1>1, <5>1, <5>2 DEF Row, Status
      <4>3. QED
        BY <4>1, <4>2
    <3>2. RowsTyped'
      BY <1>1, <1>2, <2>3, <3>1, TypedNow DEF Adopt, ServeAccept, RowsTyped
    <3>3. request' \in [Instances -> Request]
          /\ \A i \in Instances : request'[i] = request[i] \/ request'[i] = NoRequest
      BY <1>1, <2>3 DEF Adopt, Typed, TypeOK, NoRequest, Request
    <3>4. activated' \in [Instances -> SUBSET Ids]
      BY <1>1, <2>3, <3>1 DEF Adopt, StartActivation, Typed, TypeOK
    <3>5. known' \in [Instances -> SUBSET Ids]
      BY <1>1, <2>3 DEF Adopt, Learn, Typed, TypeOK
    <3>6. stale' \in BOOLEAN
      BY <2>3 DEF Adopt, Overtaken
    <3>7. NoRequest.dir = "none"
      BY DEF NoRequest
    <3>8. QED
      BY <1>2, <2>2, <3>2, <3>3, <3>4, <3>5, <3>6, <3>7, TypedNext
      DEF ServeAccept, Typed, TypeOK, Numbered
  <2>4. CASE QueueApprovalRequest(j, c) /\ UNCHANGED <<row, activated, known, stale>>
    <3> DEFINE queued == [dir |-> "inbound", id |-> c.id, secret |-> c.secret, token |-> c.id]
               renewed == [request[j] EXCEPT !.secret = c.secret, !.token = c.id]
    <3>1. queued \in Request /\ queued.secret \in Ids /\ queued.dir # "none"
      BY <1>1 DEF Request
    <3>2. renewed \in Request /\ renewed.secret \in Ids
          /\ renewed.dir = request[j].dir
      BY <1>1 DEF Request
    <3>3. request' = [request EXCEPT ![j] = IF request[j].dir = "none" THEN queued ELSE renewed]
      BY <2>4 DEF QueueApprovalRequest
    <3>4. request' \in [Instances -> Request]
          /\ \A i \in Instances :
               /\ request'[i] = NoRequest \/ request'[i].dir # "none"
               /\ request'[i].dir = "inbound" => request'[i].secret \in Ids
      BY <1>1, <3>1, <3>2, <3>3 DEF Typed, TypeOK, Numbered
    <3>5. RowsTyped'
      BY <1>2, <2>4, TypedNow DEF ServeAccept, RowsTyped
    <3>6. QED
      BY <1>2, <2>2, <2>4, <3>4, <3>5, TypedNext DEF ServeAccept, Typed, TypeOK, Numbered
  <2>5. CASE UNCHANGED <<row, request, activated, known, stale>>
    <3>1. RowsTyped'
      BY <1>2, <2>5, TypedNow DEF ServeAccept, RowsTyped
    <3>2. QED
      BY <1>2, <2>2, <2>5, <3>1, TypedNext DEF ServeAccept, Typed, TypeOK, Numbered
  <2>6. QED
    BY <1>2, <2>3, <2>4, <2>5 DEF ServeAccept
<1>3. CASE ServeEpoch(c)
  <2>1. "proved" \in Steps /\ "unproved" \in Steps
    BY DEF Steps
  <2>2. calls' \subseteq Call
        /\ \A d \in calls' : /\ d.id <= minted' /\ d.row <= minted'
                             /\ d.kind \in Handshakes => d.row # 0
    BY <1>3, <2>1, CallsStayTyped DEF ServeEpoch
  <2>3. QED
    BY <1>3, <2>2 DEF ServeEpoch, Typed, TypeOK, Numbered
<1>4. CASE ServeDenied(c)
  <2>1. calls' \subseteq Call
        /\ \A d \in calls' : /\ d.id <= minted' /\ d.row <= minted'
                             /\ d.kind \in Handshakes => d.row # 0
    <3>1. "activated" \in Steps /\ "refused" \in Steps
      BY DEF Steps
    <3>2. minted' = minted
          /\ (calls' = calls \ {c} \/ \E s \in {"activated", "refused"} : calls' = Moved(c, s))
      BY <1>4 DEF ServeDenied, Answer
    <3>3. QED
      BY <3>1, <3>2, CallsStayTyped
  <2>2. RowsTyped'
    <3>1. "rejected" \in Status \ {"none"} /\ 0 \in Ids \cup {0}
      BY DEF Status
    <3>2. CASE row' = row
      BY <1>4, <3>2, TypedNow DEF ServeDenied, RowsTyped
    <3>3. CASE row' = WithStatus(j, row[j].id, "rejected", 0)
      BY <1>1, <1>4, <3>1, <3>3, StatusWriteTyped DEF ServeDenied
    <3>4. QED
      BY <1>4, <3>2, <3>3 DEF ServeDenied
  <2>3. QED
    BY <1>4, <2>1, <2>2, TypedNext DEF ServeDenied, Typed, TypeOK, Numbered
<1>5. QED
  BY <1>2, <1>3, <1>4

\* Hearing an answer keeps the types.
LEMMA HearTyped ==
  ASSUME Typed, NEW c \in calls, Hear(c)
  PROVE  Typed'
<1> DEFINE i == c.from
<1>1. /\ c \in Call /\ c.id \in Ids /\ i \in Instances /\ c.secret \in Ids
      /\ c.id <= minted /\ c.row \in Ids \cup {0} /\ i \in Instances
      /\ c.kind \in Handshakes => c.row \in Ids
      /\ minted' = minted /\ TypeOK
  BY TypedNow DEF Hear, Typed
<1>2. calls' \subseteq Call
      /\ \A d \in calls' : /\ d.id <= minted' /\ d.row <= minted'
                           /\ d.kind \in Handshakes => d.row # 0
  BY TypedNow DEF Hear
<1>3. {"active", "awaiting_approval", "needs_attention", "rejected"} \subseteq Status \ {"none"}
  BY DEF Status
<1>4. \A id : /\ WithoutRequest(i, id) \in [Instances -> Request]
              /\ \A j \in Instances :
                   \/ WithoutRequest(i, id)[j] = request[j]
                   \/ WithoutRequest(i, id)[j] = NoRequest
  BY <1>1, RequestDelete
<1>5. NoRequest.dir = "none"
  BY DEF NoRequest
<1>6. /\ request' \in [Instances -> Request]
      /\ \A j \in Instances : request'[j] = request[j] \/ request'[j] = NoRequest
  <2>1. request' \in {request, WithoutRequest(i, c.request)}
    BY DEF Hear, HearQueued, HearActivated, HearRefused, HearDenied
  <2>2. QED
    BY <1>4, <2>1 DEF Typed, TypeOK
<1>7. activated' \in [Instances -> SUBSET Ids]
  <2>1. \/ activated' = activated
        \/ c.kind \in Handshakes /\ StartActivation(i, c.row)
    BY DEF Hear, HearQueued, HearActivated, HearRefused, HearDenied, Activate,
           Handshakes
  <2>2. QED
    BY <1>1, <2>1 DEF StartActivation, Typed, TypeOK
<1>8. RowsTyped'
  <2>1. ASSUME NEW s \in Status \ {"none"}, NEW t \in Ids \cup {0}, NEW id,
               row' = WithStatus(i, id, s, t)
        PROVE  RowsTyped'
    BY <1>1, <2>1, StatusWriteTyped
  <2>2. CASE row' = row
    BY <1>1, <2>2, TypedNow DEF RowsTyped
  <2>3. CASE HearQueued(c)
    BY <1>1, <1>3, <2>1, <2>3 DEF HearQueued
  <2>4. CASE HearActivated(c)
    BY <1>1, <1>3, <2>1, <2>4 DEF HearActivated, Activate
  <2>5. CASE HearRefused(c)
    <3>1. CASE row' = WithoutRow(i, c.row)
      BY <1>1, <3>1, RowDelete, RowsStayTyped
    <3>2. QED
      BY <1>1, <1>3, <2>1, <2>2, <2>5, <3>1 DEF HearRefused
  <2>6. CASE HearDenied(c)
    <3> DEFINE denied == [id |-> c.id, status |-> "rejected", secret |-> c.secret,
                          token |-> 0, by |-> "denial"]
    <3>1. CASE row' = [row EXCEPT ![i] = denied]
      <4>1. denied \in Row /\ denied.status # "none" /\ denied.id \in Ids
            /\ denied.secret \in Ids /\ denied.id <= minted
        BY <1>1 DEF Row, Status, Creator
      <4>2. QED
        BY <1>1, <3>1, <4>1, TypedNow DEF RowsTyped
    <3>2. QED
      BY <1>1, <1>3, <2>1, <2>2, <2>6, <3>1 DEF HearDenied
  <2>7. QED
    BY <2>3, <2>4, <2>5, <2>6 DEF Hear
<1>9. QED
  BY <1>2, <1>5, <1>6, <1>7, <1>8, TypedNext DEF Hear, Typed, TypeOK, Numbered

\* The other steps keep the types.
LEMMA OtherStepTyped ==
  ASSUME Typed,
         \/ \E c \in calls : Abandon(c)
         \/ \E i \in Instances :
              \/ Restart(i) \/ Revoke(i) \/ RemoveRow(i) \/ StartTask(i) \/ EndTask(i)
              \/ \E id \in activated[i] : FanOut(i, id)
  PROVE  Typed'
<1>1. NoRequest \in Request /\ NoRequest.dir = "none" /\ NoRow \in Row /\ NoRow.id = 0
      /\ Idle \in Task /\ Idle.id = 0 /\ 0 <= minted
  BY PeeringAssumption
  DEF NoRequest, NoRow, Idle, Request, Row, Task, Status, Creator, Typed, TypeOK
<1>2. TypeOK /\ {"revoked", "unreachable", "needs_attention", "active"} \subseteq Status \ {"none"}
  BY DEF Typed, Status
<1>3. Upset => upsets' \in 0 .. MaxUpsets
  BY PeeringAssumption DEF Typed, TypeOK, Upset
<1>4. ASSUME NEW c \in calls, Abandon(c)
      PROVE  Typed'
  <2>1. {c} \in SUBSET calls /\ c.from \in Instances
    BY TypedNow
  <2>2. calls' \subseteq Call
        /\ \A d \in calls' : /\ d.id <= minted' /\ d.row <= minted'
                             /\ d.kind \in Handshakes => d.row # 0
    BY <1>4, <2>1, TypedNow, ForsakenCalls DEF Abandon
  <2>3. RowsTyped'
    <3>1. CASE row' = row
      BY <1>4, <3>1, TypedNow DEF RowsTyped, Abandon
    <3>2. CASE row' = WithoutRow(c.from, c.row)
      BY <1>2, <1>4, <2>1, <3>2, RowDelete, RowsStayTyped DEF Abandon
    <3>3. QED
      BY <1>4, <3>1, <3>2 DEF Abandon
  <2>4. QED
    BY <1>3, <1>4, <2>2, <2>3, TypedNext DEF Abandon, Typed, TypeOK, Numbered
<1>5. ASSUME NEW i \in Instances, Restart(i)
      PROVE  Typed'
  <2>1. {c \in calls : c.from = i} \in SUBSET calls
    OBVIOUS
  <2>2. calls' \subseteq Call
        /\ \A d \in calls' : /\ d.id <= minted' /\ d.row <= minted'
                             /\ d.kind \in Handshakes => d.row # 0
    BY <1>5, <2>1, TypedNow, ForsakenCalls DEF Restart
  <2>3. RowsTyped'
    BY <1>5, TypedNow DEF RowsTyped, Restart
  <2>4. worker' \in [Instances -> Task]
        /\ \A j \in Instances : worker'[j] = worker[j] \/ worker'[j] = Idle
    BY <1>1, <1>5 DEF Restart, Typed, TypeOK
  <2>5. QED
    BY <1>1, <1>3, <1>5, <2>2, <2>3, <2>4, TypedNext DEF Restart, Typed, TypeOK, Numbered
<1>6. ASSUME NEW i \in Instances, Revoke(i)
      PROVE  Typed'
  <2>1. RowsTyped'
    BY <1>2, <1>6, StatusWriteTyped DEF Revoke
  <2>2. QED
    BY <1>3, <1>6, <2>1, TypedNext DEF Revoke, Typed, TypeOK, Numbered
<1>7. ASSUME NEW i \in Instances, RemoveRow(i)
      PROVE  Typed'
  <2>1. RowsTyped'
    BY <1>1, <1>7, TypedNow DEF RemoveRow, RowsTyped
  <2>2. QED
    BY <1>3, <1>7, <2>1, TypedNext DEF RemoveRow, Typed, TypeOK, Numbered
<1>8. ASSUME NEW i \in Instances, StartTask(i)
      PROVE  Typed'
  <2>1. row[i].id \in Ids /\ row[i].id <= minted /\ row[i].id # 0
    BY <1>8, TypedNow DEF StartTask, RowsTyped, NoRow, Ids
  <2>2. PICK t \in {"relay", "probe"} :
          worker' = [worker EXCEPT ![i] = [task |-> t, id |-> row[i].id]]
    BY <1>8 DEF StartTask
  <2>3. worker' \in [Instances -> Task]
        /\ \A j \in Instances : /\ worker'[j].id <= minted
                                /\ worker'[j] # Idle => worker'[j].id # 0
    BY <2>1, <2>2, TypedNow DEF Typed, TypeOK, Task
  <2>4. RowsTyped'
    BY <1>8, TypedNow DEF StartTask, RowsTyped
  <2>5. QED
    BY <1>3, <1>8, <2>3, <2>4, TypedNext DEF StartTask, Typed, TypeOK, Numbered
<1>9. ASSUME NEW i \in Instances, EndTask(i)
      PROVE  Typed'
  <2>1. worker[i].id \in Ids
    BY <1>9, TypedNow DEF EndTask
  <2>2. worker' \in [Instances -> Task]
        /\ \A j \in Instances : worker'[j] = worker[j] \/ worker'[j] = Idle
    BY <1>1, <1>9 DEF EndTask, Typed, TypeOK
  <2>3. RowsTyped'
    <3>1. CASE row' = row
      BY <1>9, <3>1, TypedNow DEF EndTask, RowsTyped
    <3>2. ASSUME NEW s \in {"unreachable", "needs_attention", "active"},
                 row' = WithStatus(i, worker[i].id, s, 0)
          PROVE  RowsTyped'
      BY <1>2, <1>9, <3>2, StatusWriteTyped DEF EndTask
    <3>3. QED
      BY <1>9, <3>1, <3>2 DEF EndTask
  <2>4. activated' \in [Instances -> SUBSET Ids]
    BY <1>9, <2>1 DEF EndTask, StartActivation, Typed, TypeOK
  <2>5. QED
    BY <1>1, <1>9, <2>2, <2>3, <2>4, TypedNext DEF EndTask, Typed, TypeOK, Numbered
<1>10. ASSUME NEW i \in Instances, NEW id \in activated[i], FanOut(i, id)
       PROVE  Typed'
  <2>1. activated' \in [Instances -> SUBSET Ids]
    BY <1>10 DEF FanOut, Typed, TypeOK
  <2>2. /\ request' \in [Instances -> Request]
        /\ \A j \in Instances : request'[j] = request[j] \/ request'[j] = NoRequest
    BY <1>1, <1>10 DEF FanOut, Typed, TypeOK
  <2>3. RowsTyped'
    BY <1>10, TypedNow DEF FanOut, RowsTyped
  <2>4. QED
    BY <1>1, <1>10, <2>1, <2>2, <2>3, TypedNext DEF FanOut, Typed, TypeOK, Numbered
<1>11. QED
  BY <1>4, <1>5, <1>6, <1>7, <1>8, <1>9, <1>10

\* Rows, requests, calls and tasks keep their types; every row has a secret, and
\* every number in use was minted.
THEOREM TypeCorrect == Spec => [](TypeOK /\ Numbered)
<1>1. Init => Typed
  <2> SUFFICES ASSUME Init
               PROVE  Typed
    OBVIOUS
  <2>1. NoRow \in Row /\ NoRow.status = "none" /\ NoRow.id = 0
    BY DEF NoRow, Row, Status, Creator
  <2>2. NoRequest \in Request /\ NoRequest.dir = "none"
    BY DEF NoRequest, Request
  <2>3. Idle \in Task /\ Idle.id = 0
    BY DEF Idle, Task
  <2>4. 0 \in 0 .. MaxMints /\ 0 \in 0 .. MaxUpsets
    BY PeeringAssumption
  <2>5. TypeOK
    BY <2>1, <2>2, <2>3, <2>4 DEF Init, TypeOK
  <2>6. Numbered
    BY <2>1, <2>2, <2>3 DEF Init, Numbered
  <2>7. QED
    BY <2>5, <2>6 DEF Typed
<1>2. Typed /\ [Next]_vars => Typed'
  <2> SUFFICES ASSUME Typed, [Next]_vars
               PROVE  Typed'
    OBVIOUS
  <2>1. CASE UNCHANGED vars
    BY <2>1 DEF vars, Typed, TypeOK, Numbered
  <2>2. CASE Next
    BY <2>2, OperationTyped, ServeTyped, HearTyped, OtherStepTyped DEF Next
  <2>3. QED
    BY <2>1, <2>2
<1>3. QED
  BY <1>1, <1>2, PTL DEF Spec, Typed

-----------------------------------------------------------------------------
(* Secrets.                                                                *)

\* A step that posts no handshake and mints no secret: rows are kept (up to status
\* and token), removed, or given a shared secret; none becomes pending; those
\* that become active hold a shared secret; so does what the worker picks.
LEMMA SecretsKept ==
  ASSUME SecretsGenuine,
         \A j \in Instances : known[j] \subseteq known'[j],
         \A j \in Instances :
           /\ \/ row'[j].status = "none"
              \/ /\ row[j].status # "none" /\ row'[j].id = row[j].id
                 /\ row'[j].secret = row[j].secret
              \/ row'[j].secret \in known'[Other(j)]
           /\ row'[j].status = "pending" => row'[j] = row[j]
           /\ row'[j].status \in {"active", "unreachable"}
                => row'[j].secret \in known'[Other(j)]
           /\ request'[j].dir = "inbound" => request'[j].secret \in known'[Other(j)]
           /\ \/ worker'[j] = worker[j]
              \/ worker'[j] = Idle
              \/ /\ worker'[j].id = row'[j].id
                 /\ row'[j].secret \in known'[Other(j)],
         \A c \in calls' : \E d \in calls :
           /\ c.from = d.from /\ c.kind = d.kind /\ c.row = d.row
           /\ c.secret = d.secret /\ c.from \in Instances
           /\ c.kind \in Handshakes /\ c.step \in Granted
                => d.step \in Granted \/ c.secret \in known'[Other(c.from)]
  PROVE  SecretsGenuine'
<1> USE DEF SharedWith
<1>1. \A j \in Instances : known[Other(j)] \subseteq known'[Other(j)]
  BY OtherSide
<1>2. RowsGenuine' /\ RequestsGenuine'
  BY <1>1 DEF SecretsGenuine, RowsGenuine, RequestsGenuine
<1>3. CallsGenuine'
  <2> SUFFICES ASSUME NEW c \in calls'
               PROVE  /\ c.kind \in Handshakes =>
                           /\ c.secret \in known'[c.from]
                           /\ c.step \in Granted => c.secret \in known'[Other(c.from)]
                           /\ row'[c.from].status # "none" /\ row'[c.from].id = c.row
                                => \/ row'[c.from].secret = c.secret
                                   \/ row'[c.from].secret \in known'[Other(c.from)]
                      /\ c.kind = "deny" => c.secret \in known'[Other(c.from)]
    BY DEF CallsGenuine, Holds
  <2>1. PICK d \in calls :
           /\ c.from = d.from /\ c.kind = d.kind /\ c.row = d.row
           /\ c.secret = d.secret /\ c.from \in Instances
           /\ c.kind \in Handshakes /\ c.step \in Granted
                => d.step \in Granted \/ c.secret \in known'[Other(c.from)]
    OBVIOUS
  <2>2. /\ d.kind \in Handshakes =>
             /\ d.secret \in known[d.from]
             /\ d.step \in Granted => SharedWith(d.from, d.secret)
             /\ Holds(d.from, d.row, d.secret)
        /\ d.kind = "deny" => SharedWith(d.from, d.secret)
    BY DEF SecretsGenuine, CallsGenuine
  <2>3. QED
    BY <1>1, <2>1, <2>2 DEF Holds
<1>4. WorkerGenuine'
  BY <1>1 DEF SecretsGenuine, WorkerGenuine
<1>5. QED
  BY <1>2, <1>3, <1>4 DEF SecretsGenuine

\* A new pending row, with or without a handshake that posts its secret.
LEMMA NewRowGenuine ==
  ASSUME Typed, SecretsGenuine, NEW i \in Instances, NEW by \in Creator,
         Mint, Learn(i, minted + 1),
         row' = [row EXCEPT ![i] = PendingRow(minted + 1, by)],
         UNCHANGED <<request, worker>>,
         \A c \in calls' :
           \/ c \in calls
           \/ /\ c.kind \in Handshakes /\ c.from = i /\ c.row = minted + 1
              /\ c.secret = minted + 1 /\ c.step = "sent"
  PROVE  SecretsGenuine'
<1> USE DEF SharedWith
<1> DEFINE n == minted + 1
<1>1. /\ \A m \in Ids \cup {0} : m <= minted => m # n
      /\ \A j \in Instances : known[j] \subseteq known'[j] /\ Other(j) \in Instances
      /\ n \in known'[i]
  BY MintFresh, OtherSide DEF Learn, Typed, TypeOK
<1>2. /\ row'[i].id = n /\ row'[i].secret = n /\ row'[i].status = "pending"
      /\ \A j \in Instances \ {i} : row'[j] = row[j]
  BY TypedNow DEF PendingRow, Typed, TypeOK
<1>3. RowsGenuine' /\ RequestsGenuine'
  BY <1>1, <1>2 DEF SecretsGenuine, RowsGenuine, RequestsGenuine
<1>4. CallsGenuine'
  <2> SUFFICES ASSUME NEW c \in calls'
               PROVE  /\ c.kind \in Handshakes =>
                           /\ c.secret \in known'[c.from]
                           /\ c.step \in Granted
                                => c.secret \in known'[Other(c.from)]
                           /\ row'[c.from].status # "none" /\ row'[c.from].id = c.row
                                => \/ row'[c.from].secret = c.secret
                                   \/ row'[c.from].secret \in known'[Other(c.from)]
                      /\ c.kind = "deny" => c.secret \in known'[Other(c.from)]
    BY DEF CallsGenuine, Holds
  <2>1. CASE c \in calls
    <3>1. c.from \in Instances /\ c.row # n
      BY <1>1, <2>1, TypedNow
    <3>2. QED
      BY <1>1, <1>2, <2>1, <3>1 DEF SecretsGenuine, CallsGenuine, Holds
  <2>2. CASE c \notin calls
    BY <1>1, <1>2, <2>2 DEF Granted, Handshakes
  <2>3. QED
    BY <2>1, <2>2
<1>5. WorkerGenuine'
  <2>1. \A j \in Instances : worker[j].id # n
    BY <1>1, TypedNow
  <2>2. QED
    BY <1>1, <1>2, <2>1 DEF SecretsGenuine, WorkerGenuine
<1>6. QED
  BY <1>3, <1>4, <1>5 DEF SecretsGenuine

\* A handshake of a local operation.
LEMMA HandshakeGenuine ==
  ASSUME Typed, SecretsGenuine, NEW i \in Instances, NEW kind \in Handshakes,
         NEW by \in Creator, NEW token, NEW req,
         Handshake(i, kind, by, token, req), UNCHANGED <<request, worker>>
  PROVE  SecretsGenuine'
<1>1. \A c \in calls' :
           \/ c \in calls
           \/ /\ c.kind \in Handshakes /\ c.from = i /\ c.row = minted + 1
              /\ c.secret = minted + 1 /\ c.step = "sent"
  BY DEF Handshake
<1>2. QED
  BY <1>1, NewRowGenuine DEF Handshake

\* The local operations.
LEMMA OperationGenuine ==
  ASSUME Typed, SecretsGenuine, NEW i \in Instances,
         \/ Initiate(i) \/ CreatePlaceholder(i) \/ EnsureNewPeer(i) \/ EnsurePending(i)
         \/ AskAdmin(i) \/ ApproveInbound(i) \/ ApproveOutbound(i)
         \/ DenyInbound(i) \/ DenyOutbound(i)
  PROVE  SecretsGenuine'
<1> USE DEF SharedWith
<1>1. ASSUME UNCHANGED <<row, worker, known>>,
             \A j \in Instances :
               request'[j].dir = "inbound" => request'[j].secret \in known[Other(j)],
             \A c \in calls' :
               \/ c \in calls
               \/ /\ c.kind \in Handshakes /\ c.from = i /\ c.row = row[i].id
                  /\ c.secret = row[i].secret /\ c.secret \in known[i]
                  /\ c.step = "sent"
               \/ c.kind = "deny" /\ c.from = i /\ c.secret \in known[Other(i)]
      PROVE  SecretsGenuine'
  <2>1. RowsGenuine' /\ RequestsGenuine' /\ WorkerGenuine'
    BY <1>1 DEF SecretsGenuine, RowsGenuine, RequestsGenuine, WorkerGenuine
  <2>2. CallsGenuine'
    BY <1>1 DEF SecretsGenuine, CallsGenuine, Holds, Granted, Handshakes
  <2>3. QED
    BY <2>1, <2>2 DEF SecretsGenuine
<1>2. NoRequest.dir = "none"
  BY DEF NoRequest
<1>3. CASE Initiate(i)
  BY <1>3, HandshakeGenuine DEF Initiate, Handshakes, Creator
<1>4. CASE EnsureNewPeer(i)
  BY <1>4, HandshakeGenuine DEF EnsureNewPeer, Handshakes, Creator
<1>5. CASE ApproveOutbound(i)
  BY <1>5, HandshakeGenuine DEF ApproveOutbound, Handshakes, Creator
<1>6. CASE CreatePlaceholder(i)
  BY <1>6, NewRowGenuine DEF CreatePlaceholder, Creator
<1>7. CASE EnsurePending(i)
  <2>1. row[i].secret \in known[i]
    BY <1>7 DEF EnsurePending, SecretsGenuine, RowsGenuine
  <2>2. \A c \in calls' :
          \/ c \in calls
          \/ /\ c.kind \in Handshakes /\ c.from = i /\ c.row = row[i].id
             /\ c.secret = row[i].secret /\ c.step = "sent"
    BY <1>7 DEF EnsurePending, Handshakes
  <2>3. QED
    BY <1>1, <1>7, <2>1, <2>2 DEF EnsurePending, SecretsGenuine, RequestsGenuine
<1>8. CASE AskAdmin(i)
  <2>1. \A j \in Instances : request'[j] = request[j] \/ request'[j].dir = "outbound"
    BY <1>8 DEF AskAdmin, Typed, TypeOK, NoRequest
  <2>2. QED
    BY <1>1, <1>8, <2>1 DEF AskAdmin, SecretsGenuine, RequestsGenuine
<1>9. CASE ApproveInbound(i)
  <2>1. CASE request' = [request EXCEPT ![i] = NoRequest]
             /\ UNCHANGED <<row, calls, minted, known>>
    <3>1. \A j \in Instances : request'[j] = request[j] \/ request'[j].dir = "none"
      BY <1>2, <2>1 DEF Typed, TypeOK
    <3>2. QED
      BY <1>1, <1>9, <2>1, <3>1 DEF ApproveInbound, SecretsGenuine, RequestsGenuine
  <2>2. CASE Handshake(i, "approve_inbound", "admin", request[i].token, request[i].id)
             /\ UNCHANGED request
    BY <1>9, <2>2, HandshakeGenuine DEF ApproveInbound, Handshakes, Creator
  <2>3. QED
    BY <1>9, <2>1, <2>2 DEF ApproveInbound
<1>10. CASE DenyInbound(i)
  <2>1. request[i].secret \in known[Other(i)]
    BY <1>10 DEF DenyInbound, SecretsGenuine, RequestsGenuine
  <2>2. \A c \in calls' :
          c \in calls \/ (c.kind = "deny" /\ c.from = i /\ c.secret = request[i].secret)
    BY <1>10 DEF DenyInbound
  <2>3. QED
    BY <1>1, <1>10, <2>1, <2>2 DEF DenyInbound, SecretsGenuine, RequestsGenuine
<1>11. CASE DenyOutbound(i)
  <2>1. \A j \in Instances : request'[j] = request[j] \/ request'[j].dir = "none"
    BY <1>2, <1>11 DEF DenyOutbound, Typed, TypeOK
  <2>2. QED
    BY <1>1, <1>11, <2>1 DEF DenyOutbound, SecretsGenuine, RequestsGenuine
<1>12. QED
  BY <1>3, <1>4, <1>5, <1>6, <1>7, <1>8, <1>9, <1>10, <1>11

\* A call that moves to a step, in the form SecretsKept asks for.
LEMMA AnsweredCalls ==
  ASSUME Typed, NEW c \in calls, NEW s \in Steps,
         calls' \in {calls \ {c}, Moved(c, s)},
         c.kind \in Handshakes /\ s \in Granted
           => c.step \in Granted \/ c.secret \in known'[Other(c.from)]
  PROVE  \A d \in calls' : \E e \in calls :
           /\ d.from = e.from /\ d.kind = e.kind /\ d.row = e.row
           /\ d.secret = e.secret /\ d.from \in Instances
           /\ d.kind \in Handshakes /\ d.step \in Granted
                => e.step \in Granted \/ d.secret \in known'[Other(d.from)]
<1> DEFINE moved == [c EXCEPT !.step = s]
<1>1. /\ moved.from = c.from /\ moved.kind = c.kind /\ moved.row = c.row
      /\ moved.secret = c.secret /\ moved.step = s
  BY TypedNow DEF Call
<1>2. \A d \in calls' : d \in calls \/ d = moved
  BY DEF Moved
<1>3. \A d \in calls : d.from \in Instances
  BY TypedNow
<1>4. ASSUME NEW d \in calls'
      PROVE  \E e \in calls :
           /\ d.from = e.from /\ d.kind = e.kind /\ d.row = e.row
           /\ d.secret = e.secret /\ d.from \in Instances
           /\ d.kind \in Handshakes /\ d.step \in Granted
                => e.step \in Granted \/ d.secret \in known'[Other(d.from)]
  <2>1. CASE d \in calls
    BY <1>3, <2>1
  <2>2. CASE d = moved
    BY <1>1, <1>3, <2>2
  <2>3. QED
    BY <1>2, <2>1, <2>2
<1>5. QED
  BY <1>4

\* Serving a call.
LEMMA ServeGenuine ==
  ASSUME Typed, SecretsGenuine, NEW c \in calls,
         ServeAccept(c) \/ ServeEpoch(c) \/ ServeDenied(c)
  PROVE  SecretsGenuine'
<1> DEFINE j == Other(c.from)
<1>1. /\ c.from \in Instances /\ j \in Instances /\ Other(j) = c.from /\ TypeOK
      /\ c.kind \in Handshakes => c.secret \in known[c.from]
      /\ c.secret \in Ids
  BY TypedNow, OtherSide DEF Typed, SecretsGenuine, CallsGenuine
<1>2. \A i \in Instances :
        /\ row[i].status \in {"active", "unreachable"} => row[i].secret \in known[Other(i)]
        /\ request[i].dir = "inbound" => request[i].secret \in known[Other(i)]
  BY DEF SecretsGenuine, RowsGenuine, RequestsGenuine, SharedWith
<1>3. CASE ServeAccept(c)
  <2> DEFINE verdict == Verdict(j, c)
  <2>1. verdict \in Steps /\ (verdict \in Granted => verdict = "activated")
    BY DEF Verdict, Steps, Granted
  <2>2. calls' \in {calls \ {c}, Moved(c, verdict)} /\ UNCHANGED worker
        /\ c.kind \in Handshakes
    BY <1>3 DEF ServeAccept, Answer
  <2>3. CASE verdict = "activated" /\ Adopt(j, c)
    <3>1. /\ \A i \in Instances : known[i] \subseteq known'[i]
          /\ c.secret \in known'[j] /\ c.secret \in known'[Other(j)]
      BY <1>1, <2>2, <2>3 DEF Adopt, Learn, Typed, TypeOK
    <3>2. AdoptedRow(j, c).secret = c.secret /\ AdoptedRow(j, c).status = "active"
      BY <1>1 DEF AdoptedRow, TypeOK, Row
    <3>3. /\ row'[j] = AdoptedRow(j, c)
          /\ \A i \in Instances \ {j} : row'[i] = row[i]
      BY <1>1, <2>3 DEF Adopt, TypeOK
    <3>4. \A i \in Instances : request'[i] = request[i] \/ request'[i].dir = "none"
      BY <1>1, <2>3 DEF Adopt, TypeOK, NoRequest
    <3>5. \A i \in Instances : known[Other(i)] \subseteq known'[Other(i)]
      BY <3>1, OtherSide
    <3>6. \A d \in calls' : \E e \in calls :
           /\ d.from = e.from /\ d.kind = e.kind /\ d.row = e.row
           /\ d.secret = e.secret /\ d.from \in Instances
           /\ d.kind \in Handshakes /\ d.step \in Granted
                => e.step \in Granted \/ d.secret \in known'[Other(d.from)]
      BY <2>1, <2>2, <3>1, AnsweredCalls
    <3>7. \A i \in Instances :
           /\ \/ row'[i].status = "none"
              \/ /\ row[i].status # "none" /\ row'[i].id = row[i].id
                 /\ row'[i].secret = row[i].secret
              \/ row'[i].secret \in known'[Other(i)]
           /\ row'[i].status = "pending" => row'[i] = row[i]
           /\ row'[i].status \in {"active", "unreachable"}
                => row'[i].secret \in known'[Other(i)]
           /\ request'[i].dir = "inbound" => request'[i].secret \in known'[Other(i)]
           /\ worker'[i] = worker[i]
      BY <1>2, <2>2, <3>1, <3>2, <3>3, <3>4, <3>5
    <3>8. QED
      BY <3>1, <3>6, <3>7, SecretsKept
  <2>4. CASE verdict # "activated" /\ UNCHANGED <<row, known>>
    <3>1. \A i \in Instances :
            request'[i].dir = "inbound" => request'[i].secret \in known[Other(i)]
      <4>1. CASE QueueApprovalRequest(j, c)
        <5>1. request'[j].secret = c.secret
              /\ \A i \in Instances \ {j} : request'[i] = request[i]
          BY <1>1, <4>1 DEF QueueApprovalRequest, TypeOK, Request
        <5>2. QED
          BY <1>1, <1>2, <2>2, <5>1
      <4>2. CASE request' = request
        BY <1>2, <4>2
      <4>3. QED
        BY <1>3, <2>4, <4>1, <4>2 DEF ServeAccept
    <3>2. \A d \in calls' : \E e \in calls :
           /\ d.from = e.from /\ d.kind = e.kind /\ d.row = e.row
           /\ d.secret = e.secret /\ d.from \in Instances
           /\ d.kind \in Handshakes /\ d.step \in Granted
                => e.step \in Granted \/ d.secret \in known'[Other(d.from)]
      BY <2>1, <2>2, <2>4, AnsweredCalls
    <3>3. QED
      BY <1>2, <2>2, <2>4, <3>1, <3>2, SecretsKept
  <2>5. QED
    BY <1>3, <2>3, <2>4 DEF ServeAccept
<1>4. CASE ServeEpoch(c)
  <2>1. c.step \in Granted /\ UNCHANGED <<row, request, worker, known>>
        /\ (calls' = Moved(c, "proved") \/ calls' = Moved(c, "unproved"))
    BY <1>4 DEF ServeEpoch, Granted
  <2>2. "proved" \in Steps /\ "unproved" \in Steps
    BY DEF Steps
  <2>3. \A d \in calls' : \E e \in calls :
           /\ d.from = e.from /\ d.kind = e.kind /\ d.row = e.row
           /\ d.secret = e.secret /\ d.from \in Instances
           /\ d.kind \in Handshakes /\ d.step \in Granted
                => e.step \in Granted \/ d.secret \in known'[Other(d.from)]
    BY <2>1, <2>2, AnsweredCalls
  <2>4. QED
    BY <1>2, <2>1, <2>3, SecretsKept
<1>5. CASE ServeDenied(c)
  <2>1. UNCHANGED <<request, worker, known>> /\ c.kind \notin Handshakes
        /\ \E s \in {"activated", "refused"} : calls' \in {calls \ {c}, Moved(c, s)}
    BY <1>5 DEF ServeDenied, Answer, Handshakes
  <2>2. "activated" \in Steps /\ "refused" \in Steps
    BY DEF Steps
  <2>3. \A d \in calls' : \E e \in calls :
           /\ d.from = e.from /\ d.kind = e.kind /\ d.row = e.row
           /\ d.secret = e.secret /\ d.from \in Instances
           /\ d.kind \in Handshakes /\ d.step \in Granted
                => e.step \in Granted \/ d.secret \in known'[Other(d.from)]
    BY <2>1, <2>2, AnsweredCalls
  <2>4. \A i \in Instances :
          /\ row'[i].id = row[i].id /\ row'[i].secret = row[i].secret
          /\ row'[i] = row[i] \/ (row[i].status # "none" /\ row'[i].status = "rejected")
    <3>1. "rejected" \in Status \ {"none"} /\ 0 \in Ids \cup {0}
      BY DEF Status
    <3>2. row' = row \/ row' = WithStatus(j, row[j].id, "rejected", 0)
      BY <1>5 DEF ServeDenied
    <3>3. CASE row' = WithStatus(j, row[j].id, "rejected", 0)
      BY <1>1, <3>1, <3>3, StatusWritten
    <3>4. QED
      BY <3>2, <3>3
  <2>5. QED
    BY <1>2, <2>1, <2>3, <2>4, SecretsKept
<1>6. QED
  BY <1>3, <1>4, <1>5

\* A write of the status, by id, of a row that holds a shared secret if the status
\* says so.
LEMMA StatusWriteGenuine ==
  ASSUME Typed, SecretsGenuine, NEW i \in Instances, NEW id,
         NEW s \in Status \ {"none", "pending"}, NEW t \in Ids \cup {0},
         row' = WithStatus(i, id, s, t),
         s \in {"active", "unreachable"} /\ row[i].status # "none" /\ row[i].id = id
           => row[i].secret \in known[Other(i)]
  PROVE  \A j \in Instances :
           /\ row'[j].id = row[j].id /\ row'[j].secret = row[j].secret
           /\ row'[j] = row[j] \/ row[j].status # "none"
           /\ row'[j].status = "pending" => row'[j] = row[j]
           /\ row'[j].status \in {"active", "unreachable"}
                => row'[j].secret \in known[Other(j)]
<1>1. \A j \in Instances :
        row[j].status \in {"active", "unreachable"} => row[j].secret \in known[Other(j)]
  BY DEF SecretsGenuine, RowsGenuine, SharedWith
<1>2. TypeOK /\ s \in Status \ {"none"}
  BY DEF Typed
<1>3. \A j \in Instances :
        /\ row'[j].id = row[j].id /\ row'[j].secret = row[j].secret
        /\ \/ row'[j] = row[j]
           \/ /\ j = i /\ row[i].status # "none" /\ row[i].id = id
              /\ row'[j].status = s
  BY <1>2, StatusWritten
<1>4. QED
  BY <1>1, <1>3

\* Hearing an answer.
LEMMA HearGenuine ==
  ASSUME Typed, SecretsGenuine, NEW c \in calls, Hear(c)
  PROVE  SecretsGenuine'
<1> DEFINE i == c.from
<1>1. /\ i \in Instances /\ c.id \in Ids /\ TypeOK
      /\ UNCHANGED <<worker, known>> /\ calls' \subseteq calls
      /\ \A d \in calls : d.from \in Instances
  BY TypedNow DEF Hear, Typed
<1>2. {"active", "awaiting_approval", "needs_attention", "rejected"}
        \subseteq Status \ {"none", "pending"}
  BY DEF Status
<1>3. \A j \in Instances :
        /\ row[j].status \in {"active", "unreachable"} => row[j].secret \in known[Other(j)]
        /\ request[j].dir = "inbound" => request[j].secret \in known[Other(j)]
  BY DEF SecretsGenuine, RowsGenuine, RequestsGenuine, SharedWith
<1>4. \A j \in Instances : request'[j] = request[j] \/ request'[j].dir = "none"
  <2>1. request' \in {request, WithoutRequest(i, c.request)}
    BY DEF Hear, HearQueued, HearActivated, HearRefused, HearDenied
  <2>2. CASE request' = WithoutRequest(i, c.request)
    BY <1>1, <2>2, RequestDelete DEF NoRequest
  <2>3. QED
    BY <2>1, <2>2
<1>5. ASSUME \A j \in Instances :
               /\ \/ row'[j].status = "none"
                  \/ /\ row[j].status # "none" /\ row'[j].id = row[j].id
                     /\ row'[j].secret = row[j].secret
                  \/ row'[j].secret \in known[Other(j)]
                  \/ row'[j] = row[j]
               /\ row'[j].status = "pending" => row'[j] = row[j]
               /\ row'[j].status \in {"active", "unreachable"}
                    => row'[j].secret \in known[Other(j)]
      PROVE  SecretsGenuine'
  BY <1>1, <1>3, <1>4, <1>5, SecretsKept
<1>6. ASSUME NEW s \in Status \ {"none", "pending"}, NEW t \in Ids \cup {0}, NEW id,
             row' = WithStatus(i, id, s, t),
             s \in {"active", "unreachable"} /\ row[i].status # "none" /\ row[i].id = id
               => row[i].secret \in known[Other(i)]
      PROVE  SecretsGenuine'
  BY <1>1, <1>5, <1>6, StatusWriteGenuine
<1>7. CASE row' = row
  BY <1>3, <1>5, <1>7
<1>8. CASE HearQueued(c)
  BY <1>1, <1>2, <1>6, <1>8 DEF HearQueued
<1>9. CASE HearActivated(c)
  <2>1. CASE row' = WithStatus(i, c.row, "active", 0) /\ c.kind \in Handshakes
             /\ c.step \in Granted
    <3>1. row[i].status # "none" /\ row[i].id = c.row => row[i].secret \in known[Other(i)]
      BY <2>1 DEF SecretsGenuine, CallsGenuine, Holds, SharedWith
    <3>2. QED
      BY <1>2, <1>6, <2>1, <3>1
  <2>2. CASE row' = WithStatus(i, c.row, "needs_attention", 0)
    BY <1>2, <1>6, <2>2
  <2>3. QED
    BY <1>9, <2>1, <2>2 DEF HearActivated, Activate, Handshakes, Granted
<1>10. CASE HearRefused(c)
  <2>1. CASE row' = WithoutRow(i, c.row)
    <3>1. \A j \in Instances : row'[j] = row[j] \/ row'[j].status = "none"
      BY <1>1, <2>1, RowDelete DEF NoRow
    <3>2. QED
      BY <1>3, <1>5, <3>1
  <2>2. CASE row' = WithStatus(i, c.row, "rejected", 0)
    BY <1>2, <1>6, <2>2
  <2>3. QED
    BY <1>7, <1>10, <2>1, <2>2 DEF HearRefused
<1>11. CASE HearDenied(c)
  <2> DEFINE denied == [id |-> c.id, status |-> "rejected", secret |-> c.secret,
                        token |-> 0, by |-> "denial"]
  <2>1. CASE row' = [row EXCEPT ![i] = denied]
    <3>1. c.secret \in known[Other(i)]
      BY <1>11 DEF HearDenied, SecretsGenuine, CallsGenuine, SharedWith
    <3>2. /\ row'[i].secret = c.secret /\ row'[i].status = "rejected"
          /\ \A j \in Instances \ {i} : row'[j] = row[j]
      BY <1>1, <2>1 DEF TypeOK
    <3>3. QED
      BY <1>1, <1>3, <1>5, <3>1, <3>2
  <2>2. CASE row' = WithStatus(i, row[i].id, "rejected", 0)
    BY <1>2, <1>6, <2>2
  <2>3. QED
    BY <1>7, <1>11, <2>1, <2>2 DEF HearDenied
<1>12. QED
  BY <1>8, <1>9, <1>10, <1>11 DEF Hear

\* The other steps.
LEMMA OtherStepGenuine ==
  ASSUME Typed, SecretsGenuine,
         \/ \E c \in calls : Abandon(c)
         \/ \E i \in Instances :
              \/ Restart(i) \/ Revoke(i) \/ RemoveRow(i) \/ StartTask(i) \/ EndTask(i)
              \/ \E id \in activated[i] : FanOut(i, id)
  PROVE  SecretsGenuine'
<1>1. TypeOK /\ \A d \in calls : d \in Call /\ d.from \in Instances
  BY TypedNow DEF Typed
<1>2. {"revoked", "unreachable", "needs_attention", "active"}
        \subseteq Status \ {"none", "pending"}
  BY DEF Status
<1>3. \A j \in Instances :
        /\ row[j].status \in {"active", "unreachable"} => row[j].secret \in known[Other(j)]
        /\ request[j].dir = "inbound" => request[j].secret \in known[Other(j)]
  BY DEF SecretsGenuine, RowsGenuine, RequestsGenuine, SharedWith
<1>4. ASSUME UNCHANGED known,
             \A j \in Instances :
               /\ \/ row'[j].status = "none"
                  \/ /\ row'[j].id = row[j].id /\ row'[j].secret = row[j].secret
                     /\ row[j].status # "none"
                  \/ row'[j] = row[j]
               /\ row'[j].status = "pending" => row'[j] = row[j]
               /\ row'[j].status \in {"active", "unreachable"}
                    => row'[j].secret \in known[Other(j)]
               /\ request'[j] = request[j] \/ request'[j].dir = "none"
               /\ \/ worker'[j] = worker[j]
                  \/ worker'[j] = Idle
                  \/ /\ worker'[j].id = row'[j].id
                     /\ row'[j].secret \in known[Other(j)],
             \A c \in calls' : \E d \in calls :
               /\ c.from = d.from /\ c.kind = d.kind
               /\ c.row = d.row /\ c.secret = d.secret
               /\ c.step = d.step \/ c.step = "abandoned"
      PROVE  SecretsGenuine'
  <2>1. \A c \in calls' : \E d \in calls :
           /\ c.from = d.from /\ c.kind = d.kind /\ c.row = d.row
           /\ c.secret = d.secret /\ c.from \in Instances
           /\ c.kind \in Handshakes /\ c.step \in Granted
                => d.step \in Granted \/ c.secret \in known'[Other(c.from)]
    BY <1>1, <1>4 DEF Granted
  <2>2. QED
    BY <1>3, <1>4, <2>1, SecretsKept
<1>5. NoRow.status = "none" /\ NoRequest.dir = "none"
  BY DEF NoRow, NoRequest
<1>6. ASSUME NEW c \in calls, Abandon(c)
      PROVE  SecretsGenuine'
  <2>1. \A j \in Instances : row'[j] = row[j] \/ row'[j] = NoRow
    <3>1. CASE row' = WithoutRow(c.from, c.row)
      BY <1>1, <3>1, RowDelete
    <3>2. QED
      BY <1>6, <3>1 DEF Abandon
  <2>2. {c} \in SUBSET calls /\ calls \subseteq Call
    BY <1>1
  <2>3. calls' = Forsaken({c}) /\ UNCHANGED <<request, worker, known>>
    BY <1>6 DEF Abandon
  <2>4. QED
    BY <1>3, <1>4, <1>5, <2>1, <2>2, <2>3, ForsakenCalls
<1>7. ASSUME NEW i \in Instances, Restart(i)
      PROVE  SecretsGenuine'
  <2>1. {c \in calls : c.from = i} \in SUBSET calls /\ calls \subseteq Call
    BY <1>1
  <2>2. UNCHANGED <<row, request, known>>
        /\ \A j \in Instances : worker'[j] = worker[j] \/ worker'[j] = Idle
    BY <1>1, <1>7 DEF Restart, TypeOK
  <2>3. \A c \in calls' : \E d \in calls :
               /\ c.from = d.from /\ c.kind = d.kind
               /\ c.row = d.row /\ c.secret = d.secret
               /\ c.step = d.step \/ c.step = "abandoned"
    BY <1>7, <2>1, ForsakenCalls DEF Restart
  <2>4. QED
    BY <1>3, <1>4, <2>2, <2>3
<1>8. ASSUME NEW i \in Instances, Revoke(i)
      PROVE  SecretsGenuine'
  <2>1. row' = WithStatus(i, row[i].id, "revoked", 0)
        /\ UNCHANGED <<request, calls, worker, known>>
    BY <1>8 DEF Revoke
  <2>2. \A j \in Instances :
           /\ row'[j].id = row[j].id /\ row'[j].secret = row[j].secret
           /\ row'[j] = row[j] \/ row[j].status # "none"
           /\ row'[j].status = "pending" => row'[j] = row[j]
           /\ row'[j].status \in {"active", "unreachable"}
                => row'[j].secret \in known[Other(j)]
    BY <1>2, <2>1, StatusWriteGenuine
  <2>3. QED
    BY <1>4, <2>1, <2>2
<1>9. ASSUME NEW i \in Instances, RemoveRow(i)
      PROVE  SecretsGenuine'
  <2>1. UNCHANGED <<request, calls, worker, known>>
        /\ \A j \in Instances : row'[j] = row[j] \/ row'[j] = NoRow
    BY <1>1, <1>9 DEF RemoveRow, TypeOK
  <2>2. QED
    BY <1>3, <1>4, <1>5, <2>1
<1>10. ASSUME NEW i \in Instances, StartTask(i)
       PROVE  SecretsGenuine'
  <2>1. UNCHANGED <<row, request, calls, known>>
        /\ row[i].status \in {"active", "unreachable"}
    BY <1>10 DEF StartTask
  <2>2. \A j \in Instances :
          worker'[j] = worker[j] \/ (j = i /\ worker'[j].id = row[j].id)
    BY <1>1, <1>10 DEF StartTask, TypeOK
  <2>3. QED
    BY <1>3, <1>4, <2>1, <2>2
<1>11. ASSUME NEW i \in Instances, EndTask(i)
       PROVE  SecretsGenuine'
  <2>1. UNCHANGED <<request, calls, known>>
        /\ \A j \in Instances : worker'[j] = worker[j] \/ worker'[j] = Idle
    BY <1>1, <1>11 DEF EndTask, TypeOK
  <2>2. row[i].status # "none" /\ row[i].id = worker[i].id
          => row[i].secret \in known[Other(i)]
    BY <1>11 DEF EndTask, SecretsGenuine, WorkerGenuine, SharedWith
  <2>3. CASE row' = row
    BY <1>3, <1>4, <2>1, <2>3
  <2>4. ASSUME NEW s \in {"unreachable", "needs_attention", "active"},
               row' = WithStatus(i, worker[i].id, s, 0)
        PROVE  SecretsGenuine'
    <3>1. \A j \in Instances :
           /\ row'[j].id = row[j].id /\ row'[j].secret = row[j].secret
           /\ row'[j] = row[j] \/ row[j].status # "none"
           /\ row'[j].status = "pending" => row'[j] = row[j]
           /\ row'[j].status \in {"active", "unreachable"}
                => row'[j].secret \in known[Other(j)]
      BY <1>2, <2>2, <2>4, StatusWriteGenuine
    <3>2. QED
      BY <1>4, <2>1, <3>1
  <2>5. QED
    BY <1>11, <2>3, <2>4 DEF EndTask
<1>12. ASSUME NEW i \in Instances, NEW id \in activated[i], FanOut(i, id)
       PROVE  SecretsGenuine'
  <2>1. UNCHANGED <<row, calls, worker, known>>
        /\ \A j \in Instances : request'[j] = request[j] \/ request'[j] = NoRequest
    BY <1>1, <1>12 DEF FanOut, TypeOK
  <2>2. QED
    BY <1>3, <1>4, <1>5, <2>1
<1>13. QED
  BY <1>6, <1>7, <1>8, <1>9, <1>10, <1>11, <1>12

\* The invariant holds throughout.
LEMMA SecretsInductive == Spec => []SecretsGenuine
<1>1. Init => SecretsGenuine
  BY DEF Init, NoRow, NoRequest, SecretsGenuine, RowsGenuine, RequestsGenuine,
         CallsGenuine, WorkerGenuine
<1>2. Typed /\ SecretsGenuine /\ [Next]_vars => SecretsGenuine'
  <2> SUFFICES ASSUME Typed, SecretsGenuine, [Next]_vars
               PROVE  SecretsGenuine'
    OBVIOUS
  <2>1. CASE UNCHANGED vars
    BY <2>1
    DEF vars, SecretsGenuine, RowsGenuine, RequestsGenuine, CallsGenuine,
        WorkerGenuine, Holds, SharedWith
  <2>2. CASE Next
    BY <2>2, OperationGenuine, ServeGenuine, HearGenuine, OtherStepGenuine DEF Next
  <2>3. QED
    BY <2>1, <2>2
<1>3. QED
  BY <1>1, <1>2, TypeCorrect, PTL DEF Spec, Typed

\* An active row's secret is one the other instance generated or adopted.
THEOREM ActiveSecretShared == Spec => []ActiveSecretIsShared
<1>1. SecretsGenuine => ActiveSecretIsShared
  BY DEF SecretsGenuine, RowsGenuine, ActiveSecretIsShared, SharedWith
<1>2. QED
  BY <1>1, SecretsInductive, PTL

-----------------------------------------------------------------------------
(* Revocation.                                                             *)

\* A revoked row comes back only by the work of its own instance that was under
\* way: no call of the other instance changes it.
THEOREM RevokedStays == Spec => RevokedOutlivesPeer
<1> DEFINE Kept == \A i \in Instances :
              row[i].status = "revoked" /\ row'[i].id = row[i].id
                /\ row'[i].status # "revoked"
              => \/ worker[i].id = row[i].id
                 \/ \E c \in calls : c.from = i /\ c.step # "abandoned"
<1>1. Typed /\ [Next]_vars => [Kept]_vars
  <2> SUFFICES ASSUME Typed, [Next]_vars, NEW i \in Instances,
                      row[i].status = "revoked", row'[i].id = row[i].id,
                      row'[i].status # "revoked", worker[i].id # row[i].id,
                      \A c \in calls : c.from # i \/ c.step = "abandoned"
               PROVE  FALSE
    OBVIOUS
  <2>1. row'[i] # row[i] /\ TypeOK /\ row[i].id \in Ids /\ row[i].id <= minted
    BY TypedNow DEF Typed, RowsTyped, NoRow
  <2>2. ASSUME NEW by \in Creator, NEW k \in Instances, Mint,
               row' = [row EXCEPT ![k] = PendingRow(minted + 1, by)]
        PROVE  FALSE
    <3>1. row[i].id # minted + 1
      BY <2>1, <2>2, MintFresh
    <3>2. QED
      BY <2>1, <2>2, <3>1 DEF PendingRow, TypeOK
  <2>3. ASSUME NEW k \in Instances,
               \/ Initiate(k) \/ CreatePlaceholder(k) \/ EnsureNewPeer(k)
               \/ EnsurePending(k) \/ AskAdmin(k) \/ ApproveInbound(k)
               \/ ApproveOutbound(k) \/ DenyInbound(k) \/ DenyOutbound(k)
        PROVE  FALSE
    BY <2>1, <2>2, <2>3
    DEF Initiate, CreatePlaceholder, EnsureNewPeer, EnsurePending, AskAdmin,
        ApproveInbound, ApproveOutbound, DenyInbound, DenyOutbound, Handshake, Creator
  <2>4. ASSUME NEW c \in calls, ServeAccept(c) \/ ServeEpoch(c) \/ ServeDenied(c)
        PROVE  FALSE
    <3> DEFINE j == Other(c.from)
    <3>1. CASE ServeAccept(c) /\ row' # row
      <4>1. Verdict(j, c) = "activated" /\ Adopt(j, c)
        BY <3>1 DEF ServeAccept
      <4>2. row[j].status # "revoked"
        BY <4>1 DEF Verdict, GateShut
      <4>3. i # j
        BY <4>2
      <4>4. QED
        BY <2>1, <4>1, <4>3 DEF Adopt, TypeOK
    <3>2. CASE ServeDenied(c) /\ row' # row
      <4>1. row' = WithStatus(j, row[j].id, "rejected", 0)
            /\ row[j].status = "awaiting_approval"
        BY <3>2 DEF ServeDenied
      <4>2. j \in Instances /\ "rejected" \in Status \ {"none"} /\ 0 \in Ids \cup {0}
        BY TypedNow, OtherSide DEF Status
      <4>3. TypeOK /\ row' = WithStatus(j, row[j].id, "rejected", 0)
        BY <4>1 DEF Typed
      <4>4. \A k \in Instances : row'[k] = row[k] \/ k = j
        BY ONLY <4>2, <4>3, StatusWritten
      <4>5. row'[i] = row[i] \/ i = j
        BY <2>1, <4>4
      <4>6. QED
        BY <2>1, <4>1, <4>5
    <3>3. QED
      BY <2>1, <2>4, <3>1, <3>2 DEF ServeEpoch
  <2>5. ASSUME NEW k \in Instances, NEW id, NEW s \in Status \ {"none"},
               NEW t \in Ids \cup {0}, row' = WithStatus(k, id, s, t)
        PROVE  k = i /\ id = row[i].id /\ s # "revoked"
    <3>1. row'[i].status = s /\ k = i /\ id = row[i].id
      BY <2>1, <2>5, StatusWritten
    <3>2. QED
      BY <3>1
  <2>6. {"active", "awaiting_approval", "needs_attention", "rejected", "revoked", "unreachable"}
          \subseteq Status \ {"none"}
    BY DEF Status
  <2>7. ASSUME NEW k \in Instances, NEW id, row' = WithoutRow(k, id)
        PROVE  FALSE
    <3>1. row'[i] = NoRow
      BY <2>1, <2>7, RowDelete
    <3>2. QED
      BY <2>1, <3>1 DEF NoRow, Ids
  <2>8. ASSUME NEW c \in calls, Hear(c)
        PROVE  FALSE
    <3>1. c.step # "abandoned" /\ c.from \in Instances /\ c.id \in Ids \cup {0}
      BY <2>8, TypedNow
      DEF Hear, HearQueued, HearActivated, HearRefused, HearDenied
    <3>2. c.from # i
      BY <3>1
    <3>3. CASE \E id : row' = WithoutRow(c.from, id)
      BY <2>7, <3>1, <3>3
    <3>4. CASE \E id : \E s \in Status \ {"none"}, t \in Ids \cup {0} :
                 row' = WithStatus(c.from, id, s, t)
      BY <2>5, <3>1, <3>2, <3>4
    <3>5. CASE row' = row
      BY <2>1, <3>5
    <3>6. CASE HearDenied(c)
      <4>1. CASE row[c.from].status = "none" /\ c.step = "activated"
        BY <2>1, <3>2, <3>6, <4>1 DEF HearDenied, TypeOK
      <4>2. QED
        BY <2>6, <3>1, <3>4, <3>5, <3>6, <4>1 DEF HearDenied
    <3>7. QED
      BY <2>6, <2>8, <3>1, <3>3, <3>4, <3>5, <3>6
      DEF Hear, HearQueued, HearActivated, HearRefused, Activate
  <2>9. ASSUME NEW c \in calls, Abandon(c)
        PROVE  FALSE
    BY <2>1, <2>7, <2>9, TypedNow DEF Abandon
  <2>10. ASSUME NEW k \in Instances, Revoke(k)
         PROVE  FALSE
    BY <2>5, <2>6, <2>10 DEF Revoke
  <2>11. ASSUME NEW k \in Instances, RemoveRow(k)
         PROVE  FALSE
    BY <2>1, <2>11 DEF RemoveRow, TypeOK, NoRow, Ids
  <2>12. ASSUME NEW k \in Instances, EndTask(k)
         PROVE  FALSE
    <3>1. PICK s \in {"unreachable", "needs_attention", "active"} :
            row' = WithStatus(k, worker[k].id, s, 0)
      BY <2>1, <2>12 DEF EndTask
    <3>2. QED
      BY <2>5, <2>6, <3>1
  <2>13. QED
    BY <2>1, <2>3, <2>4, <2>8, <2>9, <2>10, <2>11, <2>12
    DEF Next, vars, Restart, StartTask, FanOut
<1>2. QED
  BY <1>1, TypeCorrect, PTL DEF RevokedOutlivesPeer, Spec, Typed

-----------------------------------------------------------------------------
(* Gated instances.                                                        *)

\* A step that inserts no row but a denial's: calls and tasks keep what they may
\* write, and a denial's row is never written but to "rejected" or "revoked".
LEMMA GatedKept ==
  ASSUME Typed, GatedRowsKept, UNCHANGED gated,
         \A c \in calls' : \E d \in calls :
           /\ c.from = d.from /\ c.kind = d.kind /\ c.row = d.row /\ c.id = d.id,
         \A i \in gated :
           /\ \/ row'[i] = row[i] \/ row'[i] = NoRow
              \/ /\ row[i].status # "none"
                 /\ row'[i].id = row[i].id /\ row'[i].by = row[i].by
                 /\ row[i].by = "denial" => row'[i].status \in {"rejected", "revoked"}
              \/ /\ row'[i].by = "denial" /\ row'[i].status = "rejected"
                 /\ row'[i].id \in Ids /\ Denies(i, row'[i].id)
           /\ \/ worker'[i] = worker[i] \/ worker'[i] = Idle
              \/ /\ worker'[i].id = row[i].id /\ row[i].by # "denial"
                 /\ row'[i] = row[i]
  PROVE  GatedRowsKept'
<1> SUFFICES ASSUME NEW i \in gated
             PROVE  /\ row'[i].by \in {"nobody", "admin", "relay", "denial"}
                    /\ row'[i].by = "nobody" => row'[i].status = "none"
                    /\ row'[i].by = "denial" =>
                         /\ row'[i].status \in {"rejected", "revoked"}
                         /\ ~ (\E c \in calls' : /\ c.from = i /\ c.kind \in Handshakes
                                                 /\ c.row = row'[i].id)
                         /\ worker'[i].id # row'[i].id
                    /\ row'[i].by # "denial" =>
                         ~ \E c \in calls' : /\ c.from = i /\ c.kind = "deny"
                                             /\ c.id = row'[i].id
                    /\ \A id \in Ids :
                         ~ (/\ \/ \E c \in calls' : /\ c.from = i /\ c.kind \in Handshakes
                                                    /\ c.row = id
                               \/ worker'[i].id = id
                            /\ \E c \in calls' : /\ c.from = i /\ c.kind = "deny"
                                                 /\ c.id = id)
  BY DEF GatedRowsKept, Writes, Denies
<1>1. /\ i \in Instances /\ Idle.id = 0
      /\ NoRow.by = "nobody" /\ NoRow.status = "none" /\ NoRow.id = 0
      /\ 0 \notin Ids /\ \A c \in calls : c.id \in Ids
  BY TypedNow DEF Typed, TypeOK, NoRow, Idle, Ids
<1>2. \A id : (\E c \in calls' : c.from = i /\ c.kind \in Handshakes /\ c.row = id)
                => Writes(i, id)
  BY DEF Writes
<1>3. \A id : (\E c \in calls' : c.from = i /\ c.kind = "deny" /\ c.id = id)
                => Denies(i, id)
  BY DEF Denies
<1>4. ~ Denies(i, 0)
  BY <1>1 DEF Denies
<1>5. /\ row[i].by \in {"nobody", "admin", "relay", "denial"}
      /\ row[i].by = "nobody" => row[i].status = "none"
      /\ row[i].by = "denial" =>
           row[i].status \in {"rejected", "revoked"} /\ ~ Writes(i, row[i].id)
      /\ row[i].by # "denial" => ~ Denies(i, row[i].id)
      /\ \A id \in Ids : ~ (Writes(i, id) /\ Denies(i, id))
      /\ \A id : worker[i].id = id => Writes(i, id)
  BY DEF GatedRowsKept, Writes
<1>6. row[i].by = "denial" => row[i].id \in Ids
  BY <1>1, TypedNow DEF RowsTyped
<1>7. \A id \in Ids : worker'[i].id = id =>
        Writes(i, id) \/ (id = row[i].id /\ row[i].by # "denial" /\ row'[i] = row[i])
  BY <1>1, <1>5
<1>8. CASE row'[i] = row[i]
  BY <1>2, <1>3, <1>5, <1>6, <1>7, <1>8
<1>9. CASE row'[i] = NoRow
  BY <1>1, <1>2, <1>3, <1>4, <1>5, <1>7, <1>9
<1>10. CASE /\ row[i].status # "none"
            /\ row'[i].id = row[i].id /\ row'[i].by = row[i].by
            /\ row[i].by = "denial" => row'[i].status \in {"rejected", "revoked"}
  BY <1>2, <1>3, <1>5, <1>6, <1>7, <1>10
<1>11. CASE /\ row'[i].by = "denial" /\ row'[i].status = "rejected"
            /\ row'[i].id \in Ids /\ Denies(i, row'[i].id)
  <2>1. ~ Writes(i, row'[i].id)
    BY <1>5, <1>11
  <2>2. worker'[i].id # row'[i].id
    BY <1>5, <1>7, <1>11, <2>1
  <2>3. QED
    BY <1>2, <1>3, <1>5, <1>7, <1>11, <2>1, <2>2
<1>12. QED
  BY <1>8, <1>9, <1>10, <1>11

\* A new row of a gated instance, inserted by an admin or by queued mail.
LEMMA NewRowGated ==
  ASSUME Typed, GatedRowsKept, NEW i \in Instances, NEW by \in Creator, Mint,
         i \in gated => by \in {"admin", "relay"},
         row' = [row EXCEPT ![i] = PendingRow(minted + 1, by)],
         UNCHANGED <<gated, worker>>,
         \A c \in calls' :
           \/ c \in calls
           \/ c.from = i /\ c.kind \in Handshakes /\ c.row = minted + 1
  PROVE  GatedRowsKept'
<1> DEFINE n == minted + 1
<1> SUFFICES ASSUME NEW k \in gated
             PROVE  /\ row'[k].by \in {"nobody", "admin", "relay", "denial"}
                    /\ row'[k].by = "nobody" => row'[k].status = "none"
                    /\ row'[k].by = "denial" =>
                         /\ row'[k].status \in {"rejected", "revoked"}
                         /\ ~ (\E c \in calls' : /\ c.from = k /\ c.kind \in Handshakes
                                                 /\ c.row = row'[k].id)
                         /\ worker[k].id # row'[k].id
                    /\ row'[k].by # "denial" =>
                         ~ \E c \in calls' : /\ c.from = k /\ c.kind = "deny"
                                             /\ c.id = row'[k].id
                    /\ \A id \in Ids :
                         ~ (/\ \/ \E c \in calls' : /\ c.from = k /\ c.kind \in Handshakes
                                                    /\ c.row = id
                               \/ worker[k].id = id
                            /\ \E c \in calls' : /\ c.from = k /\ c.kind = "deny"
                                                 /\ c.id = id)
  BY DEF GatedRowsKept, Writes, Denies
<1>1. /\ \A m \in Ids \cup {0} : m <= minted => m # n
      /\ k \in Instances
  BY MintFresh DEF Typed, TypeOK
<1>2. /\ \A id : (\E c \in calls' : c.from = k /\ c.kind = "deny" /\ c.id = id)
                   => Denies(k, id)
      /\ ~ Denies(k, n)
  BY <1>1, TypedNow DEF Denies, Handshakes
<1>3. /\ row[k].by \in {"nobody", "admin", "relay", "denial"}
      /\ row[k].by = "nobody" => row[k].status = "none"
      /\ row[k].by = "denial" =>
           row[k].status \in {"rejected", "revoked"} /\ ~ Writes(k, row[k].id)
      /\ row[k].by # "denial" => ~ Denies(k, row[k].id)
      /\ \A id \in Ids : ~ (Writes(k, id) /\ Denies(k, id))
      /\ \A id : worker[k].id = id => Writes(k, id)
  BY DEF GatedRowsKept, Writes
<1>4. \A id : (\E c \in calls' : c.from = k /\ c.kind \in Handshakes /\ c.row = id)
                => Writes(k, id) \/ (id = n /\ k = i)
  BY DEF Writes
<1>5. CASE k = i
  <2>1. row'[k].id = n /\ row'[k].by = by /\ by # "denial"
        /\ by \in {"nobody", "admin", "relay", "denial"}
    BY <1>1, <1>5 DEF PendingRow, Typed, TypeOK
  <2>2. QED
    BY <1>2, <1>3, <1>4, <2>1
<1>6. CASE k # i
  <2>1. row'[k] = row[k]
    BY <1>1, <1>6 DEF Typed, TypeOK
  <2>2. QED
    BY <1>2, <1>3, <1>4, <1>6, <2>1
<1>7. QED
  BY <1>5, <1>6

\* The local operations.
LEMMA OperationGated ==
  ASSUME Typed, GatedRowsKept, NEW i \in Instances,
         \/ Initiate(i) \/ CreatePlaceholder(i) \/ EnsureNewPeer(i) \/ EnsurePending(i)
         \/ AskAdmin(i) \/ ApproveInbound(i) \/ ApproveOutbound(i)
         \/ DenyInbound(i) \/ DenyOutbound(i)
  PROVE  GatedRowsKept'
<1>1. CASE UNCHANGED <<gated, row, calls, worker>>
  BY <1>1, GatedKept
<1>2. CASE \E by \in Creator :
             /\ Mint /\ UNCHANGED <<gated, worker>>
             /\ row' = [row EXCEPT ![i] = PendingRow(minted + 1, by)]
             /\ i \in gated => by \in {"admin", "relay"}
             /\ \A c \in calls' :
                  \/ c \in calls
                  \/ c.from = i /\ c.kind \in Handshakes /\ c.row = minted + 1
  BY <1>2, NewRowGated
<1>3. ASSUME NEW kind \in Handshakes, NEW by \in Creator, NEW token, NEW req,
             Handshake(i, kind, by, token, req), UNCHANGED <<gated, worker>>,
             i \in gated => by \in {"admin", "relay"}
      PROVE  GatedRowsKept'
  <2>1. \A c \in calls' :
          c \in calls \/ (c.from = i /\ c.kind \in Handshakes /\ c.row = minted + 1)
    BY <1>3 DEF Handshake
  <2>2. QED
    BY <1>3, <2>1, NewRowGated DEF Handshake
<1>4. CASE Initiate(i)
  BY <1>3, <1>4 DEF Initiate, Handshakes, Creator
<1>5. CASE CreatePlaceholder(i)
  BY <1>2, <1>5 DEF CreatePlaceholder, Creator
<1>6. CASE EnsureNewPeer(i)
  BY <1>3, <1>6 DEF EnsureNewPeer, Handshakes, Creator
<1>7. CASE ApproveInbound(i)
  BY <1>1, <1>3, <1>7 DEF ApproveInbound, Handshakes, Creator
<1>8. CASE ApproveOutbound(i)
  BY <1>3, <1>8 DEF ApproveOutbound, Handshakes, Creator
<1>9. CASE EnsurePending(i) \/ DenyInbound(i)
  <2> DEFINE n == minted + 1
  <2>1. UNCHANGED <<gated, row, worker>> /\ Mint
    BY <1>9 DEF EnsurePending, DenyInbound
  <2>2. \A c \in calls' :
          \/ c \in calls
          \/ /\ c.from = i /\ c.kind = "ensure" /\ c.row = row[i].id
             /\ row[i].status = "pending"
          \/ c.from = i /\ c.kind = "deny" /\ c.id = n
    BY <1>9 DEF EnsurePending, DenyInbound
  <2>3. SUFFICES ASSUME NEW k \in gated
                 PROVE  /\ row[k].by \in {"nobody", "admin", "relay", "denial"}
                        /\ row[k].by = "nobody" => row[k].status = "none"
                        /\ row[k].by = "denial" =>
                             row[k].status \in {"rejected", "revoked"}
                             /\ ~ Writes(k, row[k].id)'
                        /\ row[k].by # "denial" => ~ Denies(k, row[k].id)'
                        /\ \A id \in Ids : ~ (Writes(k, id)' /\ Denies(k, id)')
    BY <2>1 DEF GatedRowsKept, Writes, Denies
  <2>4. /\ row[k].by \in {"nobody", "admin", "relay", "denial"}
        /\ row[k].by = "nobody" => row[k].status = "none"
        /\ row[k].by = "denial" =>
             row[k].status \in {"rejected", "revoked"} /\ ~ Writes(k, row[k].id)
        /\ row[k].by # "denial" => ~ Denies(k, row[k].id)
        /\ \A id \in Ids : ~ (Writes(k, id) /\ Denies(k, id))
    BY DEF GatedRowsKept
  <2>5. /\ \A m \in Ids \cup {0} : m <= minted => m # n
        /\ k \in Instances /\ row[k].id # n
        /\ worker'[k] = worker[k] /\ row'[k] = row[k]
    BY <2>1, MintFresh, TypedNow DEF Typed, TypeOK
  <2>6. \A id : Writes(k, id)' =>
          Writes(k, id) \/ (id = row[k].id /\ k = i /\ row[k].by # "denial")
    BY <2>2, <2>4, <2>5 DEF Writes, Handshakes
  <2>7. \A id : Denies(k, id)' => Denies(k, id) \/ id = n
    BY <2>2 DEF Denies
  <2>8. ~ Writes(k, n)
    BY <2>5, TypedNow DEF Writes
  <2>9. QED
    BY <2>4, <2>5, <2>6, <2>7, <2>8
<1>10. QED
  BY <1>1, <1>4, <1>5, <1>6, <1>7, <1>8, <1>9 DEF AskAdmin, DenyOutbound

\* Serving a call.
LEMMA ServeGated ==
  ASSUME Typed, GatedRowsKept, NEW c \in calls,
         ServeAccept(c) \/ ServeEpoch(c) \/ ServeDenied(c)
  PROVE  GatedRowsKept'
<1> DEFINE j == Other(c.from)
<1>1. /\ j \in Instances /\ TypeOK /\ gated \subseteq Instances
      /\ UNCHANGED <<gated, worker>>
  BY TypedNow, OtherSide DEF Typed, TypeOK, ServeAccept, ServeEpoch, ServeDenied
<1>2. \A d \in calls' : \E e \in calls :
        d.from = e.from /\ d.kind = e.kind /\ d.row = e.row /\ d.id = e.id
  <2>1. calls' = calls \ {c} \/ \E s \in Steps : calls' = Moved(c, s)
    BY DEF ServeAccept, ServeEpoch, ServeDenied, Answer, Verdict, Steps
  <2>2. CASE calls' = calls \ {c}
    BY <2>2
  <2>3. ASSUME NEW s \in Steps, calls' = Moved(c, s)
        PROVE  \A d \in calls' : \E e \in calls :
                 d.from = e.from /\ d.kind = e.kind /\ d.row = e.row /\ d.id = e.id
    BY <2>3, TypedNow DEF Moved, Call
  <2>4. QED
    BY <2>1, <2>2, <2>3
<1>3. \A i \in gated : row[i].by = "denial" => row[i].status \in {"rejected", "revoked"}
  BY DEF GatedRowsKept
<1>4. \A i \in gated :
        \/ row'[i] = row[i]
        \/ /\ row[i].status # "none" /\ row'[i].id = row[i].id
           /\ row'[i].by = row[i].by /\ row[i].by # "denial"
  <2>1. CASE ServeAccept(c) /\ row' # row
    <3>1. Verdict(j, c) = "activated" /\ row' = [row EXCEPT ![j] = AdoptedRow(j, c)]
      BY <2>1 DEF ServeAccept, Adopt
    <3>2. j \in gated => row[j].status \in {"pending", "awaiting_approval"}
      BY <3>1 DEF Verdict, GateShut
    <3>3. j \in gated => AdoptedRow(j, c).id = row[j].id /\ AdoptedRow(j, c).by = row[j].by
      BY <1>1, <3>2 DEF AdoptedRow, TypeOK, Row
    <3>4. QED
      BY <1>1, <1>3, <3>1, <3>2, <3>3 DEF TypeOK
  <2>2. CASE ServeDenied(c) /\ row' # row
    <3>1. row' = WithStatus(j, row[j].id, "rejected", 0)
          /\ row[j].status = "awaiting_approval"
      BY <2>2 DEF ServeDenied
    <3>2. "rejected" \in Status \ {"none"} /\ 0 \in Ids \cup {0}
      BY DEF Status
    <3>3. \A i \in Instances :
            /\ row'[i].id = row[i].id /\ row'[i].by = row[i].by
            /\ row'[i] = row[i] \/ i = j
      BY <1>1, <3>1, <3>2, StatusWritten
    <3>4. QED
      BY <1>1, <1>3, <3>1, <3>3
  <2>3. QED
    BY <2>1, <2>2 DEF ServeEpoch
<1>5. QED
  BY <1>1, <1>2, <1>4, GatedKept

\* A status written by a call or a task, or by an admin who revokes or rejects.
LEMMA StatusWriteGated ==
  ASSUME Typed, GatedRowsKept, NEW i \in Instances, NEW id \in Ids \cup {0},
         NEW s \in Status \ {"none"}, NEW t \in Ids \cup {0},
         row' = WithStatus(i, id, s, t),
         s \in {"rejected", "revoked"} \/ Writes(i, id)
  PROVE  \A k \in gated :
           \/ row'[k] = row[k]
           \/ /\ row[k].status # "none" /\ row'[k].id = row[k].id /\ row'[k].by = row[k].by
              /\ row[k].by = "denial" => row'[k].status \in {"rejected", "revoked"}
<1>1. TypeOK /\ gated \subseteq Instances
  BY DEF Typed, TypeOK
<1>2. \A k \in Instances :
        /\ row'[k].id = row[k].id /\ row'[k].by = row[k].by
        /\ \/ row'[k] = row[k]
           \/ /\ k = i /\ row[i].status # "none" /\ row[i].id = id
              /\ row'[k].status = s
  BY <1>1, StatusWritten
<1>3. \A k \in gated : row[k].by = "denial" => ~ Writes(k, row[k].id)
  BY DEF GatedRowsKept
<1>4. QED
  BY <1>1, <1>2, <1>3

\* Hearing an answer.
LEMMA HearGated ==
  ASSUME Typed, GatedRowsKept, NEW c \in calls, Hear(c)
  PROVE  GatedRowsKept'
<1> DEFINE i == c.from
<1>1. /\ i \in Instances /\ c.id \in Ids /\ c.row \in Ids \cup {0} /\ TypeOK
      /\ gated \subseteq Instances /\ row[i].id \in Ids \cup {0}
      /\ UNCHANGED <<gated, worker>> /\ calls' \subseteq calls
  BY TypedNow DEF Hear, Typed, TypeOK
<1>2. {"active", "awaiting_approval", "needs_attention", "rejected"} \subseteq Status \ {"none"}
  BY DEF Status
<1>3. c.kind \in Handshakes => Writes(i, c.row)
  BY DEF Writes
<1>4. ASSUME \A k \in gated :
               \/ row'[k] = row[k] \/ row'[k] = NoRow
               \/ /\ row[k].status # "none"
                  /\ row'[k].id = row[k].id /\ row'[k].by = row[k].by
                  /\ row[k].by = "denial" => row'[k].status \in {"rejected", "revoked"}
               \/ /\ row'[k].by = "denial" /\ row'[k].status = "rejected"
                  /\ row'[k].id \in Ids /\ Denies(k, row'[k].id)
      PROVE  GatedRowsKept'
  BY <1>1, <1>4, GatedKept
<1>5. CASE row' = row
  BY <1>4, <1>5
<1>6. ASSUME NEW id \in Ids \cup {0}, NEW s \in Status \ {"none"}, NEW t \in Ids \cup {0},
             row' = WithStatus(i, id, s, t), s = "rejected" \/ Writes(i, id)
      PROVE  GatedRowsKept'
  BY <1>1, <1>4, <1>6, StatusWriteGated
<1>7. CASE HearQueued(c)
  BY <1>1, <1>2, <1>3, <1>6, <1>7 DEF HearQueued
<1>8. CASE HearActivated(c)
  BY <1>1, <1>2, <1>3, <1>6, <1>8 DEF HearActivated, Activate, Handshakes
<1>9. CASE HearRefused(c)
  <2>1. CASE row' = WithoutRow(i, c.row)
    <3>1. \A k \in Instances : row'[k] = row[k] \/ row'[k] = NoRow
      BY <1>1, <2>1, RowDelete
    <3>2. QED
      BY <1>1, <1>4, <3>1
  <2>2. QED
    BY <1>1, <1>2, <1>3, <1>5, <1>6, <1>9, <2>1 DEF HearRefused
<1>10. CASE HearDenied(c)
  <2> DEFINE denied == [id |-> c.id, status |-> "rejected", secret |-> c.secret,
                        token |-> 0, by |-> "denial"]
  <2>1. CASE row' = [row EXCEPT ![i] = denied]
    <3>1. Denies(i, c.id)
      BY <1>10 DEF HearDenied, Denies
    <3>2. row'[i] = denied /\ \A k \in Instances \ {i} : row'[k] = row[k]
      BY <1>1, <2>1 DEF TypeOK
    <3>3. QED
      BY <1>1, <1>4, <3>1, <3>2
  <2>2. QED
    BY <1>1, <1>2, <1>5, <1>6, <1>10, <2>1 DEF HearDenied
<1>11. QED
  BY <1>7, <1>8, <1>9, <1>10 DEF Hear

\* The other steps.
LEMMA OtherStepGated ==
  ASSUME Typed, GatedRowsKept,
         \/ \E c \in calls : Abandon(c)
         \/ \E i \in Instances :
              \/ Restart(i) \/ Revoke(i) \/ RemoveRow(i) \/ StartTask(i) \/ EndTask(i)
              \/ \E id \in activated[i] : FanOut(i, id)
  PROVE  GatedRowsKept'
<1>1. TypeOK /\ gated \subseteq Instances /\ calls \subseteq Call
      /\ \A d \in calls : d.from \in Instances
  BY TypedNow DEF Typed, TypeOK
<1>2. {"revoked", "unreachable", "needs_attention", "active"} \subseteq Status \ {"none"}
  BY DEF Status
<1>3. ASSUME NEW c \in calls, Abandon(c)
      PROVE  GatedRowsKept'
  <2>1. \A k \in Instances : row'[k] = row[k] \/ row'[k] = NoRow
    <3>1. CASE row' = WithoutRow(c.from, c.row)
      BY <1>1, <3>1, RowDelete
    <3>2. QED
      BY <1>3, <3>1 DEF Abandon
  <2>2. {c} \in SUBSET calls /\ calls' = Forsaken({c}) /\ UNCHANGED <<gated, worker>>
    BY <1>3 DEF Abandon
  <2>3. QED
    BY <1>1, <2>1, <2>2, ForsakenCalls, GatedKept
<1>4. ASSUME NEW i \in Instances, Restart(i)
      PROVE  GatedRowsKept'
  <2>1. {c \in calls : c.from = i} \in SUBSET calls
    OBVIOUS
  <2>2. \A c \in calls' : \E d \in calls :
          c.from = d.from /\ c.kind = d.kind /\ c.row = d.row /\ c.id = d.id
    BY <1>1, <1>4, <2>1, ForsakenCalls DEF Restart
  <2>3. UNCHANGED <<gated, row>>
        /\ \A k \in Instances : worker'[k] = worker[k] \/ worker'[k] = Idle
    BY <1>1, <1>4 DEF Restart, TypeOK
  <2>4. QED
    BY <1>1, <2>2, <2>3, GatedKept
<1>5. ASSUME NEW i \in Instances, Revoke(i)
      PROVE  GatedRowsKept'
  <2>1. row[i].id \in Ids \cup {0}
    BY TypedNow
  <2>2. row' = WithStatus(i, row[i].id, "revoked", 0) /\ UNCHANGED <<gated, calls, worker>>
    BY <1>5 DEF Revoke
  <2>3. \A k \in gated :
           \/ row'[k] = row[k]
           \/ /\ row[k].status # "none" /\ row'[k].id = row[k].id /\ row'[k].by = row[k].by
              /\ row[k].by = "denial" => row'[k].status \in {"rejected", "revoked"}
    BY <1>2, <2>1, <2>2, StatusWriteGated
  <2>4. QED
    BY <2>2, <2>3, GatedKept
<1>6. ASSUME NEW i \in Instances, RemoveRow(i)
      PROVE  GatedRowsKept'
  <2>1. UNCHANGED <<gated, calls, worker>>
        /\ \A k \in Instances : row'[k] = row[k] \/ row'[k] = NoRow
    BY <1>1, <1>6 DEF RemoveRow, TypeOK
  <2>2. QED
    BY <1>1, <2>1, GatedKept
<1>7. ASSUME NEW i \in Instances, StartTask(i)
      PROVE  GatedRowsKept'
  <2>1. UNCHANGED <<gated, row, calls>> /\ row[i].status \in {"active", "unreachable"}
    BY <1>7 DEF StartTask
  <2>2. i \in gated => row[i].by # "denial"
    BY <2>1 DEF GatedRowsKept
  <2>3. \A k \in Instances :
          worker'[k] = worker[k] \/ (k = i /\ worker'[k].id = row[k].id)
    BY <1>1, <1>7 DEF StartTask, TypeOK
  <2>4. QED
    BY <1>1, <2>1, <2>2, <2>3, GatedKept
<1>8. ASSUME NEW i \in Instances, EndTask(i)
      PROVE  GatedRowsKept'
  <2>1. UNCHANGED <<gated, calls>>
        /\ \A k \in Instances : worker'[k] = worker[k] \/ worker'[k] = Idle
    BY <1>1, <1>8 DEF EndTask, TypeOK
  <2>2. CASE row' = row
    BY <1>1, <2>1, <2>2, GatedKept
  <2>3. ASSUME NEW s \in {"unreachable", "needs_attention", "active"},
               row' = WithStatus(i, worker[i].id, s, 0)
        PROVE  GatedRowsKept'
    <3>1. worker[i].id \in Ids \cup {0} /\ Writes(i, worker[i].id)
      BY TypedNow DEF Writes
    <3>2. \A k \in gated :
           \/ row'[k] = row[k]
           \/ /\ row[k].status # "none" /\ row'[k].id = row[k].id /\ row'[k].by = row[k].by
              /\ row[k].by = "denial" => row'[k].status \in {"rejected", "revoked"}
      BY <1>2, <2>3, <3>1, StatusWriteGated
    <3>3. QED
      BY <1>1, <2>1, <3>2, GatedKept
  <2>4. QED
    BY <1>8, <2>2, <2>3 DEF EndTask
<1>9. ASSUME NEW i \in Instances, NEW id \in activated[i], FanOut(i, id)
      PROVE  GatedRowsKept'
  BY <1>9, GatedKept DEF FanOut
<1>10. QED
  BY <1>3, <1>4, <1>5, <1>6, <1>7, <1>8, <1>9

\* At a gated instance no row becomes active that its own admin or its own queued
\* mail did not insert.
THEOREM GatedRowsLocal == Spec => []GatedRowsAreLocal
<1>1. Init => GatedRowsKept
  BY DEF Init, NoRow, Idle, GatedRowsKept, Writes, Denies, Ids
<1>2. Typed /\ GatedRowsKept /\ [Next]_vars => GatedRowsKept'
  <2> SUFFICES ASSUME Typed, GatedRowsKept, [Next]_vars
               PROVE  GatedRowsKept'
    OBVIOUS
  <2>1. CASE UNCHANGED vars
    BY <2>1, GatedKept DEF vars
  <2>2. CASE Next
    BY <2>2, OperationGated, ServeGated, HearGated, OtherStepGated DEF Next
  <2>3. QED
    BY <2>1, <2>2
<1>3. Typed /\ GatedRowsKept => GatedRowsAreLocal
  <2> SUFFICES ASSUME Typed, GatedRowsKept, NEW i \in gated,
                      row[i].status \in {"active", "unreachable"}
               PROVE  row[i].by \in {"admin", "relay"}
    BY DEF GatedRowsAreLocal
  <2>1. row[i].by \in {"admin", "relay"} \/ row[i].by = "nobody"
    BY DEF GatedRowsKept
  <2>2. row[i].by # "nobody"
    BY DEF GatedRowsKept
  <2>3. QED
    BY <2>1, <2>2
<1>4. QED
  BY <1>1, <1>2, <1>3, TypeCorrect, PTL DEF Spec, Typed

-----------------------------------------------------------------------------
(* Agreement.  A row is usable when it is active or something under way may *)
(* make it so without another adoption: its handshake was granted, or the   *)
(* worker or the probe waits for an answer about it.  Agreement of the      *)
(* active rows is not inductive, agreement of the usable ones is, as long   *)
(* as no denial can insert a row under an id that something else writes.    *)

Usable(i) ==
  \/ row[i].status \in {"active", "unreachable"}
  \/ worker[i] # Idle /\ worker[i].id = row[i].id
  \/ \E c \in calls : /\ c.from = i /\ c.kind \in Handshakes
                      /\ c.step \in Granted /\ c.row = row[i].id

CallsDistinct == \A c, d \in calls : c.id = d.id => c = d

DenialsApart ==
  \A i \in Instances :
    /\ ~ Denies(i, row[i].id)
    /\ \A id \in Ids : ~ (Writes(i, id) /\ Denies(i, id))

UsableAgree ==
  ~ stale /\ (\A i \in Instances : Usable(i)) => row[Here].secret = row[There].secret

SecretsSettled == CallsDistinct /\ DenialsApart /\ UsableAgree

\* One call at two moments.
SameCall(d, e) ==
  /\ d.id = e.id /\ d.from = e.from /\ d.kind = e.kind
  /\ d.row = e.row /\ d.secret = e.secret

\* A call that is answered stays the only one with its number.
LEMMA MovedDistinct ==
  ASSUME Typed, CallsDistinct, NEW c \in calls, NEW s \in Steps,
         calls' \in {calls \ {c}, Moved(c, s)}
  PROVE  /\ CallsDistinct'
         /\ \A d \in calls' : \E e \in calls :
              SameCall(d, e) /\ (d = e \/ (e = c /\ d.step = s))
<1> DEFINE moved == [c EXCEPT !.step = s]
<1>1. /\ moved.id = c.id /\ moved.from = c.from /\ moved.kind = c.kind
      /\ moved.row = c.row /\ moved.secret = c.secret /\ moved.step = s
  BY TypedNow DEF Call
<1>2. \A d \in calls' : (d \in calls /\ d # c) \/ d = moved
  BY DEF Moved
<1>3. CallsDistinct'
  <2>1. SUFFICES ASSUME NEW d1 \in calls', NEW d2 \in calls', d1.id = d2.id
                 PROVE  d1 = d2
    BY DEF CallsDistinct
  <2>2. \A d \in calls : d.id = c.id => d = c
    BY DEF CallsDistinct
  <2>3. CASE d1 = moved /\ d2 = moved
    BY <2>3
  <2>4. CASE d1 = moved /\ d2 # moved
    BY <1>1, <1>2, <2>1, <2>2, <2>4
  <2>5. CASE d1 # moved /\ d2 = moved
    BY <1>1, <1>2, <2>1, <2>2, <2>5
  <2>6. CASE d1 # moved /\ d2 # moved
    <3>1. d1 \in calls /\ d2 \in calls
      BY <1>2, <2>6
    <3>2. QED
      BY <2>1, <3>1 DEF CallsDistinct
  <2>7. QED
    BY <2>3, <2>4, <2>5, <2>6
<1>4. ASSUME NEW d \in calls'
      PROVE  \E e \in calls : SameCall(d, e) /\ (d = e \/ (e = c /\ d.step = s))
  <2>1. CASE d \in calls
    BY <2>1 DEF SameCall
  <2>2. CASE d = moved
    BY <1>1, <2>2 DEF SameCall
  <2>3. QED
    BY <1>2, <2>1, <2>2
<1>5. QED
  BY <1>3, <1>4

\* So do calls that are given up.
LEMMA ForsakenDistinct ==
  ASSUME Typed, CallsDistinct, NEW gone \in SUBSET calls, calls' = Forsaken(gone)
  PROVE  /\ CallsDistinct'
         /\ \A d \in calls' : \E e \in calls :
              SameCall(d, e) /\ (d = e \/ d.step = "abandoned")
<1> DEFINE Given(d, e) == e \in gone /\ SameCall(d, e) /\ d = [e EXCEPT !.step = "abandoned"]
<1>1. "abandoned" \in Steps
  BY DEF Steps
<1>2. \A d \in calls' : (d \in calls /\ d \notin gone) \/ \E e \in calls : Given(d, e)
  <2> SUFFICES ASSUME NEW d \in calls', ~ (d \in calls /\ d \notin gone)
               PROVE  \E e \in calls : Given(d, e)
    OBVIOUS
  <2>1. PICK e \in gone : d = [e EXCEPT !.step = "abandoned"]
    BY DEF Forsaken
  <2>2. e \in Call /\ e \in calls
    BY TypedNow
  <2>3. SameCall(d, e)
    BY <1>1, <2>1, <2>2, CallStep DEF SameCall
  <2>4. QED
    BY <2>1, <2>2, <2>3
<1>3. \A d, e : Given(d, e) => d.id = e.id /\ e \in gone
  BY DEF SameCall
<1>4. ASSUME NEW d1 \in calls', NEW d2 \in calls', d1.id = d2.id
      PROVE  d1 = d2
  <2>1. CASE d1 \in calls /\ d1 \notin gone
    BY <1>2, <1>3, <1>4, <2>1 DEF CallsDistinct
  <2>2. CASE d2 \in calls /\ d2 \notin gone
    BY <1>2, <1>3, <1>4, <2>2 DEF CallsDistinct
  <2>3. CASE (\E e \in calls : Given(d1, e)) /\ (\E e \in calls : Given(d2, e))
    <3>1. PICK e1 \in calls : Given(d1, e1)
      BY <2>3
    <3>2. PICK e2 \in calls : Given(d2, e2)
      BY <2>3
    <3>3. e1 = e2
      BY <1>3, <1>4, <3>1, <3>2 DEF CallsDistinct
    <3>4. QED
      BY <3>1, <3>2, <3>3
  <2>4. QED
    BY <1>2, <2>1, <2>2, <2>3
<1>5. ASSUME NEW d \in calls'
      PROVE  \E e \in calls : SameCall(d, e) /\ (d = e \/ d.step = "abandoned")
  <2>1. CASE d \in calls /\ d \notin gone
    BY <2>1 DEF SameCall
  <2>2. CASE \E e \in calls : Given(d, e)
    <3>1. PICK e \in calls : Given(d, e)
      BY <2>2
    <3>2. d.step = "abandoned"
      BY <1>1, <3>1, TypedNow, CallStep
    <3>3. QED
      BY <3>1, <3>2
  <2>3. QED
    BY <1>2, <2>1, <2>2
<1>6. QED
  BY <1>4, <1>5 DEF CallsDistinct
\* Steps that adopt no secret and post nothing: whatever becomes active was
\* usable, and only a denial's row is new.
LEMMA SettledKept ==
  ASSUME Typed, SecretsSettled, stale' = stale, CallsDistinct',
         \A d \in calls' : \E e \in calls :
           /\ SameCall(d, e)
           /\ d.kind \in Handshakes /\ d.step \in Granted => e.step \in Granted,
         \A i \in Instances :
           /\ \/ /\ row'[i].id = row[i].id /\ row'[i].secret = row[i].secret
                 /\ row'[i].status \in {"active", "unreachable"} => Usable(i)
              \/ row'[i] = NoRow
              \/ /\ row'[i].status = "rejected" /\ row'[i].id \in Ids
                 /\ Denies(i, row'[i].id)
                 /\ \A d \in calls' : d.kind = "deny" => d.id # row'[i].id
           /\ \/ worker'[i] \in {worker[i], Idle}
              \/ /\ row'[i] = row[i] /\ worker'[i].id = row[i].id
                 /\ row[i].status \in {"active", "unreachable"}
  PROVE  SecretsSettled'
<1>1. /\ NoRow.id = 0 /\ NoRow.status = "none" /\ 0 \notin Ids /\ Idle.id = 0
      /\ "none" \notin {"active", "unreachable"}
      /\ "rejected" \notin {"active", "unreachable"}
      /\ "deny" \notin Handshakes
  BY DEF NoRow, Idle, Ids, Handshakes
<1>2. /\ \A c \in calls : c.id \in Ids /\ c.from \in Instances
                          /\ (c.kind \in Handshakes => c.row # 0)
      /\ \A i \in Instances : worker[i] # Idle => worker[i].id # 0
  BY TypedNow
<1>3. /\ \A i \in Instances : ~ Denies(i, row[i].id)
      /\ \A i \in Instances : \A id \in Ids : ~ (Writes(i, id) /\ Denies(i, id))
  BY DEF SecretsSettled, DenialsApart
<1>4. \A d \in calls' :
        /\ d.id \in Ids
        /\ d.kind = "deny" => Denies(d.from, d.id)
        /\ d.kind \in Handshakes => Writes(d.from, d.row) /\ d.row # 0
  BY <1>2 DEF Denies, Writes, SameCall
<1>5. DenialsApart'
  <2> SUFFICES ASSUME NEW i \in Instances
               PROVE  /\ \A d \in calls' : d.from = i /\ d.kind = "deny"
                           => d.id # row'[i].id
                      /\ \A d \in calls' : d.from = i /\ d.kind = "deny"
                           => /\ d.id # worker'[i].id
                              /\ \A e \in calls' : e.from = i /\ e.kind \in Handshakes
                                   => e.row # d.id
    BY DEF DenialsApart, Denies, Writes
  <2>1. ASSUME NEW d \in calls', d.from = i, d.kind = "deny"
        PROVE  d.id # row'[i].id
    BY <1>1, <1>3, <1>4, <2>1
  <2>2. ASSUME NEW d \in calls', d.from = i, d.kind = "deny"
        PROVE  /\ d.id # worker'[i].id
               /\ \A e \in calls' : e.from = i /\ e.kind \in Handshakes => e.row # d.id
    <3>1. d.id \in Ids /\ Denies(i, d.id) /\ ~ Writes(i, d.id) /\ d.id # row[i].id
      BY <1>3, <1>4, <2>2
    <3>2. d.id # worker[i].id
      BY <3>1 DEF Writes
    <3>3. QED
      BY <1>1, <1>4, <3>1, <3>2
  <2>3. QED
    BY <2>1, <2>2
<1>6. ASSUME NEW i \in Instances, Usable(i)'
      PROVE  Usable(i) /\ row'[i].secret = row[i].secret
  <2>1. CASE /\ row'[i].id = row[i].id /\ row'[i].secret = row[i].secret
             /\ row'[i].status \in {"active", "unreachable"} => Usable(i)
    <3>1. CASE row'[i].status \in {"active", "unreachable"}
      BY <2>1, <3>1
    <3>2. CASE worker'[i] # Idle /\ worker'[i].id = row'[i].id
      BY <2>1, <3>2 DEF Usable
    <3>3. CASE \E c \in calls' : /\ c.from = i /\ c.kind \in Handshakes
                                 /\ c.step \in Granted /\ c.row = row'[i].id
      BY <2>1, <3>3 DEF Usable, SameCall
    <3>4. QED
      BY <1>6, <3>1, <3>2, <3>3 DEF Usable
  <2>2. CASE row'[i] = NoRow
    <3>1. row[i] = NoRow => row[i].status = "none"
      BY <1>1
    <3>2. worker'[i] # Idle => worker'[i].id # 0
      BY <1>1, <1>2, <2>2, <3>1
    <3>3. QED
      BY <1>1, <1>4, <1>6, <2>2, <3>2 DEF Usable
  <2>3. CASE /\ row'[i].status = "rejected" /\ row'[i].id \in Ids
             /\ Denies(i, row'[i].id)
    <3>1. ~ Writes(i, row'[i].id) /\ row'[i].id # row[i].id
      BY <1>3, <2>3
    <3>2. \A d \in calls' : d.from = i /\ d.kind \in Handshakes => d.row # row'[i].id
      BY <1>4, <3>1
    <3>3. worker[i].id # row'[i].id
      BY <3>1 DEF Writes
    <3>4. worker'[i] # Idle => worker'[i].id # row'[i].id
      BY <3>1, <3>3
    <3>5. QED
      BY <1>1, <1>6, <2>3, <3>2, <3>4 DEF Usable
  <2>4. QED
    BY <2>1, <2>2, <2>3
<1>7. UsableAgree'
  <2>1. Here \in Instances /\ There \in Instances
    BY DEF Instances
  <2>2. UsableAgree
    BY DEF SecretsSettled
  <2>3. QED
    BY <1>6, <2>1, <2>2 DEF UsableAgree
<1>8. QED
  BY <1>5, <1>7 DEF SecretsSettled

\* Operations that post a call or insert a pending row, under a new number.
LEMMA SettledPosted ==
  ASSUME Typed, SecretsSettled, Mint, stale' = stale, worker' = worker,
         NEW posted, calls' = calls \cup posted,
         \A c, d \in posted : c = d,
         \A c \in posted :
           /\ c.id = minted + 1 /\ c.from \in Instances /\ c.step = "sent"
           /\ c.kind = "deny" => row' = row
           /\ c.kind \in Handshakes => c.row \in {minted + 1, row[c.from].id},
         \A i \in Instances :
           \/ row'[i] = row[i]
           \/ row'[i].id = minted + 1 /\ row'[i].status = "pending"
  PROVE  SecretsSettled'
<1> DEFINE n == minted + 1
<1>1. /\ n \in Ids
      /\ \A c \in calls : c.id # n /\ c.row # n
      /\ \A i \in Instances : row[i].id # n /\ worker[i].id # n
      /\ \A c \in calls : c.id \in Ids /\ c.from \in Instances
  BY TypedNow, MintFresh
<1>2. /\ "sent" \notin Granted /\ "deny" \notin Handshakes
      /\ "pending" \notin {"active", "unreachable"}
  BY DEF Granted, Handshakes
<1>3. /\ \A i \in Instances : ~ Denies(i, row[i].id)
      /\ \A i \in Instances : \A id \in Ids : ~ (Writes(i, id) /\ Denies(i, id))
  BY DEF SecretsSettled, DenialsApart
<1>4. CallsDistinct'
  BY <1>1 DEF SecretsSettled, CallsDistinct
<1>5. DenialsApart'
  <2> SUFFICES ASSUME NEW i \in Instances, NEW d \in calls', d.from = i, d.kind = "deny"
               PROVE  /\ d.id # row'[i].id /\ d.id # worker'[i].id
                      /\ \A e \in calls' : e.from = i /\ e.kind \in Handshakes
                           => e.row # d.id
    BY DEF DenialsApart, Denies, Writes
  <2>1. CASE d \in calls
    <3>1. d.id \in Ids /\ Denies(i, d.id) /\ d.id # n
      BY <1>1, <2>1 DEF Denies
    <3>2. ~ Writes(i, d.id) /\ d.id # row[i].id
      BY <1>3, <3>1
    <3>3. QED
      BY <3>1, <3>2 DEF Writes
  <2>2. CASE d \in posted
    <3>1. d.id = n /\ row' = row
      BY <2>2
    <3>2. \A e \in posted : e.kind = "deny"
      BY <2>2
    <3>3. QED
      BY <1>1, <1>2, <3>1, <3>2
  <2>3. QED
    BY <2>1, <2>2
<1>6. ASSUME NEW i \in Instances, Usable(i)'
      PROVE  Usable(i) /\ row'[i].secret = row[i].secret
  <2>1. \A c \in calls' : c.step \in Granted => c \in calls
    BY <1>2
  <2>2. CASE row'[i] = row[i]
    BY <1>6, <2>1, <2>2 DEF Usable
  <2>3. CASE row'[i].id = n /\ row'[i].status = "pending"
    BY <1>1, <1>2, <1>6, <2>1, <2>3 DEF Usable
  <2>4. QED
    BY <2>2, <2>3
<1>7. UsableAgree'
  <2>1. Here \in Instances /\ There \in Instances
    BY DEF Instances
  <2>2. UsableAgree
    BY DEF SecretsSettled
  <2>3. QED
    BY <1>6, <2>1, <2>2 DEF UsableAgree
<1>8. QED
  BY <1>4, <1>5, <1>7 DEF SecretsSettled
\* The local operations.
LEMMA OperationSettled ==
  ASSUME Typed, SecretsSettled, NEW i \in Instances,
         \/ Initiate(i) \/ CreatePlaceholder(i) \/ EnsureNewPeer(i) \/ EnsurePending(i)
         \/ AskAdmin(i) \/ ApproveInbound(i) \/ ApproveOutbound(i)
         \/ DenyInbound(i) \/ DenyOutbound(i)
  PROVE  SecretsSettled'
<1> DEFINE n == minted + 1
<1>1. \A by : PendingRow(n, by).id = n /\ PendingRow(n, by).status = "pending"
  BY DEF PendingRow
<1>2. ASSUME NEW by, row' = [row EXCEPT ![i] = PendingRow(n, by)]
      PROVE  /\ row'[i].id = n /\ row'[i].status = "pending"
             /\ \A k \in Instances :
                  \/ row'[k] = row[k]
                  \/ row'[k].id = n /\ row'[k].status = "pending"
  BY <1>1, <1>2 DEF Typed, TypeOK
<1>3. CASE UNCHANGED <<row, calls, worker, stale>>
  BY <1>3 DEF SecretsSettled, CallsDistinct, DenialsApart, Denies, Writes,
              UsableAgree, Usable
<1>4. ASSUME NEW kind \in Handshakes, NEW by, NEW token, NEW req,
             Handshake(i, kind, by, token, req), UNCHANGED <<worker, stale>>
      PROVE  SecretsSettled'
  <2> DEFINE c == [id |-> n, from |-> i, kind |-> kind, row |-> n, secret |-> n,
                   token |-> token, request |-> req, step |-> "sent"]
  <2>1. Mint /\ calls' = calls \cup {c} /\ row' = [row EXCEPT ![i] = PendingRow(n, by)]
    BY <1>4 DEF Handshake
  <2>2. /\ c.id = n /\ c.from = i /\ c.step = "sent" /\ c.row = n /\ c.kind = kind
        /\ kind # "deny"
    BY DEF Handshakes
  <2> HIDE DEF c
  <2> DEFINE posted == {c}
  <2>3. calls' = calls \cup posted /\ (\A d, e \in posted : d = e)
    BY <2>1
  <2>4. \A d \in posted :
           /\ d.id = n /\ d.from \in Instances /\ d.step = "sent"
           /\ d.kind = "deny" => row' = row
           /\ d.kind \in Handshakes => d.row \in {n, row[d.from].id}
    BY <2>2
  <2> HIDE DEF posted
  <2>5. QED
    BY <1>2, <1>4, <2>1, <2>3, <2>4, SettledPosted
<1>5. CASE Initiate(i)
  BY <1>4, <1>5 DEF Initiate, Handshakes
<1>6. CASE CreatePlaceholder(i)
  <2>1. Mint /\ row' = [row EXCEPT ![i] = PendingRow(n, "relay")]
        /\ UNCHANGED <<calls, worker, stale>>
    BY <1>6 DEF CreatePlaceholder
  <2> DEFINE posted == {}
  <2>2. calls' = calls \cup posted /\ \A d : d \notin posted
    BY <2>1
  <2> HIDE DEF posted
  <2>3. QED
    BY <1>2, <2>1, <2>2, SettledPosted
<1>7. CASE EnsureNewPeer(i)
  BY <1>4, <1>7 DEF EnsureNewPeer, Handshakes
<1>8. CASE ApproveInbound(i)
  BY <1>3, <1>4, <1>8 DEF ApproveInbound, Handshakes
<1>9. CASE ApproveOutbound(i)
  BY <1>4, <1>9 DEF ApproveOutbound, Handshakes
<1>10. CASE EnsurePending(i) \/ DenyInbound(i)
  <2>1. Mint /\ UNCHANGED <<row, worker, stale>>
    BY <1>10 DEF EnsurePending, DenyInbound
  <2>2. \E c : /\ calls' = calls \cup {c} /\ c.id = n /\ c.from = i /\ c.step = "sent"
               /\ c.kind \in Handshakes => c.row = row[i].id
    <3> DEFINE ensure == [id |-> n, from |-> i, kind |-> "ensure", row |-> row[i].id,
                          secret |-> row[i].secret, token |-> 0, request |-> 0,
                          step |-> "sent"]
               deny == [id |-> n, from |-> i, kind |-> "deny", row |-> 0,
                        secret |-> request[i].secret, token |-> 0,
                        request |-> request[i].id, step |-> "sent"]
    <3>1. /\ ensure.id = n /\ ensure.from = i /\ ensure.step = "sent"
          /\ ensure.row = row[i].id
      OBVIOUS
    <3>2. /\ deny.id = n /\ deny.from = i /\ deny.step = "sent"
          /\ deny.kind \notin Handshakes
      BY DEF Handshakes
    <3>3. calls' = calls \cup {ensure} \/ calls' = calls \cup {deny}
      BY <1>10 DEF EnsurePending, DenyInbound
    <3> HIDE DEF ensure, deny
    <3>4. QED
      BY <3>1, <3>2, <3>3
  <2>3. PICK c : /\ calls' = calls \cup {c} /\ c.id = n /\ c.from = i /\ c.step = "sent"
                 /\ c.kind \in Handshakes => c.row = row[i].id
    BY <2>2
  <2> DEFINE posted == {c}
  <2>4. calls' = calls \cup posted /\ (\A d, e \in posted : d = e)
    BY <2>3
  <2>5. \A d \in posted :
           /\ d.id = n /\ d.from \in Instances /\ d.step = "sent"
           /\ d.kind = "deny" => row' = row
           /\ d.kind \in Handshakes => d.row \in {n, row[d.from].id}
    BY <2>1, <2>3
  <2> HIDE DEF posted
  <2>6. \A k \in Instances :
          \/ row'[k] = row[k]
          \/ row'[k].id = n /\ row'[k].status = "pending"
    BY <2>1
  <2>7. QED
    BY <2>1, <2>4, <2>5, <2>6, SettledPosted
<1>11. QED
  BY <1>3, <1>5, <1>6, <1>7, <1>8, <1>9, <1>10 DEF AskAdmin, DenyOutbound

\* Serving a call: an adoption that was not overtaken makes the rows agree.
LEMMA ServeSettled ==
  ASSUME Typed, SecretsSettled, NEW c \in calls,
         ServeAccept(c) \/ ServeEpoch(c) \/ ServeDenied(c)
  PROVE  SecretsSettled'
<1> DEFINE j == Other(c.from)
<1>1. /\ c.from \in Instances /\ j \in Instances /\ j # c.from /\ c.id \in Ids
      /\ TypeOK /\ \A k \in Instances : k = c.from \/ k = j
      /\ {Here, There} = {c.from, j} /\ CallsDistinct
  BY TypedNow, OtherSide DEF Typed, SecretsSettled, Instances
<1>2. ASSUME NEW s \in Steps, calls' \in {calls \ {c}, Moved(c, s)},
             UNCHANGED <<row, worker, stale>>,
             c.kind \in Handshakes /\ s \in Granted => c.step \in Granted
      PROVE  SecretsSettled'
  <2>1. /\ CallsDistinct'
        /\ \A d \in calls' : \E e \in calls :
             SameCall(d, e) /\ (d = e \/ (e = c /\ d.step = s))
    BY <1>1, <1>2, MovedDistinct
  <2>2. \A d \in calls' : \E e \in calls :
           /\ SameCall(d, e)
           /\ d.kind \in Handshakes /\ d.step \in Granted => e.step \in Granted
    BY <1>2, <2>1 DEF SameCall
  <2>3. \A i \in Instances :
          row'[i].status \in {"active", "unreachable"} => Usable(i)
    BY <1>2 DEF Usable
  <2>4. QED
    BY <1>2, <2>1, <2>2, <2>3, SettledKept
<1>3. CASE ServeAccept(c)
  <2> DEFINE verdict == Verdict(j, c)
  <2>1. verdict \in Steps /\ (verdict \in Granted => verdict = "activated")
    BY DEF Verdict, Steps, Granted
  <2>2. calls' \in {calls \ {c}, Moved(c, verdict)} /\ UNCHANGED worker
        /\ c.kind \in Handshakes
    BY <1>3 DEF ServeAccept, Answer
  <2>3. CASE verdict = "activated" /\ Adopt(j, c)
    <3>1. /\ CallsDistinct'
          /\ \A d \in calls' : \E e \in calls : SameCall(d, e)
      BY <1>1, <2>1, <2>2, MovedDistinct
    <3>2. /\ AdoptedRow(j, c).secret = c.secret
          /\ AdoptedRow(j, c).id \in {row[j].id, c.id}
      BY <1>1 DEF AdoptedRow, TypeOK, Row
    <3>3. /\ row'[j] = AdoptedRow(j, c) /\ row'[c.from] = row[c.from]
          /\ stale' = Overtaken(c)
      BY <1>1, <2>3 DEF Adopt, TypeOK
    <3>4. UsableAgree'
      <4>1. ~ stale' => row[c.from].secret = c.secret
        BY <3>3 DEF Overtaken
      <4>2. QED
        BY <1>1, <3>2, <3>3, <4>1 DEF UsableAgree
    <3>5. \A i \in Instances : \A id :
            (Denies(i, id)' => Denies(i, id)) /\ (Writes(i, id)' => Writes(i, id))
      BY <2>2, <3>1 DEF Denies, Writes, SameCall
    <3>6. ~ Denies(j, c.id)
      BY <1>1, <2>2 DEF Denies, CallsDistinct, Handshakes
    <3>7. \A i \in Instances : ~ Denies(i, row'[i].id)
      BY <1>1, <3>2, <3>3, <3>6 DEF SecretsSettled, DenialsApart
    <3>8. \A i \in Instances : ~ Denies(i, row[i].id)'
      BY <3>5, <3>7 DEF Denies
    <3>9. DenialsApart'
      BY <3>5, <3>8 DEF SecretsSettled, DenialsApart
    <3>10. QED
      BY <3>1, <3>4, <3>9 DEF SecretsSettled
  <2>4. CASE verdict # "activated" /\ UNCHANGED <<row, stale>>
    BY <1>2, <2>1, <2>2, <2>4
  <2>5. QED
    BY <1>3, <2>3, <2>4 DEF ServeAccept
<1>4. CASE ServeEpoch(c)
  BY <1>2, <1>4 DEF ServeEpoch, Granted, Steps
<1>5. CASE ServeDenied(c)
  <2>1. UNCHANGED <<worker, stale>> /\ c.kind \notin Handshakes
        /\ \E s \in {"activated", "refused"} : calls' \in {calls \ {c}, Moved(c, s)}
    BY <1>5 DEF ServeDenied, Answer, Handshakes
  <2>2. "activated" \in Steps /\ "refused" \in Steps
    BY DEF Steps
  <2>3. /\ CallsDistinct'
        /\ \A d \in calls' : \E e \in calls : SameCall(d, e) /\ (d = e \/ e = c)
    BY <1>1, <2>1, <2>2, MovedDistinct
  <2>4. \A d \in calls' : \E e \in calls :
           /\ SameCall(d, e)
           /\ d.kind \in Handshakes /\ d.step \in Granted => e.step \in Granted
    BY <2>1, <2>3 DEF SameCall
  <2>5. \A i \in Instances :
          /\ row'[i].id = row[i].id /\ row'[i].secret = row[i].secret
          /\ row'[i] = row[i] \/ row'[i].status = "rejected"
    <3>1. "rejected" \in Status \ {"none"} /\ 0 \in Ids \cup {0}
      BY DEF Status
    <3>2. row' = row \/ row' = WithStatus(j, row[j].id, "rejected", 0)
      BY <1>5 DEF ServeDenied
    <3>3. CASE row' = WithStatus(j, row[j].id, "rejected", 0)
      <4>1. TypeOK /\ j \in Instances
        BY <1>1 DEF Typed
      <4>2. \A i \in Instances :
              /\ row'[i].id = row[i].id /\ row'[i].secret = row[i].secret
              /\ row'[i] = row[i] \/ row'[i].status = "rejected"
        BY ONLY <3>1, <3>3, <4>1, StatusWritten
      <4>3. QED
        BY <4>2
    <3>4. QED
      BY <3>2, <3>3
  <2>6. \A i \in Instances :
          row'[i].status \in {"active", "unreachable"} => Usable(i)
    BY <2>5 DEF Usable
  <2>7. QED
    BY <2>1, <2>3, <2>4, <2>5, <2>6, SettledKept
<1>6. QED
  BY <1>3, <1>4, <1>5
\* Hearing an answer: what becomes active was granted.
LEMMA HearSettled ==
  ASSUME Typed, SecretsSettled, NEW c \in calls, Hear(c)
  PROVE  SecretsSettled'
<1> DEFINE i == c.from
<1>1. /\ i \in Instances /\ c.id \in Ids /\ c.row \in Ids \cup {0} /\ TypeOK
      /\ UNCHANGED <<worker, stale>> /\ calls' = calls \ {c} /\ CallsDistinct
  BY TypedNow DEF Hear, Typed, SecretsSettled
<1>2. {"active", "awaiting_approval", "needs_attention", "rejected"} \subseteq Status \ {"none"}
      /\ "rejected" \notin {"active", "unreachable"}
  BY DEF Status
<1>3. CallsDistinct' /\ \A d \in calls' : SameCall(d, d) /\ d \in calls
  BY <1>1 DEF CallsDistinct, SameCall
<1>4. ASSUME \A k \in Instances :
               \/ /\ row'[k].id = row[k].id /\ row'[k].secret = row[k].secret
                  /\ row'[k].status \in {"active", "unreachable"} => Usable(k)
               \/ row'[k] = NoRow
               \/ /\ row'[k].status = "rejected" /\ row'[k].id \in Ids
                  /\ Denies(k, row'[k].id)
                  /\ \A d \in calls' : d.kind = "deny" => d.id # row'[k].id
      PROVE  SecretsSettled'
  BY <1>1, <1>3, <1>4, SettledKept
<1>5. \A k \in Instances : row[k].status \in {"active", "unreachable"} => Usable(k)
  BY DEF Usable
<1>6. CASE row' = row
  BY <1>4, <1>5, <1>6
<1>7. ASSUME NEW id \in Ids \cup {0}, NEW s \in Status \ {"none"}, NEW t \in Ids \cup {0},
             row' = WithStatus(i, id, s, t),
             s = "active" => (c.kind \in Handshakes /\ c.step \in Granted /\ c.row = id),
             s # "unreachable"
      PROVE  SecretsSettled'
  <2>1. \A k \in Instances :
           /\ row'[k].id = row[k].id /\ row'[k].secret = row[k].secret
           /\ \/ row'[k] = row[k]
              \/ k = i /\ row[i].id = id /\ row'[k].status = s
    BY <1>1, <1>7, StatusWritten
  <2>2. s = "active" /\ row[i].id = id => Usable(i)
    BY <1>7 DEF Usable
  <2>3. \A k \in Instances :
          row'[k].status \in {"active", "unreachable"} => Usable(k)
    BY <1>5, <1>7, <2>1, <2>2
  <2>4. QED
    BY <1>4, <2>1, <2>3
<1>8. CASE HearQueued(c)
  BY <1>1, <1>2, <1>7, <1>8 DEF HearQueued
<1>9. CASE HearActivated(c)
  BY <1>1, <1>2, <1>7, <1>9 DEF HearActivated, Activate, Handshakes, Granted
<1>10. CASE HearRefused(c)
  <2>1. CASE row' = WithoutRow(i, c.row)
    <3>1. \A k \in Instances : row'[k] = row[k] \/ row'[k] = NoRow
      BY <1>1, <2>1, RowDelete
    <3>2. QED
      BY <1>4, <1>5, <3>1
  <2>2. QED
    BY <1>1, <1>2, <1>6, <1>7, <1>10, <2>1 DEF HearRefused
<1>11. CASE HearDenied(c)
  <2> DEFINE denied == [id |-> c.id, status |-> "rejected", secret |-> c.secret,
                        token |-> 0, by |-> "denial"]
  <2>1. CASE row' = [row EXCEPT ![i] = denied]
    <3>1. Denies(i, c.id)
      BY <1>11 DEF HearDenied, Denies
    <3>2. row'[i] = denied /\ \A k \in Instances \ {i} : row'[k] = row[k]
      BY <1>1, <2>1 DEF TypeOK
    <3>3. \A d \in calls' : d.id # c.id
      BY <1>1 DEF CallsDistinct
    <3>4. denied.status = "rejected" /\ denied.id = c.id
      OBVIOUS
    <3>5. QED
      BY <1>1, <1>4, <1>5, <3>1, <3>2, <3>3, <3>4
  <2>2. CASE row' = row \/ row' = WithStatus(i, row[i].id, "rejected", 0)
    BY <1>1, <1>2, <1>6, <1>7, <2>2, TypedNow
  <2>3. QED
    BY <1>11, <2>1, <2>2 DEF HearDenied
<1>12. QED
  BY <1>8, <1>9, <1>10, <1>11 DEF Hear

\* The other steps: the worker and the probe keep usable rows usable.
LEMMA OtherStepSettled ==
  ASSUME Typed, SecretsSettled,
         \/ \E c \in calls : Abandon(c)
         \/ \E i \in Instances :
              \/ Restart(i) \/ Revoke(i) \/ RemoveRow(i) \/ StartTask(i) \/ EndTask(i)
              \/ \E id \in activated[i] : FanOut(i, id)
  PROVE  SecretsSettled'
<1>1. TypeOK /\ CallsDistinct /\ \A d \in calls : d.from \in Instances /\ SameCall(d, d)
  BY TypedNow DEF Typed, SecretsSettled, SameCall
<1>2. /\ {"revoked", "unreachable", "needs_attention", "active"} \subseteq Status \ {"none"}
      /\ "abandoned" \notin Granted
  BY DEF Status, Granted
<1>3. \A k \in Instances : row[k].status \in {"active", "unreachable"} => Usable(k)
  BY DEF Usable
<1>4. ASSUME NEW gone \in SUBSET calls, calls' = Forsaken(gone), stale' = stale,
             \A k \in Instances :
               /\ row'[k] = row[k] \/ row'[k] = NoRow
               /\ worker'[k] \in {worker[k], Idle}
      PROVE  SecretsSettled'
  <2>1. /\ CallsDistinct'
        /\ \A d \in calls' : \E e \in calls :
             SameCall(d, e) /\ (d = e \/ d.step = "abandoned")
    BY <1>1, <1>4, ForsakenDistinct
  <2>2. \A d \in calls' : \E e \in calls :
           /\ SameCall(d, e)
           /\ d.kind \in Handshakes /\ d.step \in Granted => e.step \in Granted
    BY <1>2, <2>1
  <2>3. QED
    BY <1>3, <1>4, <2>1, <2>2, SettledKept
<1>5. ASSUME UNCHANGED <<calls, stale>>,
             \A k \in Instances :
               /\ \/ /\ row'[k].id = row[k].id /\ row'[k].secret = row[k].secret
                     /\ row'[k].status \in {"active", "unreachable"} => Usable(k)
                  \/ row'[k] = NoRow
               /\ \/ worker'[k] \in {worker[k], Idle}
                  \/ /\ row'[k] = row[k] /\ worker'[k].id = row[k].id
                     /\ row[k].status \in {"active", "unreachable"}
      PROVE  SecretsSettled'
  <2>1. CallsDistinct'
    BY <1>1, <1>5 DEF CallsDistinct
  <2>2. \A d \in calls' : \E e \in calls :
           /\ SameCall(d, e)
           /\ d.kind \in Handshakes /\ d.step \in Granted => e.step \in Granted
    BY <1>1, <1>5
  <2>3. QED
    BY <1>5, <2>1, <2>2, SettledKept
<1>6. ASSUME NEW c \in calls, Abandon(c)
      PROVE  SecretsSettled'
  <2>1. \A k \in Instances : row'[k] = row[k] \/ row'[k] = NoRow
    <3>1. CASE row' = WithoutRow(c.from, c.row)
      BY <1>1, <3>1, RowDelete
    <3>2. QED
      BY <1>6, <3>1 DEF Abandon
  <2>2. {c} \in SUBSET calls /\ calls' = Forsaken({c}) /\ UNCHANGED <<stale, worker>>
    BY <1>6 DEF Abandon
  <2>3. QED
    BY <1>4, <2>1, <2>2
<1>7. ASSUME NEW i \in Instances, Restart(i)
      PROVE  SecretsSettled'
  <2>1. {c \in calls : c.from = i} \in SUBSET calls
    OBVIOUS
  <2>2. /\ calls' = Forsaken({c \in calls : c.from = i}) /\ UNCHANGED <<row, stale>>
        /\ \A k \in Instances : worker'[k] \in {worker[k], Idle}
    BY <1>1, <1>7 DEF Restart, TypeOK
  <2>3. QED
    BY <1>4, <2>1, <2>2
<1>8. ASSUME NEW i \in Instances, NEW id \in Ids \cup {0},
             NEW s \in {"revoked", "unreachable", "needs_attention", "active"},
             row' = WithStatus(i, id, s, 0), UNCHANGED <<calls, stale>>,
             \A k \in Instances : worker'[k] \in {worker[k], Idle},
             s \in {"active", "unreachable"} /\ row[i].id = id => Usable(i)
      PROVE  SecretsSettled'
  <2>1. \A k \in Instances :
           /\ row'[k].id = row[k].id /\ row'[k].secret = row[k].secret
           /\ \/ row'[k] = row[k]
              \/ k = i /\ row[i].id = id /\ row'[k].status = s
    BY <1>1, <1>2, <1>8, StatusWritten
  <2>2. \A k \in Instances :
          row'[k].status \in {"active", "unreachable"} => Usable(k)
    BY <1>3, <1>8, <2>1
  <2>3. QED
    BY <1>5, <1>8, <2>1, <2>2
<1>9. ASSUME NEW i \in Instances, Revoke(i)
      PROVE  SecretsSettled'
  <2>1. row[i].id \in Ids \cup {0} /\ row' = WithStatus(i, row[i].id, "revoked", 0)
        /\ UNCHANGED <<calls, worker, stale>>
    BY <1>9, TypedNow DEF Revoke
  <2>2. QED
    BY <1>8, <2>1
<1>10. ASSUME NEW i \in Instances, RemoveRow(i)
       PROVE  SecretsSettled'
  <2>1. UNCHANGED <<calls, worker, stale>>
        /\ \A k \in Instances : row'[k] = row[k] \/ row'[k] = NoRow
    BY <1>1, <1>10 DEF RemoveRow, TypeOK
  <2>2. QED
    BY <1>3, <1>5, <2>1
<1>11. ASSUME NEW i \in Instances, StartTask(i)
       PROVE  SecretsSettled'
  <2>1. UNCHANGED <<row, calls, stale>> /\ row[i].status \in {"active", "unreachable"}
    BY <1>11 DEF StartTask
  <2>2. \A k \in Instances :
          worker'[k] = worker[k] \/ (k = i /\ worker'[k].id = row[k].id)
    BY <1>1, <1>11 DEF StartTask, TypeOK
  <2>3. QED
    BY <1>3, <1>5, <2>1, <2>2
<1>12. ASSUME NEW i \in Instances, EndTask(i)
       PROVE  SecretsSettled'
  <2>1. /\ UNCHANGED <<calls, stale>> /\ worker[i] # Idle
        /\ worker[i].id \in Ids \cup {0}
        /\ \A k \in Instances : worker'[k] \in {worker[k], Idle}
    BY <1>1, <1>12, TypedNow DEF EndTask, TypeOK
  <2>2. row[i].id = worker[i].id => Usable(i)
    BY <2>1 DEF Usable
  <2>3. CASE row' = row
    BY <1>3, <1>5, <2>1, <2>3
  <2>4. ASSUME NEW s \in {"unreachable", "needs_attention", "active"},
               row' = WithStatus(i, worker[i].id, s, 0)
        PROVE  SecretsSettled'
    BY <1>8, <2>1, <2>2, <2>4
  <2>5. QED
    BY <1>12, <2>3, <2>4 DEF EndTask
<1>13. ASSUME NEW i \in Instances, NEW id \in activated[i], FanOut(i, id)
       PROVE  SecretsSettled'
  BY <1>3, <1>5, <1>13 DEF FanOut
<1>14. QED
  BY <1>6, <1>7, <1>9, <1>10, <1>11, <1>12, <1>13

\* Whatever calls cross, are lost or are served late, two rows that are active or
\* unreachable hold the same secret unless the last adoption took the secret of an overtaken request.
THEOREM SameSecret == Spec => []SameSecretUnlessOvertaken
<1>1. Init => SecretsSettled
  <2> SUFFICES ASSUME Init
               PROVE  SecretsSettled
    OBVIOUS
  <2>1. calls = {} /\ \A i \in Instances : row[i].secret = 0 /\ worker[i].id = 0
    BY DEF Init, NoRow, Idle
  <2>2. 0 \notin Ids /\ Here \in Instances /\ There \in Instances
    BY DEF Ids, Instances
  <2>3. QED
    BY <2>1, <2>2
    DEF SecretsSettled, CallsDistinct, DenialsApart, Denies, Writes, UsableAgree
<1>2. Typed /\ SecretsSettled /\ [Next]_vars => SecretsSettled'
  <2> SUFFICES ASSUME Typed, SecretsSettled, [Next]_vars
               PROVE  SecretsSettled'
    OBVIOUS
  <2>1. CASE UNCHANGED vars
    BY <2>1 DEF vars, SecretsSettled, CallsDistinct, DenialsApart, Denies, Writes,
                UsableAgree, Usable
  <2>2. CASE Next
    BY <2>2, OperationSettled, ServeSettled, HearSettled, OtherStepSettled DEF Next
  <2>3. QED
    BY <2>1, <2>2
<1>3. SecretsSettled => SameSecretUnlessOvertaken
  BY DEF SecretsSettled, UsableAgree, Usable, SameSecretUnlessOvertaken
<1>4. QED
  BY <1>1, <1>2, <1>3, TypeCorrect, PTL DEF Spec, Typed

-----------------------------------------------------------------------------
(* How an active row ends.                                                 *)

\* What a step must not be, for an active row of instance i to end otherwise.
NotAtHome(i) ==
  /\ ~(row'[i].status = "revoked" /\ row'[i].id = row[i].id)
  /\ ~(/\ worker[i] = [task |-> "relay", id |-> row[i].id]
       /\ row'[i].status \in {"unreachable", "needs_attention"})
  /\ \A c \in calls \ calls' :
       \/ c.from # i \/ c.kind \notin Handshakes \/ c.row # row[i].id
       \/ c.step = "abandoned"

\* The other instance's calls leave an active row active.
LEMMA ServeLeavesActive ==
  ASSUME Typed, NEW c \in calls,
         ServeAccept(c) \/ ServeEpoch(c) \/ ServeDenied(c),
         NEW i \in Instances, row[i].status = "active"
  PROVE  row'[i].status = "active"
<1> DEFINE j == Other(c.from)
<1>1. TypeOK /\ j \in Instances
  BY TypedNow, OtherSide DEF Typed
<1>2. CASE row' = row
  BY <1>2
<1>3. CASE Adopt(j, c)
  <2>1. AdoptedRow(j, c).status = "active"
    BY <1>1 DEF AdoptedRow, TypeOK, Row
  <2>2. row' = [row EXCEPT ![j] = AdoptedRow(j, c)]
    BY <1>3 DEF Adopt
  <2>3. QED
    BY <1>1, <2>1, <2>2 DEF TypeOK
<1>4. CASE /\ row' = WithStatus(j, row[j].id, "rejected", 0)
           /\ row[j].status = "awaiting_approval"
  <2>1. "rejected" \in Status \ {"none"} /\ 0 \in Ids \cup {0}
    BY DEF Status
  <2>2. row' = WithStatus(j, row[j].id, "rejected", 0)
    BY <1>4
  <2>3. \A k \in Instances : row'[k] = row[k] \/ k = j
    BY ONLY <1>1, <2>1, <2>2, StatusWritten
  <2>4. i # j
    BY <1>4
  <2>5. QED
    BY <2>3, <2>4
<1>5. QED
  BY <1>2, <1>3, <1>4 DEF ServeAccept, ServeEpoch, ServeDenied

\* So do the answers to calls about other rows, and to denials.
LEMMA HearLeavesActive ==
  ASSUME Typed, NEW c \in calls, Hear(c), NEW i \in Instances,
         row[i].status = "active", NotAtHome(i)
  PROVE  row'[i].status = "active"
<1>1. /\ TypeOK /\ c.from \in Instances /\ c.id \in Ids
      /\ c \in calls \ calls' /\ c.step # "abandoned"
  BY TypedNow
  DEF Typed, Hear, HearQueued, HearActivated, HearRefused, HearDenied
<1>2. c.from # i \/ c.kind \notin Handshakes \/ c.row # row[i].id
  BY <1>1 DEF NotAtHome
<1>3. {"active", "awaiting_approval", "needs_attention", "rejected"}
        \subseteq Status \ {"none"}
  BY DEF Status
<1>4. CASE row' = row
  BY <1>4
<1>5. ASSUME c.kind \in Handshakes, NEW s \in Status \ {"none"},
             NEW t \in Ids \cup {0}, row' = WithStatus(c.from, c.row, s, t)
      PROVE  row'[i].status = "active"
  <2>1. \A k \in Instances :
          row'[k] = row[k] \/ (k = c.from /\ row[c.from].id = c.row)
    BY ONLY <1>1, <1>5, StatusWritten
  <2>2. QED
    BY <1>2, <1>5, <2>1
<1>6. ASSUME c.kind \in Handshakes, row' = WithoutRow(c.from, c.row)
      PROVE  row'[i].status = "active"
  <2>1. row'[i] = row[i] \/ (i = c.from /\ row[c.from].id = c.row)
    BY <1>1, <1>6, RowDelete
  <2>2. QED
    BY <1>2, <1>6, <2>1
<1>7. CASE HearQueued(c)
  BY <1>1, <1>3, <1>5, <1>7 DEF HearQueued
<1>8. CASE HearActivated(c)
  BY <1>1, <1>3, <1>5, <1>8 DEF HearActivated, Activate, Handshakes
<1>9. CASE HearRefused(c)
  BY <1>1, <1>3, <1>4, <1>5, <1>6, <1>9 DEF HearRefused
<1>10. CASE HearDenied(c)
  <2> DEFINE k == c.from
  <2>1. CASE row[k].status = "none" /\ row' # row
    <3>1. i # k
      BY <2>1
    <3>2. QED
      BY <1>1, <1>10, <2>1, <3>1 DEF HearDenied, TypeOK
  <2>2. CASE row[k].status \notin {"none", "active"} /\ row' # row
    <3>1. row' = WithStatus(k, row[k].id, "rejected", 0)
      BY <1>10, <2>2 DEF HearDenied
    <3>2. "rejected" \in Status \ {"none"} /\ 0 \in Ids \cup {0}
      BY DEF Status
    <3>3. \A h \in Instances : row'[h] = row[h] \/ h = k
      BY ONLY <1>1, <3>1, <3>2, StatusWritten
    <3>4. i # k
      BY <2>2
    <3>5. QED
      BY <3>3, <3>4
  <2>3. QED
    BY <1>4, <1>10, <2>1, <2>2 DEF HearDenied
<1>11. QED
  BY <1>7, <1>8, <1>9, <1>10 DEF Hear

\* A task of the worker ends an active row only as a post to that row.
LEMMA EndTaskLeavesActive ==
  ASSUME Typed, NEW k \in Instances, EndTask(k), NEW i \in Instances,
         row[i].status = "active", NotAtHome(i)
  PROVE  row'[i].status = "active"
<1>1. TypeOK /\ worker[k] \in Task
  BY DEF Typed, TypeOK
<1>2. CASE row' = row
  BY <1>2
<1>3. ASSUME NEW s \in {"unreachable", "needs_attention", "active"},
             row' = WithStatus(k, worker[k].id, s, 0),
             s = "active" \/ worker[k].task = "relay"
      PROVE  row'[i].status = "active"
  <2>1. s \in Status \ {"none"} /\ 0 \in Ids \cup {0}
    BY DEF Status
  <2>2. \A h \in Instances :
          \/ row'[h] = row[h]
          \/ h = k /\ row[k].id = worker[k].id /\ row'[h].status = s
    BY ONLY <1>1, <1>3, <2>1, StatusWritten
  <2>3. CASE i = k /\ row[k].id = worker[k].id /\ row'[i].status = s
             /\ s # "active"
    <3>1. worker[i] = [task |-> "relay", id |-> row[i].id]
      BY <1>1, <1>3, <2>3 DEF Task
    <3>2. row'[i].status \in {"unreachable", "needs_attention"}
      BY <1>3, <2>3
    <3>3. QED
      BY <3>1, <3>2 DEF NotAtHome
  <2>4. QED
    BY <2>2, <2>3
<1>4. QED
  BY <1>2, <1>3 DEF EndTask

\* Only its own instance ends an active row.
THEOREM ActiveEnds == Spec => ActiveEndsAtHome
<1> DEFINE Ends == \A i \in Instances :
              row[i].status = "active" /\ row'[i].status # "active" =>
                \/ row'[i].status = "revoked" /\ row'[i].id = row[i].id
                \/ /\ worker[i] = [task |-> "relay", id |-> row[i].id]
                   /\ row'[i].status \in {"unreachable", "needs_attention"}
                \/ \E c \in calls \ calls' :
                     /\ c.from = i
                     /\ c.kind \in Handshakes
                     /\ c.row = row[i].id
                     /\ c.step # "abandoned"
<1>1. Typed /\ [Next]_vars => [Ends]_vars
  <2> SUFFICES ASSUME Typed, [Next]_vars, NEW i \in Instances,
                      row[i].status = "active", row'[i].status # "active",
                      NotAtHome(i)
               PROVE  FALSE
    BY DEF NotAtHome
  <2>1. TypeOK /\ row' # row
    BY DEF Typed
  <2>2. ASSUME NEW k \in Instances, row[k].status # "active", NEW r,
               row' = [row EXCEPT ![k] = r]
        PROVE  FALSE
    <3>1. k # i
      BY <2>2
    <3>2. QED
      BY <2>1, <2>2, <3>1 DEF TypeOK
  <2>3. ASSUME NEW k \in Instances,
               \/ Initiate(k) \/ CreatePlaceholder(k) \/ EnsureNewPeer(k)
               \/ EnsurePending(k) \/ AskAdmin(k) \/ ApproveInbound(k)
               \/ ApproveOutbound(k) \/ DenyInbound(k) \/ DenyOutbound(k)
        PROVE  FALSE
    BY <2>1, <2>2, <2>3
    DEF Initiate, CreatePlaceholder, EnsureNewPeer, EnsurePending, AskAdmin,
        ApproveInbound, ApproveOutbound, DenyInbound, DenyOutbound, Handshake
  <2>4. ASSUME NEW c \in calls,
               ServeAccept(c) \/ ServeEpoch(c) \/ ServeDenied(c) \/ Hear(c)
        PROVE  FALSE
    BY <2>4, ServeLeavesActive, HearLeavesActive
  <2>5. ASSUME NEW c \in calls, Abandon(c)
        PROVE  FALSE
    <3>1. /\ c.kind \in Handshakes /\ c.step # "abandoned"
          /\ row' = WithoutRow(c.from, c.row)
      BY <2>1, <2>5 DEF Abandon
    <3>2. c.from \in Instances /\ c \in Call
      BY TypedNow
    <3>3. i = c.from /\ row[c.from].id = c.row
      BY <2>1, <3>1, <3>2, RowDelete
    <3>4. c \notin Forsaken({c})
      BY <3>1, <3>2 DEF Forsaken, Call
    <3>5. c \in calls \ calls'
      BY <2>5, <3>4 DEF Abandon
    <3>6. QED
      BY <3>1, <3>3, <3>5 DEF NotAtHome
  <2>6. ASSUME NEW k \in Instances, Revoke(k)
        PROVE  FALSE
    <3>1. "revoked" \in Status \ {"none"} /\ 0 \in Ids \cup {0}
      BY DEF Status
    <3>2. row' = WithStatus(k, row[k].id, "revoked", 0)
      BY <2>6 DEF Revoke
    <3>3. \A h \in Instances :
            /\ row'[h].id = row[h].id
            /\ row'[h] = row[h] \/ row'[h].status = "revoked"
      BY ONLY <2>1, <2>6, <3>1, <3>2, StatusWritten
    <3>4. QED
      BY <3>3 DEF NotAtHome
  <2>7. ASSUME NEW k \in Instances, RemoveRow(k)
        PROVE  FALSE
    BY <2>2, <2>7 DEF RemoveRow
  <2>8. ASSUME NEW k \in Instances, EndTask(k)
        PROVE  FALSE
    BY <2>8, EndTaskLeavesActive
  <2>9. QED
    BY <2>1, <2>3, <2>4, <2>5, <2>6, <2>7, <2>8
    DEF Next, vars, Restart, StartTask, FanOut
<1>2. QED
  BY <1>1, TypeCorrect, PTL DEF ActiveEndsAtHome, Spec, Typed
=============================================================================
