---------------------------- MODULE RelayPromise ----------------------------
(***************************************************************************)
(* What federated relay promises about direct messages, whatever the       *)
(* outbox, the network and the retries do: each peer holds a replica that  *)
(* is at most one copy of each message, every copy is a version its author *)
(* really wrote, a copy appears only after the author sent the message and *)
(* disappears only after the author deleted it.                            *)
(*                                                                         *)
(* The promise says nothing of order: a copy may be overwritten by an      *)
(* older version and may come back after it was removed, because the       *)
(* receiver compares neither versions nor times.  RelayOutbox implements   *)
(* this module and states when the stronger guarantees hold.               *)
(***************************************************************************)
EXTENDS Naturals

CONSTANTS
  Peers,      \* the other instances that host a participant
  Msgs,       \* the direct messages written at this instance
  MaxEdits    \* bound: how often one message is edited

ASSUME MaxEditsAssumption == MaxEdits \in Nat

VARIABLES
  authored,   \* authored[m]: the message as its author left it here
  replica     \* the rows of the peers' dm_messages: [peer, msg, ver]

Versions == 0 .. MaxEdits

AuthoredMessage == [state : {"none", "live", "deleted"}, ver : Versions]

Copy == [peer : Peers, msg : Msgs, ver : Versions]

CopiesOf(p, m) == {c \in replica : c.peer = p /\ c.msg = m}

HasCopy(p, m) == \E c \in replica : c.peer = p /\ c.msg = m

PromiseInit ==
  /\ authored = [m \in Msgs |-> [state |-> "none", ver |-> 0]]
  /\ replica = {}

-----------------------------------------------------------------------------
(* The author's three operations.                                          *)

WriteNew(m) ==
  /\ authored[m].state = "none"
  /\ authored' = [authored EXCEPT ![m] = [state |-> "live", ver |-> 0]]

WriteEdit(m) ==
  /\ authored[m].state = "live"
  /\ authored[m].ver < MaxEdits
  /\ authored' = [authored EXCEPT ![m] = [state |-> "live",
                                          ver |-> authored[m].ver + 1]]

WriteDelete(m) ==
  /\ authored[m].state = "live"
  /\ authored' = [authored EXCEPT ![m] = [state |-> "deleted",
                                          ver |-> authored[m].ver]]

-----------------------------------------------------------------------------
(* What a peer's replica may do at any time.                               *)

Insert(p, m, v) ==
  /\ authored[m].state # "none"
  /\ v <= authored[m].ver
  /\ ~ HasCopy(p, m)
  /\ replica' = replica \cup {[peer |-> p, msg |-> m, ver |-> v]}

Overwrite(p, m, v) ==
  /\ v <= authored[m].ver
  /\ HasCopy(p, m)
  /\ replica' = (replica \ CopiesOf(p, m))
                  \cup {[peer |-> p, msg |-> m, ver |-> v]}

Remove(p, m) ==
  /\ authored[m].state = "deleted"
  /\ HasCopy(p, m)
  /\ replica' = replica \ CopiesOf(p, m)

PromiseNext ==
  \/ \E m \in Msgs :
       /\ WriteNew(m) \/ WriteEdit(m) \/ WriteDelete(m)
       /\ UNCHANGED replica
  \/ \E p \in Peers, m \in Msgs :
       /\ \/ \E v \in Versions : Insert(p, m, v) \/ Overwrite(p, m, v)
          \/ Remove(p, m)
       /\ UNCHANGED authored

PromiseVars == <<authored, replica>>

PromiseSpec == PromiseInit /\ [][PromiseNext]_PromiseVars
=============================================================================
