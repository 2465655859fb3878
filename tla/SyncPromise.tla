---------------------------- MODULE SyncPromise ----------------------------
(***************************************************************************)
(* What pull-sync promises about a peer's mutation log, whatever the pages *)
(* of the answer, the clocks and the failures do: lastSyncedAt is a        *)
(* horizon.  An entry stamped at or before it has been replayed here, or   *)
(* belongs to a set of entries the pull has given up for good; the horizon *)
(* moves past an entry in no other way, and an entry that was replayed is  *)
(* never forgotten.  Peering anew takes the horizon back to the beginning. *)
(*                                                                         *)
(* The module does not say what may be given up: SyncPull implements it    *)
(* and counts the five ways it happens.                                    *)
(***************************************************************************)
EXTENDS Naturals, Sequences

VARIABLES
  entries,    \* the peer's mutation log: [stamp, wanted]
  delivered,  \* entries replayed here
  waived,     \* entries the pull will not ask for again
  horizon     \* lastSyncedAt

promiseVars == <<entries, delivered, waived, horizon>>

Due(h) == {i \in DOMAIN entries : entries[i].wanted /\ entries[i].stamp <= h}

\* The promise itself: nothing due at the horizon is unaccounted for.
Kept == Due(horizon) \subseteq delivered \cup waived

PromiseInit ==
  /\ entries = << >>
  /\ delivered = {}
  /\ waived = {}
  /\ horizon = 0

\* The peer logs an entry; deleting a message makes an older one unwanted.
Publish ==
  /\ Len(entries') = Len(entries) + 1
  /\ \A i \in DOMAIN entries :
       /\ entries'[i].stamp = entries[i].stamp
       /\ entries'[i].wanted => entries[i].wanted
  /\ waived \subseteq waived'
  /\ waived' \ waived \subseteq {Len(entries')}
  /\ UNCHANGED <<delivered, horizon>>
  /\ Kept'

Deliver ==
  /\ \E i \in DOMAIN entries \ delivered : delivered' = delivered \cup {i}
  /\ UNCHANGED <<entries, waived, horizon>>

Advance ==
  /\ horizon' >= horizon
  /\ waived \subseteq waived'
  /\ waived' \subseteq DOMAIN entries
  /\ UNCHANGED <<entries, delivered>>
  /\ Kept'

StartOver ==
  /\ horizon' = 0
  /\ waived' = {}
  /\ UNCHANGED <<entries, delivered>>

PromiseNext == Publish \/ Deliver \/ Advance \/ StartOver

PromiseSpec == PromiseInit /\ [][PromiseNext]_promiseVars
=============================================================================
