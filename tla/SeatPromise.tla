---------------------------- MODULE SeatPromise ----------------------------
(***************************************************************************)
(* What the instances of a group conversation promise about its seat, the  *)
(* right to kick, transfer and rename, whatever the order, the loss and    *)
(* the repetition of their events: the seat is a baton.  One instance      *)
(* holds it and hands it to another, it is on its way, and the other takes *)
(* it.  One that has no channel yet accepts the transfer and forgets it:   *)
(* the baton is then found by that instance alone, in a later snapshot of  *)
(* the group, or it stays where it fell and nobody ever holds it again.    *)
(*                                                                         *)
(* The promise ends when an instance starts from a snapshot that is ahead  *)
(* of a transfer to it: from then on there may be two seats, or none.      *)
(* GroupDm implements this module.                                         *)
(***************************************************************************)
CONSTANT Instances

VARIABLES
  founded,    \* the group was created
  forked,     \* a snapshot was ahead of a transfer
  holders,    \* the instance that holds the seat
  bound,      \* the instance the seat is on its way to
  forgotten   \* the instance that accepted the seat and forgot it

seatVars == <<founded, forked, holders, bound, forgotten>>

PromiseInit ==
  /\ founded = FALSE
  /\ forked = FALSE
  /\ holders = {}
  /\ bound = {}
  /\ forgotten = {}

Found(i) ==
  /\ ~founded
  /\ founded' = TRUE
  /\ holders' = {i}
  /\ UNCHANGED <<forked, bound, forgotten>>

Pass(i, j) ==
  /\ i # j
  /\ holders = {i}
  /\ holders' = {}
  /\ bound' = {j}
  /\ UNCHANGED <<founded, forked, forgotten>>

Take(j) ==
  /\ bound = {j}
  /\ bound' = {}
  /\ holders' = {j}
  /\ UNCHANGED <<founded, forked, forgotten>>

Forget(j) ==
  /\ bound = {j}
  /\ bound' = {}
  /\ forgotten' = {j}
  /\ UNCHANGED <<founded, forked, holders>>

\* A later snapshot names a user of j as the owner.
Refind(j) ==
  /\ forgotten = {j}
  /\ forgotten' = {}
  /\ holders' = {j}
  /\ UNCHANGED <<founded, forked, bound>>

\* j starts from a snapshot that names an earlier owner: the seat is gone.
Strand(j) ==
  /\ forgotten = {j}
  /\ forgotten' = {}
  /\ UNCHANGED <<founded, forked, holders, bound>>

\* The end of the promise.
Fork ==
  /\ founded
  /\ forked' = TRUE
  /\ holders' = {}
  /\ bound' = {}
  /\ forgotten' = {}
  /\ UNCHANGED founded

PromiseNext ==
  \/ \E i \in Instances :
       Found(i) \/ Take(i) \/ Forget(i) \/ Refind(i) \/ Strand(i)
  \/ \E i, j \in Instances : Pass(i, j)
  \/ Fork

PromiseSpec == PromiseInit /\ [][PromiseNext]_seatVars
=============================================================================
