----------------------------- MODULE MCGroupDm -----------------------------
(***************************************************************************)
(* Values of GroupDm's constants for model checking.                       *)
(***************************************************************************)
EXTENDS GroupDm, TLC

CONSTANTS A, B, C, a1, a2, b, c, n1, ic

\* Two users share an instance.
MCHome == (a1 :> A) @@ (a2 :> A) @@ (b :> B) @@ (c :> C)

\* The users of A are interchangeable, and so are B and C with their users.
HomeSymmetry ==
  {p \in Permutations({B, C, a1, a2, b, c}) :
     /\ p[a1] \in {a1, a2} /\ p[a2] \in {a1, a2}
     /\ \/ p[B] = B /\ p[C] = C /\ p[b] = b
        \/ p[B] = C /\ p[C] = B /\ p[b] = c}
=============================================================================
