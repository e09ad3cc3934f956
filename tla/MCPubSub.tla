------------------------------ MODULE MCPubSub ------------------------------
(***************************************************************************)
(* Two workers, two connections on the first, one of them without a user,  *)
(* two publications on the same two topics.                                *)
(***************************************************************************)
EXTENDS PubSub

CONSTANTS c1, c2, root, path

MCHome == (c1 :> 1) @@ (c2 :> 1)
MCOf == [p \in Pubs |-> <<root, path>>]

MCSymmetry == Permutations(Pubs)
=============================================================================
