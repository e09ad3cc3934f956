------------------------------- MODULE Stream -------------------------------
(***************************************************************************)
(* What ActorNet::send promises for one connection: the bytes given to it  *)
(* come out at the peer in the order given, none lost or doubled, and all  *)
(* of them in the end, unless the connection is lost.                      *)
(* Bytes are numbered in the order given.  ActorNet implements this.       *)
(***************************************************************************)
EXTENDS Naturals, Sequences

CONSTANT Sizes   \* the lengths a message may have

VARIABLES given,  \* how many bytes have been given
          out,    \* what the peer has received
          open    \* the connection is up

svars == <<given, out, open>>

Init == given = 0 /\ out = <<>> /\ open = TRUE

Give == /\ \E n \in Sizes : given' = given + n
        /\ UNCHANGED <<out, open>>

\* What was given before the loss may be lost with the connection.
GiveUp == /\ \E n \in Sizes : given' = given + n
          /\ open' = FALSE
          /\ UNCHANGED out

Deliver == /\ open /\ Len(out) < given
           /\ out' = Append(out, Len(out) + 1)
           /\ UNCHANGED <<given, open>>

Lose == open' = FALSE /\ UNCHANGED <<given, out>>

Next == Give \/ GiveUp \/ Deliver \/ Lose

Safety == Init /\ [][Next]_svars

Spec == Safety /\ WF_svars(Deliver)
=============================================================================
