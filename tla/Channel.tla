------------------------------ MODULE Channel ------------------------------
(***************************************************************************)
(* What STMP promises for one direction of a connection, with no bytes,    *)
(* buffers, length fields or segments in sight: messages come out as they  *)
(* were given and in the order given, none lost, doubled or made up, and   *)
(* all of them in the end, unless the connection fails.  A message of Held *)
(* may have to wait until another is given.                                *)
(*                                                                         *)
(* Framing implements this for the frames a peer sends, Segments for the   *)
(* messages that are sent in parts.                                        *)
(***************************************************************************)
EXTENDS Naturals, Sequences

CONSTANTS Messages,
          Held      \* messages that may be held up while they are the last

VARIABLES given,  \* the messages given so far
          out,    \* the messages that have come out
          open    \* the connection works

cvars == <<given, out, open>>

Init == given = <<>> /\ out = <<>> /\ open = TRUE

Give == /\ \E m \in Messages : given' = Append(given, m)
        /\ UNCHANGED out

Deliver == /\ Len(out) < Len(given)
           /\ out' = Append(out, given[Len(out) + 1])
           /\ UNCHANGED given

\* Giving a message, and taking one, may cost the connection.
Next == /\ Give \/ Deliver \/ UNCHANGED <<given, out>>
        /\ open' \in {open, FALSE}

Safety == Init /\ [][Next]_cvars

\* How many of the messages given have to come out.
Owed == IF given # <<>> /\ given[Len(given)] \in Held THEN Len(given) - 1 ELSE Len(given)

\* Only a connection that goes on working owes anything.
Spec == Safety /\ WF_cvars(open /\ Len(out) < Owed /\ Deliver /\ UNCHANGED open)
=============================================================================
