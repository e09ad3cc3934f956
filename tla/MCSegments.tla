----------------------------- MODULE MCSegments -----------------------------
(***************************************************************************)
(* Messages of every kind, and payloads of no byte up to three segments    *)
(* and one byte, around every multiple of the segment's length.            *)
(***************************************************************************)
EXTENDS Segments

\* The payload's bytes are told apart by their place.
Bytes(n) == [k \in 1 .. n |-> k]
Payloads == {Bytes(n) : n \in 0 .. 3 * 2 + 1}

\* Six fields fill what is reserved.
MCCost == [f \in Fields |-> IF f = "dne" THEN 2 ELSE 1]

MCMessages ==
  {m \in [kind : Kinds, tid : Tids, ret : Rets, sid : Sids \cup {None},
          dat : Payloads \cup {None}] : WellFormed(m)}
=============================================================================
