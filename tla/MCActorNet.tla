----------------------------- MODULE MCActorNet -----------------------------
(* Messages shorter than, as long as and longer than the socket's buffer.  *)
EXTENDS ActorNet

MCSizes == {1, 2, 3}
=============================================================================
