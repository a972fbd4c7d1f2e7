------------------------------- MODULE MCHub -------------------------------
(* Up to three sockets of one or two players, and channels with one slot.   *)
EXTENDS Hub
=============================================================================
