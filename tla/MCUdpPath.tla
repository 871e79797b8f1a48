------------------------------- MODULE MCUdpPath -------------------------------
(***************************************************************************)
(* Instances of UdpPath for TLC, with small numbers for the sizes: buffers *)
(* of 6 bytes, datagrams of at most 9, a stamp of 2.                       *)
(***************************************************************************)
EXTENDS UdpPath

CONSTANT client

MCCreator == {client}

fits   == [id |-> 1, size |-> 4, creator |-> client]   \* a buffer exactly
small  == [id |-> 2, size |-> 1, creator |-> client]
big    == [id |-> 3, size |-> 5, creator |-> client]   \* a datagram but not a buffer
huge   == [id |-> 4, size |-> 8, creator |-> client]   \* not even a datagram

MCAll  == {fits, small, big, huge}
================================================================================
