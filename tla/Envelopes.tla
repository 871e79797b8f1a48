------------------------------- MODULE Envelopes -------------------------------
(***************************************************************************)
(* The envelopes clients submit to the ordering service.  What the orderer *)
(* tells apart is an envelope's size, the bytes of its payload and         *)
(* signature (messageSizeBytes), and the identity that signed it.          *)
(***************************************************************************)
EXTENDS Integers, Sequences

CONSTANTS Creator,   \* the identities that sign envelopes
          Message    \* the normal (non-config) envelopes that may be submitted

ASSUME MessagesAreEnvelopes ==
  \A m \in Message : m.size \in Nat /\ m.creator \in Creator
================================================================================
