----------------------------- MODULE MCSending -----------------------------
(***************************************************************************)
(* Instances of Sending for TLC: a first message, and a reply to it.       *)
(***************************************************************************)
EXTENDS Sending

CONSTANTS first, reply

ReplyToFirst == [m \in {first, reply} |-> IF m = reply THEN first ELSE NoMessage]
=============================================================================
