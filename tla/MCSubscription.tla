--------------------------- MODULE MCSubscription ---------------------------
(***************************************************************************)
(* Instances of Subscription for TLC: two accounts, a message that exists  *)
(* from the beginning and is judged by its cursor, and one that comes      *)
(* later and is judged by its created_at.                                  *)
(***************************************************************************)
EXTENDS Subscription

CONSTANTS early, late, one, two

BornThen == [m \in {early, late} |-> IF m = early THEN 0 ELSE 1]
WithCursor == {early}
BelongsTo == [m \in {early, late} |-> IF m = early THEN one ELSE two]
=============================================================================
