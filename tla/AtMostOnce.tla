----------------------------- MODULE AtMostOnce -----------------------------
(***************************************************************************)
(* What the slave promises about one business message, as the header of    *)
(* EffectLedger.py states it: AT_MOST_ONCE_WITH_FAIL_CLOSED_UNCERTAIN.      *)
(*                                                                         *)
(*   unseen -> attempting -> delivered                                     *)
(*                        \-> uncertain                                    *)
(*   unseen -> failed                                                      *)
(*                                                                         *)
(* An attempt starts only for a message this consumer owes, the master is  *)
(* reached at most once, inside an attempt, and an attempt that ended is   *)
(* never taken up again.                                                   *)
(***************************************************************************)
EXTENDS Naturals

CONSTANTS Messages,   \* the business messages of the account
          Owed        \* those created at or after the subscription floor

VARIABLES outcome,    \* outcome[m]: how far the effect of m got
          reached     \* reached[m]: how often m reached the master

vars == <<outcome, reached>>

Init == /\ outcome = [m \in Messages |-> "unseen"]
        /\ reached = [m \in Messages |-> 0]

Attempt(m) == /\ m \in Owed
              /\ outcome[m] = "unseen"
              /\ outcome' = [outcome EXCEPT ![m] = "attempting"]
              /\ UNCHANGED reached

Reach(m) == /\ outcome[m] = "attempting"
            /\ reached[m] = 0
            /\ reached' = [reached EXCEPT ![m] = 1]
            /\ UNCHANGED outcome

Confirm(m) == /\ outcome[m] = "attempting"
              /\ reached[m] = 1
              /\ outcome' = [outcome EXCEPT ![m] = "delivered"]
              /\ UNCHANGED reached

\* A restart gives up every open attempt at once.
GiveUp(S) == /\ \A m \in S : outcome[m] = "attempting"
             /\ outcome' = [m \in Messages |->
                              IF m \in S THEN "uncertain" ELSE outcome[m]]
             /\ UNCHANGED reached

Fail(m) == /\ m \in Owed
           /\ outcome[m] = "unseen"
           /\ outcome' = [outcome EXCEPT ![m] = "failed"]
           /\ UNCHANGED reached

Next == \/ \E m \in Messages : Attempt(m) \/ Reach(m) \/ Confirm(m) \/ Fail(m)
        \/ \E S \in SUBSET Messages : GiveUp(S)

Spec == Init /\ [][Next]_vars
=============================================================================
