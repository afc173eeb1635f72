---------------------------- MODULE StreamReader ----------------------------
(***************************************************************************)
(* What the slave promises as the reader of Core's event stream: the       *)
(* cursor goes from one event to the next, and over an event only when the *)
(* event is done.                                                          *)
(*                                                                         *)
(*   idle -> taken -> done   -> idle, the cursor advanced                  *)
(*       \------------^                                                    *)
(*   idle -> passed          -> idle, the cursor advanced, closing only    *)
(*                                                                         *)
(* From any place the reader may give up: it will read the event again.    *)
(* Apart from that the cursor moves only forward, to a beginning that was  *)
(* set for the subscription.  Once the reader is closing it takes up no    *)
(* event.                                                                  *)
(***************************************************************************)
EXTENDS Naturals

VARIABLES head,         \* how many events there are
          beginnings,   \* where the subscription was said to begin
          cursor,       \* how many of the events lie behind the reader
          place,        \* how far it is with the next one
          closing,      \* it is about to end
          missed        \* the events passed without being handled

vars == <<head, beginnings, cursor, place, closing, missed>>

Init == /\ head = 0 /\ beginnings = {} /\ cursor = 0
        /\ place = "idle" /\ closing = FALSE /\ missed = {}

Publish == /\ head' = head + 1
           /\ UNCHANGED <<beginnings, cursor, place, closing, missed>>

\* A beginning is set, or met again.  An idle reader behind it goes there.
Begin(n) == /\ n \in 0 .. head
            /\ beginnings' = beginnings \cup {n}
            /\ \/ cursor' = cursor
               \/ place = "idle" /\ cursor < n /\ cursor' = n
            /\ UNCHANGED <<head, place, closing, missed>>

Take == /\ place = "idle" /\ cursor < head /\ ~closing
        /\ place' = "taken"
        /\ UNCHANGED <<head, beginnings, cursor, closing, missed>>

Handle == /\ place = "taken" \/ (place = "idle" /\ ~closing)
          /\ cursor < head
          /\ place' = "done"
          /\ UNCHANGED <<head, beginnings, cursor, closing, missed>>

PassOver == /\ place = "idle" /\ cursor < head /\ closing
            /\ place' = "passed"
            /\ UNCHANGED <<head, beginnings, cursor, closing, missed>>

Advance == /\ place \in {"done", "passed"}
           /\ place' = "idle"
           /\ cursor' = cursor + 1
           /\ missed' = IF place = "passed" THEN missed \cup {cursor'} ELSE missed
           /\ UNCHANGED <<head, beginnings, closing>>

GiveUp == /\ place' = "idle"
          /\ UNCHANGED <<head, beginnings, cursor, closing, missed>>

Close == /\ closing' = TRUE
         /\ UNCHANGED <<head, beginnings, cursor, place, missed>>

\* The process ends; the next one starts from the cursor.
End == /\ place' = "idle" /\ closing' = FALSE
       /\ UNCHANGED <<head, beginnings, cursor, missed>>

Next == \/ Publish \/ Take \/ Handle \/ PassOver \/ Advance \/ GiveUp \/ Close \/ End
        \/ \E n \in 0 .. head : Begin(n)

Spec == Init /\ [][Next]_vars
=============================================================================
