---------------------------- MODULE MCDirectory ----------------------------
(***************************************************************************)
(* Instances of Directory for TLC: two chats on different pages.           *)
(***************************************************************************)
EXTENDS Directory

CONSTANTS near, far, second, third

Paging == [c \in {near, far} |-> IF c = near THEN First ELSE second]

\* A chain of all pages, a chain that turns back, and one that skips a page and stops
\* at its own cursor.
Chain(first, after) ==
  [c \in {First, second, third} |->
     IF c = First THEN first ELSE IF c = second THEN third ELSE after]
Answers == {Chain(second, Last), Chain(second, second), Chain(third, third)}
=============================================================================
