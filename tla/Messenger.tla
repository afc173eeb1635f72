----------------------------- MODULE Messenger -----------------------------
(***************************************************************************)
(* What the slave promises the master and the chats about messages sent to *)
(* WeChat, whatever answers are lost, writes fail and processes end:       *)
(*                                                                         *)
(*   - a message with a uid of its own is submitted once, any other one not *)
(*     again by the process in which its request was answered;             *)
(*   - a reply names the final id of the message replied to, or none;      *)
(*   - the master gets the ids of its own message's requests only, and a   *)
(*     message id is learned once WeChat has shown the message, for good.  *)
(***************************************************************************)
EXTENDS Naturals, Sequences

CONSTANTS Messages,   \* what the master sends
          Named,      \* of these, the ones with a uid of their own
          ReplyTo     \* the message each one replies to, if any

VARIABLES sent,       \* the requests accepted: the message, the target of the reply or 0
          shown,      \* the requests whose message WeChat has shown
          answered,   \* the messages whose request was answered to this process
          held,       \* held[m]: the request whose id the master holds for m, or 0
          learned     \* the requests whose message id is known in the mapping

vars == <<sent, shown, answered, held, learned>>

Init == /\ sent = <<>> /\ shown = {} /\ answered = {}
        /\ held = [m \in Messages |-> 0] /\ learned = {}

Of(m) == {i \in DOMAIN sent : sent[i].msg = m}

Submit(m, target) ==
  /\ m \notin answered
  /\ m \in Named => Of(m) = {}
  /\ target # 0 => target \in Of(ReplyTo[m]) \cap shown
  /\ sent' = Append(sent, [msg |-> m, target |-> target])
  /\ UNCHANGED <<shown, answered, held, learned>>

Show(i) == /\ i \in DOMAIN sent \ shown
           /\ shown' = shown \cup {i}
           /\ UNCHANGED <<sent, answered, held, learned>>

Answer(m) == /\ Of(m) # {}
             /\ answered' = answered \cup {m}
             /\ UNCHANGED <<sent, shown, held, learned>>

\* The call returns, with or without the message id.
Return(m, i) == /\ i \in Of(m)
                /\ held' = [held EXCEPT ![m] = i]
                /\ \/ learned' = learned
                   \/ i \in shown /\ learned' = learned \cup {i}
                /\ UNCHANGED <<sent, shown, answered>>

Learn(i) == /\ i \in shown
            /\ learned' = learned \cup {i}
            /\ UNCHANGED <<sent, shown, answered, held>>

\* The process ends, and with it the objects of the messages.
End == /\ answered' = {}
       /\ UNCHANGED <<sent, shown, held, learned>>

Next == \/ \E m \in Messages : \/ \E target \in {0} \cup shown : Submit(m, target)
                               \/ Answer(m)
                               \/ \E i \in Of(m) : Return(m, i)
        \/ \E i \in DOMAIN sent : Show(i) \/ Learn(i)
        \/ End

Spec == Init /\ [][Next]_vars
=============================================================================
