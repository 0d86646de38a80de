------------------------------ MODULE Mailbox ------------------------------
(***************************************************************************)
(* What ipc::send and ipc::recv promise their callers, whatever path a     *)
(* message takes: a send that returns true puts the message in the         *)
(* receiver's mailbox, and a recv takes one message out of it, with the    *)
(* name of its sender.  Nothing is lost, invented or delivered twice.      *)
(***************************************************************************)
EXTENDS Naturals, Sequences

CONSTANTS Senders, MsgIds

Message == Senders \X MsgIds

VARIABLES inFlight,   \* messages accepted and not yet received
          received    \* what recv has returned: (attributed sender, message)

mailboxVars == <<inFlight, received>>

Init == inFlight = {} /\ received = <<>>

Post(m) ==
  /\ m \notin inFlight
  /\ \A i \in 1..Len(received) : received[i][2] # m
  /\ inFlight' = inFlight \cup {m}
  /\ UNCHANGED received

Deliver(m) ==
  /\ m \in inFlight
  /\ inFlight' = inFlight \ {m}
  /\ received' = Append(received, <<m[1], m>>)

Next == \E m \in Message : Post(m) \/ Deliver(m)

Spec == Init /\ [][Next]_mailboxVars
=============================================================================
