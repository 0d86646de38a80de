----------------------------- MODULE MCMessages ------------------------------
(***************************************************************************)
(* Messages between threads, and what the policy engine makes of the       *)
(* threads it watches: when a pair is hot (Learner) and how a process and  *)
(* the scheduler are tuned (Tuning).  `focus` is chosen in the initial     *)
(* state; every step belongs to the part in focus, so the three state      *)
(* spaces add up.                                                          *)
(***************************************************************************)
EXTENDS Ipc, Tuning, Learner

VARIABLE focus

messagesVars == <<vars, tuneVars, learnVars, focus>>

MessagesInit ==
    /\ focus \in {"ipc", "tuning", "learner"}
    /\ Init /\ TuneInit /\ LearnInit
    /\ focus # "tuning" => load = Min(Loads) /\ mood = [p \in TunePids |-> "cpu"]

MessagesNext ==
    /\ UNCHANGED focus
    /\ \/ focus = "ipc" /\ Next /\ UNCHANGED <<tuneVars, learnVars>>
       \/ focus = "tuning" /\ TuneNext /\ UNCHANGED <<vars, learnVars>>
       \/ focus = "learner" /\ LearnNext /\ UNCHANGED <<vars, tuneVars>>

\* The fairness of Ipc, for the behaviours that are about it.
Messaging(A) == focus = "ipc" /\ A /\ UNCHANGED <<tuneVars, learnVars, focus>>
MessagesFair ==
    /\ WF_messagesVars(Messaging(ReceiverStep))
    /\ \A s \in SenderPids : WF_messagesVars(Messaging(SendGoesOn(s)))

MessagesSpec == MessagesInit /\ [][MessagesNext]_messagesVars /\ MessagesFair

\* The state of the three parts keeps its shape.
MessagesTypeOK == TypeOK /\ TuneTypeOK /\ LearnTypeOK
=============================================================================
