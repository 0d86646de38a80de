------------------------------- MODULE Signals -------------------------------
(***************************************************************************)
(* Signals of a user process (signal.rs): pending set, mask, handlers and  *)
(* the signal frames that deliveries put on the user stack.  Operators on  *)
(* the signal part of one process; UserProc applies them to the current    *)
(* one.  A frame holds the mask that install_sigframe saves.                *)
(***************************************************************************)
EXTENDS Naturals, Sequences, FiniteSetsExt

CONSTANTS
    Sigs,       \* the signal numbers in play
    Actions,    \* the SigActions that programs install
    MaxNest     \* bound: handlers nested on one user stack

SIGKILL == 9
SIGSEGV == 11
SIGCHLD == 17
SIGCONT == 18
SIGSTOP == 19
SIGWINCH == 28

\* SigAction::default(): SIG_DFL, no flags, empty mask.
DefaultAction == [handler |-> "DFL", nodefer |-> FALSE, resethand |-> FALSE, mask |-> {}]

SigAction == [handler : {"DFL", "IGN", "fn"}, nodefer : BOOLEAN, resethand : BOOLEAN,
              mask : SUBSET Sigs]

SigFrame == [sig : Sigs, mask : SUBSET Sigs]

ASSUME SigsAssumption == Sigs \subseteq 1..32 /\ Actions \subseteq SigAction

SigState == [pending : SUBSET Sigs, mask : SUBSET Sigs, act : [Sigs -> SigAction],
             frames : Seq(SigFrame)]

\* The signal fields of a slot that register fills.
FreshSignals == [pending |-> {}, mask |-> {}, act |-> [s \in Sigs |-> DefaultAction],
                 frames |-> <<>>]

\* What fork gives the child: handlers and mask, nothing pending, and the
\* frames that lie in the copied stack.
ForkSignals(sg) == [sg EXCEPT !.pending = {}]

\* A thread starts on a stack of its own.
CloneSignals(sg) == [sg EXCEPT !.pending = {}, !.frames = <<>>]

\* exec replaces the memory, hence the frames, and nothing else.
ExecSignals(sg) == [sg EXCEPT !.frames = <<>>]

raise(sg, s) == [sg EXCEPT !.pending = @ \cup ({s} \cap Sigs)]

\* install_sigframe: the handler's mask is what the frame saves.
install_sigframe(sg, s, mask) ==
    [sg EXCEPT !.mask = mask,
               !.frames = <<[sig |-> s, mask |-> mask]>> \o @]

\* The third arm of deliver_pending_signals: mask, one-shot reset, frame.
Handle(sg, s) ==
    LET a == sg.act[s]
        mask == sg.mask \cup (IF a.nodefer THEN {} ELSE {s}) \cup a.mask
        reset == IF a.resethand THEN [sg EXCEPT !.act[s] = DefaultAction] ELSE sg
    IN  install_sigframe(reset, s, mask)

Ignored(sg, s) ==
    \/ sg.act[s].handler = "IGN"
    \/ sg.act[s].handler = "DFL" /\ s \in {SIGCHLD, SIGCONT, SIGWINCH}

\* deliver_pending_signals at the end of a system call.
\* dies: the default action ends the process.
deliver_pending_signals(sg) ==
    LET ready == sg.pending \ sg.mask
        s == Min(ready)
        taken == [sg EXCEPT !.pending = @ \ {s}]
    IN  CASE ready = {}                   -> [sg |-> sg, dies |-> FALSE, code |-> 0]
          [] ready # {} /\ Ignored(sg, s) -> [sg |-> taken, dies |-> FALSE, code |-> 0]
          [] ready # {} /\ ~Ignored(sg, s) /\ sg.act[s].handler = "DFL"
                                          -> [sg |-> taken, dies |-> TRUE, code |-> 128 + s]
          [] OTHER                        -> [sg |-> Handle(taken, s), dies |-> FALSE, code |-> 0]

\* sys_rt_sigreturn takes the mask from the innermost frame.
sys_rt_sigreturn(sg) == [sg EXCEPT !.mask = Head(sg.frames).mask, !.frames = Tail(@)]

sys_rt_sigaction(sg, s, a) ==
    IF s \in {SIGKILL, SIGSTOP} THEN sg ELSE [sg EXCEPT !.act[s] = a]

sys_rt_sigprocmask(sg, how, set) ==
    [sg EXCEPT !.mask = CASE how = "BLOCK"   -> @ \cup (set \ {SIGKILL, SIGSTOP})
                          [] how = "UNBLOCK" -> @ \ set
                          [] how = "SETMASK" -> set \ {SIGKILL, SIGSTOP}]
=============================================================================
