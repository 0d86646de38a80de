-------------------------------- MODULE Input --------------------------------
(***************************************************************************)
(* Everything that comes in by interrupt and what programs do with it: the *)
(* keyboard, the mouse and its windows, the ring of input events they both *)
(* fill, and the pipe and the calls that wait, over the keyboard.          *)
(***************************************************************************)
EXTENDS Pipes, Desktop

inputVars == <<ringVars, kbdVars, pipeVars, desktopVars>>

InputInit == RingInit /\ KbdInit /\ PipesInit /\ DesktopInit

\* Interrupts, the tasks of the event ring and the calls of the program, in
\* any order.  While the program is in a call with interrupts off, nothing
\* else runs on its processor.
InputNext ==
    \/ (KbdIrq \/ ReadStep) /\ UNCHANGED <<pipeVars, desktopVars>>
    \/ Calling /\ (\E entry \in Entries : ReadBegin(entry)) /\ UNCHANGED <<pipeVars, desktopVars>>
    \/ intr_on /\ RingTasks /\ UNCHANGED <<kbdVars, pipeVars, desktopVars>>
    \/ (PipeCalls \/ EpollCalls \/ WaitingCalls) /\ UNCHANGED desktopVars
    \/ intr_on /\ DesktopNext /\ UNCHANGED <<kbdVars, pipeVars>>

InputSpec == InputInit /\ [][InputNext]_inputVars

\* Keys, input events and pipe bytes come out of their rings in the order
\* they went in, each once.
InputInOrder == KeysInOrder /\ EventsInOrder /\ PipeInOrder
=============================================================================
