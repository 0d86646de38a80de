-------------------------------- MODULE MCIo ---------------------------------
(***************************************************************************)
(* What comes in and goes out: messages over channels that are reclaimed,  *)
(* the virtio drivers, the network stack, keys, pipes and the desktop.     *)
(* `focus` is chosen in the initial state and every step belongs to the    *)
(* part in focus, so the state spaces add up.  The ring of input events    *)
(* has a focus of its own, with the interrupts that fill it.               *)
(***************************************************************************)
EXTENDS Ipc, Net, Input

VARIABLE focus

\* Two hosts; the first one changes its hardware address.
Announced == {<<1, 1>>, <<1, 2>>, <<2, 1>>}

\* The place of the one window, and its button in the task bar.
WindowX == <<1>>
WindowY == <<0>>
WindowButtons == <<{3}>>

ioVars == <<vars, blkVars, rxVars, netVars, ringVars, kbdVars, pipeVars, desktopVars, focus>>

IoInit ==
    /\ Init /\ BlkInit /\ post_rx_all /\ NetInit
    /\ InputInit
    /\ focus \in {"ipc", "block", "net", "keys", "events", "pipes", "epoll", "desktop"}

\* A key pressed while a program waits in select, poll or epoll_wait.
Key == irq_handler_keyboard([make |-> "alpha", is_break |-> FALSE]) /\ UNCHANGED pipeVars

\* epoll_wait alone; poll and select are in focus with the pipe.
EpollWait == \E entry \in Entries : WaitBegin([op |-> "epoll", pc |-> "test"], entry)

Messages == focus = "ipc" /\ Next
            /\ UNCHANGED <<blkVars, rxVars, netVars, ringVars, kbdVars, pipeVars, desktopVars>>
Block    == focus = "block" /\ BlkNext
            /\ UNCHANGED <<vars, rxVars, netVars, ringVars, kbdVars, pipeVars, desktopVars>>
Network  == focus = "net" /\ NetNext
            /\ UNCHANGED <<vars, blkVars, ringVars, kbdVars, pipeVars, desktopVars>>
Typing   == /\ \/ focus = "keys" /\ KbdNext
               \/ focus = "events" /\ (RingTasks \/ RingIrq) /\ UNCHANGED kbdVars
            /\ UNCHANGED <<vars, blkVars, rxVars, netVars, pipeVars, desktopVars>>
Waiting  == /\ \/ focus = "pipes" /\ (PipeCalls \/ WaitingCalls \/ Key)
               \/ focus = "epoll" /\ (EpollCalls \/ EpollWait \/ WaitStep \/ Key)
            /\ UNCHANGED <<vars, blkVars, rxVars, netVars, desktopVars>>
Mouse    == focus = "desktop" /\ DesktopNext
            /\ UNCHANGED <<vars, blkVars, rxVars, netVars, kbdVars, pipeVars>>

IoNext ==
    /\ UNCHANGED focus
    /\ Messages \/ Block \/ Network \/ Typing \/ Waiting \/ Mouse

\* A reader inside read_key_blocking and a caller inside a polling loop keep
\* running, and the timer keeps ticking.  It wakes a halted processor only
\* with interrupts on: ReadWake and WaitWake are not enabled without.
ReaderRuns == focus = "keys" /\ ReadStep
              /\ UNCHANGED <<vars, blkVars, rxVars, netVars, pipeVars, desktopVars, focus>>
WaiterRuns == focus \in {"pipes", "epoll"} /\ WaitStep
              /\ UNCHANGED <<vars, blkVars, rxVars, netVars, desktopVars, focus>>
CallerRuns == focus = "net" /\ (arp_resolve \/ ping)
              /\ UNCHANGED <<vars, blkVars, ringVars, kbdVars, pipeVars, desktopVars, focus>>
TimerRuns  == focus = "net" /\ NetTick
              /\ UNCHANGED <<vars, blkVars, ringVars, kbdVars, pipeVars, desktopVars, focus>>

IoSpec == /\ IoInit /\ [][IoNext]_ioVars
          /\ WF_ioVars(ReaderRuns) /\ WF_ioVars(WaiterRuns)
          /\ WF_ioVars(CallerRuns) /\ WF_ioVars(TimerRuns)

\* A call that blocks with interrupts on returns: a read and a wait when
\* there is a key, a call of the network stack, which the kernel's own task
\* makes, at its deadline at the latest.
BlockedCallsReturn == KeyEndsRead /\ KeyEndsWait /\ NetCallsReturn
=============================================================================
