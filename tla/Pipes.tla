-------------------------------- MODULE Pipes --------------------------------
(***************************************************************************)
(* The pipe, poll, select and epoll (syscall/pipe.rs, sys_poll, the pipe   *)
(* branches of sys_read, sys_write and sys_close, socket numbers of        *)
(* sock.rs) over the keyboard.  There is one ring for all pipes and one    *)
(* list for all epoll descriptors.  A call that waits halts the processor  *)
(* in a loop: no other user program runs meanwhile, only interrupts.       *)
(***************************************************************************)
EXTENDS Keyboard, FiniteSets

CONSTANTS
    PIPE_CAP,     \* cells of the pipe's ring
    EPOLL_MAX,    \* entries of the list
    MaxPipes,     \* bound: calls of pipe
    WatchedFds,   \* the descriptors given to poll, select and epoll
    Words         \* the 32-bit words a program puts into an epoll_event

ASSUME PipesAssumption ==
    /\ PIPE_CAP \in Nat \ {0, 1} /\ EPOLL_MAX \in Nat \ {0} /\ MaxPipes \in Nat
    /\ WatchedFds \subseteq Nat

VARIABLES
    pipe,       \* PIPE_BUF, PIPE_HEAD, PIPE_TAIL; owed is history: what was
                \* written since the last pipe call and not yet read
    read_fd,    \* PIPE_READ_FD, the other end is one more; -1 before
    next_fd,    \* NEXT_PIPE_FD
    ep,         \* EP_FD, EP_EV, EP_DATA and EP_CNT
    call        \* the call the program waits in

pipeVars == <<pipe, read_fd, next_fd, ep, call>>

FirstPipeFd == 10
NoFd == -1
PipeBytes == {"x", "y"}
EvSets == {{"IN"}, {"OUT"}, {"IN", "OUT"}}
NoCall == [op |-> "none", pc |-> "user"]

is_read_fd(fd) == fd # NoFd /\ fd = read_fd
is_write_fd(fd) == fd # NoFd /\ read_fd # NoFd /\ fd = read_fd + 1
has_data == pipe.head # pipe.tail

is_read_ready(fd) == (fd = 0 /\ has_key) \/ (is_read_fd(fd) /\ has_data)
is_write_ready(fd) == fd \in {1, 2} \/ is_write_fd(fd)

\* Every number from 20 on is taken for a socket, and one is never ready.
is_sock_fd(fd) == fd >= 20

\* A program that is in no call: only then can it make one.
Calling == call = NoCall /\ reader.pc = "user"
KeepsPipe == UNCHANGED <<pipe, read_fd, next_fd>>
KeepsInput == UNCHANGED <<kbdVars, ringVars>>

-----------------------------------------------------------------------------
(* The pipe. *)

\* pipe2 too.  What the ring still holds belongs to an earlier pipe: gone.
sys_pipe ==
    /\ Calling /\ next_fd < FirstPipeFd + 2 * MaxPipes
    /\ read_fd' = next_fd /\ next_fd' = next_fd + 2
    /\ pipe' = [pipe EXCEPT !.head = 0, !.tail = 0, !.owed = <<>>]
    /\ UNCHANGED <<ep, call>> /\ KeepsInput

\* As many bytes as fit; the caller is told how many.
pipe_write(data) ==
    LET room == (pipe.head - pipe.tail - 1 + PIPE_CAP) % PIPE_CAP
        n == IF Len(data) < room THEN Len(data) ELSE room
        turn(i) == (i - pipe.tail + PIPE_CAP) % PIPE_CAP
    IN  [pipe EXCEPT !.buf = [i \in 0..(PIPE_CAP - 1) |->
                                 IF turn(i) < n THEN data[turn(i) + 1] ELSE pipe.buf[i]],
                     !.tail = (@ + n) % PIPE_CAP, !.owed = @ \o SubSeq(data, 1, n)]

sys_write_pipe(data) ==
    /\ Calling /\ read_fd # NoFd
    /\ pipe' = pipe_write(data)
    /\ UNCHANGED <<read_fd, next_fd, ep, call>> /\ KeepsInput

\* count bytes, or all there are.
pipe_read(count) ==
    LET there == Len(Contents(pipe, PIPE_CAP))
        n == IF count < there THEN count ELSE there
    IN  [pipe EXCEPT !.head = (@ + n) % PIPE_CAP, !.owed = SubSeq(@, n + 1, Len(@))]

sys_read_pipe(count) ==
    /\ Calling /\ read_fd # NoFd /\ has_data
    /\ pipe' = pipe_read(count)
    /\ UNCHANGED <<read_fd, next_fd, ep, call>> /\ KeepsInput

\* An empty pipe: the program waits for a writer that cannot run.
sys_read_pipe_empty(entry) ==
    /\ Calling /\ read_fd # NoFd /\ ~has_data
    /\ call' = [op |-> "read", pc |-> "hlt"] /\ Enter(entry)
    /\ UNCHANGED <<ep, kbd, SHIFT, CAPS, reader, ringVars>> /\ KeepsPipe

-----------------------------------------------------------------------------
(* Waiting for descriptors. *)

\* The events poll reports of one entry.
revents(fd, ev) ==
    CASE fd = 0 \/ is_read_fd(fd) -> IF "IN" \in ev /\ is_read_ready(fd) THEN {"IN"} ELSE {}
      [] fd \in {1, 2} \/ is_write_fd(fd) -> ev \cap {"OUT"}
      [] is_sock_fd(fd) /\ ~is_read_fd(fd) /\ ~is_write_fd(fd) -> {"ERR"}
      [] OTHER -> {}

PollReady(fds, ev) == \E fd \in fds : revents(fd, ev) # {}

\* The events epoll_wait reports of one entry.
ready_ev(e) ==
    {v \in e.ev : \/ v = "IN" /\ is_read_ready(e.fd)
                  \/ v = "OUT" /\ is_write_ready(e.fd)}

EpollReady == \E i \in 1..ep.cnt : ready_ev(ep.slots[i]) # {}

\* The sets are zeroed before sys_select_inner copies them: nothing is
\* selected, so a select that waits never ends.
SelectReady == FALSE

Ready(c) ==
    CASE c.op = "poll" -> PollReady(c.fds, c.ev)
      [] c.op = "epoll" -> EpollReady
      [] c.op = "select" -> SelectReady
      [] c.op = "read" -> has_data

WaitCalls == [op : {"poll"}, fds : SUBSET WatchedFds, ev : EvSets, pc : {"test"}]
             \cup [op : {"epoll", "select"}, pc : {"test"}]

\* A call told not to wait returns at once and leaves nothing behind; one
\* that may wait goes into its loop.
WaitBegin(c, entry) ==
    /\ Calling /\ call' = c /\ Enter(entry)
    /\ UNCHANGED <<ep, kbd, SHIFT, CAPS, reader, ringVars>> /\ KeepsPipe

\* The loop looks and returns, ...
WaitEnd ==
    /\ call.pc = "test" /\ Ready(call)
    /\ call' = NoCall /\ Leave
    /\ UNCHANGED <<ep, kbd, SHIFT, CAPS, reader, ringVars>> /\ KeepsPipe

\* ... or halts, even if a key comes in before the halt, ...
WaitHalt ==
    /\ call.pc = "test" /\ ~Ready(call)
    /\ call' = [call EXCEPT !.pc = "hlt"]
    /\ UNCHANGED ep /\ KeepsPipe /\ KeepsInput

\* ... and looks again after the next interrupt, if there can be one.
WaitWake ==
    /\ call.pc = "hlt" /\ intr_on
    /\ call' = [call EXCEPT !.pc = "test"]
    /\ UNCHANGED ep /\ KeepsPipe /\ KeepsInput

-----------------------------------------------------------------------------
(* The list of epoll. *)

sys_epoll_create ==
    /\ Calling
    /\ ep' = [cnt |-> 0, slots |-> [i \in 1..EPOLL_MAX |-> [ep.slots[i] EXCEPT !.fd = NoFd]]]
    /\ UNCHANGED call /\ KeepsPipe /\ KeepsInput

At(fd) == {i \in 1..ep.cnt : ep.slots[i].fd = fd}

\* The argument: no struct, or the words of one.  A packed epoll_event, the
\* kind epoll_wait writes, has the program's data in the words at 4 and 8;
\* the word at 12 lies past its end.
NULL == [null |-> TRUE]
epoll_event == [events : EvSets, at4 : Words, at8 : Words, at12 : Words]
EventArgs == epoll_event \cup {NULL}

EpEntry == [ev : EvSets, data : (Words \cup WatchedFds) \X (Words \cup {0})]

\* What is kept of it: epoll_ctl reads the data at 8, not at 4.
EntryOf(fd, a) ==
    IF a = NULL THEN [ev |-> {"IN"}, data |-> <<fd, 0>>]
    ELSE [ev |-> a.events, data |-> <<a.at8, a.at12>>]

\* EPOLL_CTL_ADD and EPOLL_CTL_MOD do the same.
sys_epoll_ctl_set(fd, a) ==
    /\ Calling
    /\ LET e == EntryOf(fd, a)
           entry == [fd |-> fd, ev |-> e.ev, data |-> e.data]
       IN  \/ \E i \in At(fd) : ep' = [ep EXCEPT !.slots[i] = entry]
           \/ /\ At(fd) = {} /\ ep.cnt < EPOLL_MAX
              /\ ep' = [cnt |-> ep.cnt + 1, slots |-> [ep.slots EXCEPT ![ep.cnt + 1] = entry]]
           \/ At(fd) = {} /\ ep.cnt >= EPOLL_MAX /\ ep' = ep
    /\ UNCHANGED call /\ KeepsPipe /\ KeepsInput

\* A plausible bug: the last entry goes instead.
sys_epoll_ctl_del_NoMove(fd) ==
    /\ Calling
    /\ \/ /\ At(fd) # {}
          /\ ep' = [cnt |-> ep.cnt - 1, slots |-> [ep.slots EXCEPT ![ep.cnt].fd = NoFd]]
       \/ At(fd) = {} /\ ep' = ep
    /\ UNCHANGED call /\ KeepsPipe /\ KeepsInput

\* EPOLL_CTL_DEL: the last entry takes the place of the one that goes.
sys_epoll_ctl_del(fd) ==
    /\ Calling
    /\ \/ \E i \in At(fd) :
             ep' = [cnt |-> ep.cnt - 1,
                    slots |-> [ep.slots EXCEPT ![i] = ep.slots[ep.cnt], ![ep.cnt].fd = NoFd]]
       \/ At(fd) = {} /\ ep' = ep
    /\ UNCHANGED call /\ KeepsPipe /\ KeepsInput

-----------------------------------------------------------------------------
BlankEntry == [fd |-> NoFd, ev |-> {}, data |-> <<0, 0>>]

PipesInit ==
    /\ pipe = EmptyRing(PIPE_CAP) /\ read_fd = NoFd /\ next_fd = FirstPipeFd
    /\ ep = [cnt |-> 0, slots |-> [i \in 1..EPOLL_MAX |-> BlankEntry]]
    /\ call = NoCall

PipeCalls ==
    \/ sys_pipe \/ \E entry \in Entries : sys_read_pipe_empty(entry)
    \/ \E b, c \in PipeBytes : sys_write_pipe(<<b>>) \/ sys_write_pipe(<<b, c>>)
    \/ \E n \in 1..2 : sys_read_pipe(n)

EpollCalls ==
    \/ sys_epoll_create
    \/ \E fd \in WatchedFds : sys_epoll_ctl_del(fd) \/ \E a \in EventArgs : sys_epoll_ctl_set(fd, a)

WaitStep == WaitEnd \/ WaitHalt \/ WaitWake
WaitingCalls == (\E c \in WaitCalls, entry \in Entries : WaitBegin(c, entry)) \/ WaitStep

-----------------------------------------------------------------------------
(* Correctness. *)

\* The pipe carries bytes in order, each once: the ring holds exactly what
\* writes were told they had written since the last pipe call and no read
\* has returned, also when a write is cut short and the indices wrap.
PipeInOrder == Contents(pipe, PIPE_CAP) = pipe.owed

\* Seen from outside, the three arrays and their count are a set of watched
\* descriptors with the entry last read for each: additions, changes and
\* removals in any order leave no stale, doubled or lost entry, and each
\* call does to that set what it was asked to do, with the events of its
\* argument.  The data of an entry is what epoll_ctl reads, the upper half
\* of the program's and the word past it, so not what the program gave.
WatchedMap ==
    [f \in {ep.slots[i].fd : i \in 1..ep.cnt} |->
        LET s == ep.slots[CHOOSE i \in 1..ep.cnt : ep.slots[i].fd = f]
        IN  [ev |-> s.ev, data |-> s.data]]
List == INSTANCE WatchList WITH WatchFds <- WatchedFds, Entries <- EpEntry,
                                Limit <- EPOLL_MAX, watched <- WatchedMap
Past(fd) == fd \notin DOMAIN WatchedMap /\ Cardinality(DOMAIN WatchedMap) = EPOLL_MAX
EpollDoesAsAsked ==
    \A fd \in WatchedFds :
        /\ sys_epoll_ctl_del(fd) => List!Remove(fd)
        /\ \A a \in EventArgs : sys_epoll_ctl_set(fd, a) =>
              IF Past(fd) THEN UNCHANGED WatchedMap ELSE List!Set(fd, EntryOf(fd, a))
EpollIsAWatchList == List!Spec /\ [][EpollDoesAsAsked]_ep

WaitsForKeys ==
    \/ call.op = "poll" /\ 0 \in call.fds /\ "IN" \in call.ev
    \/ call.op = "epoll" /\ \E i \in 1..ep.cnt : ep.slots[i].fd = 0 /\ "IN" \in ep.slots[i].ev

\* A program that came by int 0x80 and waits in poll or epoll_wait with
\* standard input among its descriptors gets on once a key is there, also if
\* the key came between the test and the halt.  (Not so in select, and not
\* so once halted in a call by the syscall instruction.)
KeyEndsWait == WaitsForKeys /\ intr_on /\ has_key ~> Calling
=============================================================================
