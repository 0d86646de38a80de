------------------------------ MODULE UserProc -------------------------------
(***************************************************************************)
(* The table of user processes and threads (process/userproc.rs): fork,    *)
(* clone, wait4, exit, exec, yield, futex, and the end of every system     *)
(* call, where signals are delivered.  User programs share one kernel      *)
(* thread and switch only inside system calls, so each call is one step.   *)
(* An exit that finds nobody to resume jumps back into the kernel, which   *)
(* starts the shell, or a package, as a new process.                       *)
(***************************************************************************)
EXTENDS Signals, Integers, FiniteSets

CONSTANTS
    MaxProcs,    \* slots of USER_PROCS
    MaxPid,      \* bound: process ids handed out
    Addrs,       \* futex addresses (non-zero)
    CloneFlags,  \* the flag combinations that programs pass to clone
    Tls,         \* thread pointers (non-zero)
    MainTls,     \* the ones that arch_prctl sets
    Codes,       \* exit codes
    Masks,       \* signal sets that programs pass to rt_sigprocmask
    Tuners       \* bound: the processes that change handlers, masks, TLS and tid pointers

ASSUME UserProcAssumption ==
    /\ MaxProcs \in Nat \ {0} /\ MaxPid \in Nat \ {0}
    /\ Addrs \subseteq Nat \ {0} /\ Tls \subseteq Nat \ {0} /\ Codes \subseteq Nat
    /\ MainTls \subseteq Tls
    /\ CloneFlags \subseteq [vm : BOOLEAN, thread : BOOLEAN, tls : Tls \cup {0},
                             childSettid : BOOLEAN, childCleartid : BOOLEAN]
    /\ Masks \subseteq SUBSET Sigs

VARIABLES
    table,      \* USER_PROCS
    current,    \* CURRENT_UPROC
    nextPid,    \* the counter behind alloc_pid
    word,       \* the futex words of every address space: 0, or a thread id
    fsMsr,      \* MSR_FS_BASE
    \* history
    ring3,      \* the process whose code really runs
    overflowed, \* register, fork or clone found no free slot
    exitOf,     \* the code a process exited with, -1 while it has not
    report      \* what the last step told a parent of a child

upVars == <<table, current, nextPid, word, fsMsr, ring3, overflowed, exitOf, report>>

Slots == 1..MaxProcs
Pids == 1..MaxPid
Spaces == 1..(MaxProcs + 1)
NoProc == [pid |-> 0]
NoReport == [child |-> 0]

Proc == [pid : Pids, parent : 0..MaxPid,
         st : {"Ready", "Running", "Waiting", "Zombie", "Blocked"}, arg : Nat,
         space : Spaces, fs : Tls \cup {0}, tgid : 0..MaxPid, tid : Addrs \cup {0},
         sg : SigState]

UPTypeOK ==
    /\ table \in [Slots -> Proc \cup {NoProc}]
    /\ current \in Slots
    /\ nextPid \in 1..(MaxPid + 1)
    /\ word \in [Spaces -> [Addrs -> {0, 1}]]
    /\ fsMsr \in Tls \cup {0}
    /\ ring3 \in 0..MaxPid
    /\ overflowed \in BOOLEAN
    /\ exitOf \in [Pids -> Int]
    /\ report \in {NoReport} \cup [child : Pids, to : Pids, code : Nat]

\* The state as one value, for the operators that a system call runs through.
Kernel == [table |-> table, current |-> current, nextPid |-> nextPid, word |-> word,
           fsMsr |-> fsMsr, ring3 |-> ring3, overflowed |-> overflowed, exitOf |-> exitOf,
           report |-> NoReport]

SetKernel(k) ==
    /\ k.nextPid <= MaxPid + 1
    /\ \A s \in Slots : k.table[s] # NoProc => Len(k.table[s].sg.frames) <= MaxNest
    /\ table' = k.table /\ current' = k.current /\ nextPid' = k.nextPid
    /\ word' = k.word /\ fsMsr' = k.fsMsr /\ ring3' = k.ring3
    /\ overflowed' = k.overflowed /\ exitOf' = k.exitOf /\ report' = k.report

Used(t) == {s \in Slots : t[s] # NoProc}
FreeSlots(t) == Slots \ Used(t)

FreshSpace(t) == Min(Spaces \ {t[s].space : s \in Used(t)})

\* A plausible bug: anybody's child will do.
find_child_Anybodys(t, parent, target) ==
    {s \in Used(t) : t[s].parent # 0 /\ t[s].tgid = 0 /\ target \in {-1, t[s].pid}}

\* find_child: processes, not threads, whose parent asks; -1 is any.
find_child(t, parent, target) ==
    {s \in Used(t) : /\ t[s].parent = parent /\ t[s].tgid = 0
                     /\ target \in {-1, t[s].pid}}

Ready(t) == {s \in Used(t) : t[s].st = "Ready"}

\* find_next_ready_from: the Ready slot met first from start on, cyclically.
find_next_ready_from(t, start) ==
    CHOOSE s \in Ready(t) : \A r \in Ready(t) :
        (s - start) % MaxProcs <= (r - start) % MaxProcs

-----------------------------------------------------------------------------
(* Steps that several calls share. *)

\* A plausible bug: FS_BASE is not switched.
iretq_to_frame_NoFs(k, s) ==
    [k EXCEPT !.table[s].st = "Running", !.table[s].arg = 0, !.current = s,
              !.ring3 = k.table[s].pid]

\* iretq_to_frame: the process in slot s continues with its saved frame.
\* FS_BASE is only written if the process has one.
iretq_to_frame(k, s) ==
    [k EXCEPT !.table[s].st = "Running", !.table[s].arg = 0, !.current = s,
              !.ring3 = k.table[s].pid,
              !.fsMsr = IF k.table[s].fs # 0 THEN k.table[s].fs ELSE @]

\* register: the slot of a known pid again, or the first free one.
register(k, pid) ==
    LET same == {s \in Used(k.table) : k.table[s].pid = pid}
        fresh == [pid |-> pid, parent |-> 0, st |-> "Running", arg |-> 0,
                  space |-> FreshSpace(k.table), fs |-> 0, tgid |-> 0, tid |-> 0,
                  sg |-> FreshSignals]
    IN  IF same # {} THEN [k EXCEPT !.table[Min(same)].st = "Running", !.current = Min(same)]
        ELSE IF FreeSlots(k.table) # {}
        THEN [k EXCEPT !.table[Min(FreeSlots(k.table))] = fresh, !.current = Min(FreeSlots(k.table))]
        ELSE [k EXCEPT !.overflowed = TRUE]

\* The jump of sys_exit_impl to after_user_demo, which enters the next
\* program in a new address space under a fresh pid (enter_elf).
after_user_demo(k) ==
    register([k EXCEPT !.word[FreshSpace(k.table)] = [a \in Addrs |-> 0],
                       !.nextPid = @ + 1, !.ring3 = k.nextPid], k.nextPid)

\* At most max_count waiters on the address, in the order of the slots.
futex_wake_impl(t, a, max_count) ==
    LET waiters == {s \in Used(t) : t[s].st = "Blocked" /\ t[s].arg = a}
        woken == {s \in waiters : Cardinality({r \in waiters : r < s}) < max_count}
    IN  [s \in Slots |-> IF s \in woken THEN [t[s] EXCEPT !.st = "Ready", !.arg = 0] ELSE t[s]]

\* u64::MAX read as i64.
AllWaiters == -1

\* The first part of try_wake_parent: a thread clears its id, frees its
\* slot and hands over to the first Ready slot.
ThreadExit(k) ==
    LET self == k.table[k.current]
        joined == IF self.tid = 0 THEN k
                  ELSE [k EXCEPT !.word[self.space][self.tid] = 0,
                                 !.table = futex_wake_impl(@, self.tid, AllWaiters)]
        gone == [joined EXCEPT !.table[k.current] = NoProc]
    IN  IF Ready(gone.table) # {}
        THEN iretq_to_frame(gone, find_next_ready_from(gone.table, 1))
        ELSE after_user_demo(gone)

\* The second part: a process becomes a zombie, or answers the wait4 that
\* its parent is blocked in.
ProcessExit(k, code) ==
    LET self == k.table[k.current]
        zombie == [k EXCEPT !.table[k.current].st = "Zombie", !.table[k.current].arg = code]
        parents == {s \in Used(k.table) : k.table[s].pid = self.parent}
        p == Min(parents)
    IN  CASE self.parent = 0 -> after_user_demo(k)
          [] self.parent # 0 /\ parents = {} -> after_user_demo(zombie)
          [] self.parent # 0 /\ parents # {} /\ zombie.table[p].st # "Waiting" ->
               after_user_demo([zombie EXCEPT !.table[p].sg = raise(@, SIGCHLD)])
          [] self.parent # 0 /\ parents # {} /\ zombie.table[p].st = "Waiting" ->
               IF zombie.table[p].arg # self.pid THEN after_user_demo(zombie)
               ELSE iretq_to_frame([zombie EXCEPT !.table[k.current] = NoProc,
                                     !.report = [child |-> self.pid, to |-> self.parent,
                                                 code |-> code]], p)

\* sys_exit_impl with try_wake_parent.
sys_exit_impl(k, code) ==
    LET e == IF k.ring3 = 0 THEN k ELSE [k EXCEPT !.exitOf[k.ring3] = code]
        self == k.table[k.current]
    IN  CASE self = NoProc -> after_user_demo(e)
          [] self # NoProc /\ self.tgid # 0 -> ThreadExit(e)
          [] OTHER -> ProcessExit(e, code)

\* syscall_dispatch: a call that returns ends with the delivery of signals.
syscall_dispatch(k) ==
    LET d == deliver_pending_signals(k.table[k.current].sg)
        done == [k EXCEPT !.table[k.current].sg = d.sg]
    IN  SetKernel(IF d.dies THEN sys_exit_impl(done, d.code) ELSE done)

-----------------------------------------------------------------------------
(* System calls of the process in ring3.  Exploration ends with the first  *)
(* search of the table that comes up empty.                                *)

InUser == table[current] # NoProc /\ ~overflowed
me == table[current]
Tunes == InUser /\ me.pid \in Tuners

\* The child goes to the first free slot; the pid is returned either way.
AddChild(child, w) ==
    LET slot == Min(FreeSlots(table))
        k == [Kernel EXCEPT !.nextPid = @ + 1, !.word = w]
    IN  syscall_dispatch(IF FreeSlots(table) = {} THEN [k EXCEPT !.overflowed = TRUE]
                         ELSE [k EXCEPT !.table[slot] = child])

fork_current ==
    /\ InUser
    /\ AddChild([pid |-> nextPid, parent |-> me.pid, st |-> "Ready", arg |-> 0,
                 space |-> FreshSpace(table), fs |-> 0, tgid |-> 0, tid |-> 0,
                 sg |-> ForkSignals(me.sg)],
                [word EXCEPT ![FreshSpace(table)] = word[me.space]])

clone_thread(f, a) ==
    LET written == IF f.childSettid THEN [word EXCEPT ![me.space][a] = 1] ELSE word
        space == IF f.vm THEN me.space ELSE FreshSpace(table)
        tgid == IF me.tgid # 0 THEN me.tgid ELSE me.pid
    IN  /\ InUser
        /\ AddChild([pid |-> nextPid, parent |-> me.pid, st |-> "Ready", arg |-> 0,
                     space |-> space, fs |-> IF f.tls # 0 THEN f.tls ELSE me.fs,
                     tgid |-> IF f.thread THEN tgid ELSE 0,
                     tid |-> IF f.childSettid \/ f.childCleartid THEN a ELSE 0,
                     sg |-> CloneSignals(me.sg)],
                    [written EXCEPT ![space] = written[me.space]])

\* wait4_impl looks at the first matching child only: reaps it if it is a
\* zombie, else hands the processor to it, whatever it was doing.
wait4_impl(target, wnohang) ==
    LET found == find_child(table, me.pid, target)
        c == Min(found)
        child == table[c]
    IN  /\ InUser
        /\ \/ found = {} /\ syscall_dispatch(Kernel)
           \/ /\ found # {} /\ child.st = "Zombie"
              /\ syscall_dispatch([Kernel EXCEPT !.table[c] = NoProc,
                     !.report = [child |-> child.pid, to |-> me.pid, code |-> child.arg]])
           \/ /\ found # {} /\ child.st # "Zombie" /\ wnohang
              /\ syscall_dispatch(Kernel)
           \/ /\ found # {} /\ child.st # "Zombie" /\ ~wnohang
              /\ SetKernel(iretq_to_frame([Kernel EXCEPT !.table[current].st = "Waiting",
                                                      !.table[current].arg = child.pid], c))

exit(code) == ~overflowed /\ SetKernel(sys_exit_impl(Kernel, code))

\* A fault in ring3 raises a signal and exits at once (exception_handler).
exception_handler ==
    /\ InUser
    /\ SetKernel(sys_exit_impl([Kernel EXCEPT !.table[current].sg = raise(@, SIGSEGV)],
                            128 + SIGSEGV))

\* exec_replace: a new address space, the rest of the slot stays.
exec_replace ==
    LET space == FreshSpace(table)
    IN  SetKernel(iretq_to_frame([Kernel EXCEPT !.table[current].space = space,
                                             !.table[current].sg = ExecSignals(@),
                                             !.word[space] = [a \in Addrs |-> 0]],
                              current))

\* sys_execve of a forked child replaces its memory; of any other program
\* it leaves the name for the kernel and exits with 0.
sys_execve ==
    /\ InUser
    /\ \/ me.parent # 0 /\ exec_replace
       \/ me.parent = 0 /\ SetKernel(sys_exit_impl(Kernel, 0))

\* The caller is Ready itself when the search begins, so it always ends in
\* a switch, perhaps to the caller, and signals wait for another call.
sched_yield_impl ==
    LET k == [Kernel EXCEPT !.table[current].st = "Ready"]
    IN  /\ InUser
        /\ SetKernel(iretq_to_frame(k, find_next_ready_from(k.table, (current % MaxProcs) + 1)))

\* futex_wait_impl: blocks if the word is the expected one and somebody
\* else can run; EAGAIN otherwise.
futex_wait_impl(a, expected) ==
    LET k == [Kernel EXCEPT !.table[current].st = "Blocked", !.table[current].arg = a]
    IN  /\ InUser
        /\ \/ /\ word[me.space][a] = expected /\ Ready(k.table) # {}
              /\ SetKernel(iretq_to_frame(k, find_next_ready_from(k.table, 1)))
           \/ /\ word[me.space][a] # expected \/ Ready(k.table) = {}
              /\ syscall_dispatch(Kernel)

futex_wake(a, n) ==
    InUser /\ syscall_dispatch([Kernel EXCEPT !.table = futex_wake_impl(@, a, n)])

sys_set_tid_address(a) ==
    Tunes /\ syscall_dispatch([Kernel EXCEPT !.table[current].tid = a])

\* arch_prctl(ARCH_SET_FS).
sys_arch_prctl(tls) ==
    Tunes /\ syscall_dispatch([Kernel EXCEPT !.table[current].fs = tls, !.fsMsr = tls])

rt_sigaction(s, a) ==
    Tunes /\ syscall_dispatch([Kernel EXCEPT !.table[current].sg = sys_rt_sigaction(@, s, a)])

rt_sigprocmask(how, set) ==
    Tunes /\ syscall_dispatch([Kernel EXCEPT !.table[current].sg = sys_rt_sigprocmask(@, how, set)])

\* The trampoline of a handler.
rt_sigreturn ==
    /\ InUser /\ me.sg.frames # <<>>
    /\ syscall_dispatch([Kernel EXCEPT !.table[current].sg = sys_rt_sigreturn(@)])

\* Any other call that returns a result; without a slot it changes nothing.
other_syscall == IF InUser THEN syscall_dispatch(Kernel) ELSE UNCHANGED upVars

UPInit ==
    /\ table = [s \in Slots |-> NoProc]
    /\ current = 1
    /\ nextPid = 1
    /\ word = [p \in Spaces |-> [a \in Addrs |-> 0]]
    /\ fsMsr = 0
    /\ ring3 = 0
    /\ overflowed = FALSE
    /\ exitOf = [p \in Pids |-> -1]
    /\ report = NoReport

UPNext ==
    \/ fork_current
    \/ \E f \in CloneFlags, a \in Addrs : clone_thread(f, a)
    \/ \E target \in {-1} \cup Pids, h \in BOOLEAN : wait4_impl(target, h)
    \/ \E c \in Codes : exit(c)
    \/ exception_handler
    \/ sys_execve
    \/ sched_yield_impl
    \/ \E a \in Addrs, v \in {0, 1} : futex_wait_impl(a, v)
    \/ \E a \in Addrs : futex_wake(a, 1)
    \/ \E a \in Addrs : sys_set_tid_address(a)
    \/ \E tls \in MainTls : sys_arch_prctl(tls)
    \/ \E s \in Sigs, a \in Actions : rt_sigaction(s, a)
    \/ \E how \in {"BLOCK", "UNBLOCK", "SETMASK"}, set \in Masks : rt_sigprocmask(how, set)
    \/ rt_sigreturn
    \/ other_syscall

UPSpec == UPInit /\ [][UPNext]_upVars

-----------------------------------------------------------------------------
(* Correctness, as long as no table search has come up empty (overflowed). *)

\* The code in ring3 is that of the slot CURRENT_UPROC names, and no other
\* slot is Running, except those of programs the kernel started and that
\* have exited: their slots are never cleared.
RunsWhoIsCurrent ==
    ~overflowed /\ ring3 # 0 =>
        /\ InUser /\ me.pid = ring3 /\ me.st = "Running"
        /\ \A s \in Used(table) \ {current} :
              table[s].st = "Running" => table[s].parent = 0 /\ exitOf[table[s].pid] # -1

\* A process whose slot records a thread pointer, because it set one with
\* arch_prctl or was cloned, runs with it in FS_BASE, however it was resumed.
\* A forked child is not covered: fork_current records 0, which iretq_to_frame
\* takes for none, so the child runs with the FS_BASE of whoever ran last until
\* it calls arch_prctl itself.
ThreadPointerOwn ==
    ~overflowed /\ InUser /\ me.fs # 0 => fsMsr = me.fs

\* Whoever runs runs as itself, however it was resumed: in its own slot and,
\* where the slot records a thread pointer, with that pointer.
RunsAsItself == RunsWhoIsCurrent /\ ThreadPointerOwn

\* An exit is final and is reported once.  A process that has exited never
\* runs again: no wait, yield, wake or relaunch resumes the frame it left
\* behind.  A zombie's slot is given up only to its own parent, which is told
\* the code the child exited with, and the slot does not survive the report.
ExitIsFinal ==
    [][~overflowed' =>
         /\ \A p \in Pids : exitOf[p] # -1 => ring3' # p
         /\ \A s \in Used(table) :
              table[s].st = "Zombie" /\ table'[s].pid # table[s].pid
                 => report' = [child |-> table[s].pid, to |-> table[s].parent, code |-> table[s].arg]
         /\ report' # NoReport =>
              /\ exitOf'[report'.child] = report'.code
              /\ \A s \in Slots : table'[s].pid # report'.child]_upVars
=============================================================================
