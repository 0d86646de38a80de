----------------------------- MODULE Scheduler -----------------------------
(***************************************************************************)
(* The preemptive scheduler of the kernel (process/scheduler.rs), driven   *)
(* by the timer interrupt and by int 0x40 (interrupts/handlers.rs).        *)
(*                                                                         *)
(* A process is its index in Scheduler::processes; index 0 is kernel_main. *)
(* Slots at or above count hold the values of Process::new: they are the   *)
(* processes that have not been spawned yet.                               *)
(*                                                                         *)
(* TICK is unbounded in the code.  The code only uses differences and      *)
(* remainders of it, so the model keeps those:                             *)
(*   waited[p] = TICK - ready_since_tick, saturated at the fairness floor  *)
(*   wakeIn[p] = wake_at_tick - TICK, or NoWake where wake_at_tick is 0    *)
(*   phase     = TICK modulo SliceCycle, a multiple of every TIME_SLICE    *)
(***************************************************************************)
EXTENDS Integers

CONSTANTS
  MaxProcs,         \* bound: slots of the process vector
  NormalThreshold,  \* starvation_threshold(Normal)
  LowThreshold,     \* starvation_threshold(Low)
  FairnessFloor,    \* FAIRNESS_FLOOR_TICKS
  KbdBoost,         \* boost_ticks given by one key press
  TaskBoosts,       \* boost_ticks kernel_main passes to boost_pid
  SleepLens,        \* arguments of sleep_ticks
  Sleepers,         \* the processes that call sleep_ticks
  PolicyPrios,      \* priorities the policy engine assigns
  PolicyCpus,       \* preferred_cpu values the policy engine assigns
  MyCpu,            \* smp::current_cpu_id() of the core that schedules
  AnyCpu,           \* u8::MAX: no preferred core
  Slices,           \* values of TIME_SLICE
  SliceCycle,       \* bound: TICK is kept modulo this
  SchedModes,       \* scheduling modes kernel_main selects with set_mode
  Elapsed,          \* rdtsc cycles a process may run between two switches
  CfsWeight,        \* cfs_weight, a function of the priority
  Nice0Weight,      \* NICE0_WEIGHT
  VruntimeMax,      \* u64::MAX, where vruntime saturates
  TasksExit         \* whether tasks call exit_current

WeightedPriority == "WeightedPriority"
Cfs == "Cfs"

Idle   == 0
Low    == 1
Normal == 2
High   == 3
Priorities == Idle..High

Slot == 0..(MaxProcs - 1)
KernelMain == 0
NoWake == -1
States == {"Ready", "Running", "Blocked", "Dead"}

ASSUME SchedulerConstants ==
  /\ MaxProcs \in Nat \ {0}
  /\ NormalThreshold \in Nat /\ LowThreshold \in Nat /\ FairnessFloor \in Nat
  /\ KbdBoost \in Nat
  /\ TaskBoosts \subseteq Nat
  /\ SleepLens \subseteq Nat
  /\ Sleepers \subseteq Slot
  /\ PolicyPrios \subseteq Priorities
  /\ MyCpu \in Nat /\ AnyCpu \in Nat /\ PolicyCpus \subseteq Nat
  /\ Slices \subseteq Nat \ {0} /\ Slices # {}
  /\ SliceCycle \in Nat \ {0}
  /\ SchedModes \subseteq {WeightedPriority, Cfs}
  /\ Elapsed \subseteq Nat
  /\ CfsWeight \in [Priorities -> Nat \ {0}]
  /\ Nice0Weight \in Nat
  /\ VruntimeMax \in Nat
  /\ TasksExit \in BOOLEAN

\* TICK modulo SliceCycle decides every "tick % slice == 0".
ASSUME SliceDivides == \A s \in Slices : SliceCycle % s = 0

VARIABLES
  count,     \* processes.len()
  state,     \* Process::state
  prio,      \* Process::priority
  boost,     \* Process::boost_ticks
  waited,    \* ticks since Process::ready_since_tick
  pending,   \* Process::pending_sleep_ticks
  wakeIn,    \* ticks until Process::wake_at_tick
  pref,      \* Process::preferred_cpu
  vruntime,  \* Process::vruntime
  reaped,    \* Process::reaped
  current,   \* Scheduler::current
  quanta,    \* Scheduler::remaining_quanta
  mode,      \* SCHED_MODE
  slice,     \* policy::TIME_SLICE
  phase,     \* TICK modulo SliceCycle
  inIsr,     \* the switch is made and policy::on_switch is running, IF = 0
  atYield,   \* the process is in sleep_ticks, between request_sleep and int 0x40
  promise    \* history: ticks the last sleep_ticks of the process still owes it

procVars == <<state, prio, boost, waited, pending, wakeIn, pref, vruntime, reaped>>
vars == <<count, procVars, current, quanta, mode, slice, phase, inIsr, atYield, promise>>

Live == 0..(count - 1)
MinOf(a, b) == IF a < b THEN a ELSE b
MaxOf(a, b) == IF a > b THEN a ELSE b

---------------------------------------------------------------------------
(* Priorities and weights                                                  *)

priority_weight(p) == CASE p = High -> 4 [] p = Normal -> 2 [] p = Low -> 1 [] OTHER -> 0

\* Whether a process of priority p that waited w ticks ages by one step.
Aged(p, w) == \/ p = Low /\ w >= LowThreshold
              \/ p = Normal /\ w >= NormalThreshold

\* Mutant: aging by one step only, without the fairness floor.
effective_priority_NoFloor(p, b, w) ==
  IF b > 0 THEN High ELSE IF Aged(p, w) THEN p + 1 ELSE p

\* Boost first, then the fairness floor, then aging, then the priority itself.
effective_priority(p, b, w) ==
  IF b > 0 \/ (p # Idle /\ w >= FairnessFloor) THEN High
  ELSE IF Aged(p, w) THEN p + 1
  ELSE p

same_cpu(p) == pref[p] \in {AnyCpu, MyCpu}

\* Mutant: the scan starts at the current slot.
ScanDistance_FromCurrent(p) == (p - current) % count

\* How many slots after the current one the scan meets p: 0 is the next slot.
ScanDistance(p) == (p - current - 1) % count

---------------------------------------------------------------------------
(* The choice of the next process                                          *)
(*                                                                         *)
(* The operators take the process states st, boosts bo, waiting times wt   *)
(* and virtual runtimes vr as the switch has changed them so far.          *)

ReadyIn(st) == {p \in Live : st[p] = "Ready"}

\* The scan of switch_to_next prefers p to q: higher effective priority,
\* then the core the switch happens on, then the order of the scan.
PreferWP(p, q, bo, wt) ==
  LET ep == effective_priority(prio[p], bo[p], wt[p])
      eq == effective_priority(prio[q], bo[q], wt[q])
  IN  \/ ep > eq
      \/ ep = eq /\ same_cpu(p) /\ ~same_cpu(q)
      \/ ep = eq /\ same_cpu(p) = same_cpu(q) /\ ScanDistance(p) < ScanDistance(q)

PickWP(p, st, bo, wt) ==
  /\ p \in ReadyIn(st)
  /\ \A q \in ReadyIn(st) \ {p} : PreferWP(p, q, bo, wt)

\* The scan of switch_to_next_cfs: the first boosted process, or else the
\* smallest vruntime, then the core, then the order of the scan.
PreferCfs(p, q, bo, vr) ==
  \/ bo[p] > 0 /\ bo[q] = 0
  \/ bo[p] > 0 /\ bo[q] > 0 /\ ScanDistance(p) < ScanDistance(q)
  \/ /\ bo[p] = 0 /\ bo[q] = 0
     /\ \/ vr[p] < vr[q]
        \/ vr[p] = vr[q] /\ same_cpu(p) /\ ~same_cpu(q)
        \/ /\ vr[p] = vr[q] /\ same_cpu(p) = same_cpu(q)
           /\ ScanDistance(p) < ScanDistance(q)

PickCfs(p, st, bo, vr) ==
  /\ p \in ReadyIn(st)
  /\ \A q \in ReadyIn(st) \ {p} : PreferCfs(p, q, bo, vr)

\* The two loops as the code runs them: i goes over the scan and the best
\* index so far (NoPick before the first) is replaced by a better one.
NoPick == -1
ScanIndex(i) == (current + i) % count

ScanWP(st, bo, wt) ==
  LET eff(p) == effective_priority(prio[p], bo[p], wt[p])
      better(p, b) == \/ eff(p) > eff(b)
                      \/ eff(p) = eff(b) /\ same_cpu(p) /\ ~same_cpu(b)
      best[i \in 0..count] ==
        IF i = 0 THEN NoPick
        ELSE LET idx == ScanIndex(i) IN
             IF st[idx] = "Ready" /\ (best[i - 1] = NoPick \/ better(idx, best[i - 1]))
             THEN idx ELSE best[i - 1]
  IN  best[count]

ScanCfs(st, bo, vr) ==
  LET better(p, b) == \/ vr[p] < vr[b]
                      \/ vr[p] = vr[b] /\ same_cpu(p) /\ ~same_cpu(b)
      best[i \in 0..count] ==
        IF i = 0 THEN NoPick
        ELSE LET idx == ScanIndex(i) IN
             IF st[idx] = "Ready" /\ (best[i - 1] = NoPick \/ better(idx, best[i - 1]))
             THEN idx ELSE best[i - 1]
      boosted[i \in 0..count] ==
        IF i = 0 THEN NoPick
        ELSE LET idx == ScanIndex(i) IN
             IF st[idx] = "Ready" /\ bo[idx] > 0 /\ boosted[i - 1] = NoPick
             THEN idx ELSE boosted[i - 1]
  IN  IF boosted[count] # NoPick THEN boosted[count] ELSE best[count]

---------------------------------------------------------------------------
(* Initial state: scheduler::init                                          *)

Init ==
  /\ count = 1
  /\ state = [p \in Slot |-> IF p = KernelMain THEN "Running" ELSE "Ready"]
  /\ prio = [p \in Slot |-> Normal]
  /\ boost = [p \in Slot |-> 0]
  /\ waited = [p \in Slot |-> 0]
  /\ pending = [p \in Slot |-> 0]
  /\ wakeIn = [p \in Slot |-> NoWake]
  /\ pref = [p \in Slot |-> IF p = KernelMain THEN 0 ELSE AnyCpu]
  /\ vruntime = [p \in Slot |-> 0]
  /\ reaped = [p \in Slot |-> FALSE]
  /\ current = KernelMain
  /\ quanta = 1
  /\ mode = WeightedPriority
  /\ slice \in Slices
  /\ phase = 0
  /\ inIsr = FALSE
  /\ atYield = [p \in Slot |-> FALSE]
  /\ promise = [p \in Slot |-> 0]

---------------------------------------------------------------------------
(* The context switch                                                      *)

\* Mutant: the process that keeps the core is left in its parked state.
Resume_NotRunning(st) == state' = st /\ UNCHANGED current

Resume(st) == state' = [st EXCEPT ![current] = "Running"] /\ UNCHANGED current
Dispatch(p, st) == state' = [st EXCEPT ![p] = "Running"] /\ current' = p

\* The end of switch_to_next and switch_to_next_cfs, once the outgoing
\* process is parked and the sleepers are awake; q is remaining_quanta.
ChooseNext(force, q, st, bo, wt, vr) ==
  \/ count <= 1 /\ Resume(st) /\ quanta' = q
  \/ /\ count > 1 /\ mode = WeightedPriority /\ ~force /\ q > 1
     /\ quanta' = q - 1
     /\ Resume(st)
  \/ /\ count > 1 /\ mode = WeightedPriority /\ (force \/ q <= 1)
     /\ \E p \in Live :
          /\ PickWP(p, st, bo, wt)
          /\ quanta' = MaxOf(priority_weight(effective_priority(prio[p], bo[p], wt[p])), 1)
          /\ Dispatch(p, st)
  \/ /\ count > 1 /\ mode = WeightedPriority /\ (force \/ q <= 1)
     /\ ReadyIn(st) = {}
     /\ quanta' = 1
     /\ Resume(st)
  \/ /\ count > 1 /\ mode = Cfs
     /\ \E p \in Live : PickCfs(p, st, bo, vr) /\ Dispatch(p, st)
     /\ quanta' = q
  \/ /\ count > 1 /\ mode = Cfs /\ ReadyIn(st) = {}
     /\ Resume(st)
     /\ quanta' = q

\* Mutant: a sleeper is woken one tick early.
Due_OneTickEarly(st, wk) == {p \in Live : st[p] = "Blocked" /\ wk[p] \in {0, 1}}

\* The blocked processes whose wake_at_tick has come.
Due(st, wk) == {p \in Live : st[p] = "Blocked" /\ wk[p] = 0}

switch_to_next(force, q, st, bo, wt, wk, vr) ==
  LET due == Due(st, wk)
      awake == [p \in Slot |-> IF p \in due THEN "Ready" ELSE st[p]]
      fresh == [p \in Slot |-> IF p \in due THEN 0 ELSE wt[p]]
  IN  /\ wakeIn' = [p \in Slot |-> IF p \in due THEN NoWake ELSE wk[p]]
      /\ waited' = fresh
      /\ ChooseNext(force, q, awake, bo, fresh, vr)

\* The vruntime the outgoing process is charged for e cycles.
Charge(e, c, b, w) ==
  MinOf(vruntime[c] + (e * Nice0Weight) \div CfsWeight[effective_priority(prio[c], b, w)],
        VruntimeMax)

\* do_preempt, for the waiting and wake-up times wt and wk of this TICK.
do_preempt(voluntary, wt, wk) ==
  LET c == current
      bo == [boost EXCEPT ![c] = MaxOf(@ - 1, 0)]
      sleeps == pending[c] > 0
      st == [state EXCEPT ![c] = IF sleeps THEN "Blocked" ELSE "Ready"]
      parkedWk == IF sleeps THEN [wk EXCEPT ![c] = pending[c]] ELSE wk
      parkedWt == IF sleeps THEN wt ELSE [wt EXCEPT ![c] = 0]
  IN  /\ boost' = bo
      /\ pending' = [pending EXCEPT ![c] = 0]
      /\ \/ mode = WeightedPriority /\ UNCHANGED vruntime
         \/ /\ mode = Cfs
            /\ \E e \in Elapsed :
                 vruntime' = [vruntime EXCEPT ![c] = Charge(e, c, bo[c], wt[c])]
      /\ switch_to_next(voluntary, quanta, st, bo, parkedWt, parkedWk, vruntime')

---------------------------------------------------------------------------
(* Interrupts                                                              *)

TickedWait == [p \in Slot |-> MinOf(waited[p] + 1, FairnessFloor)]
\* Mutant: the remaining time of processes that do not sleep is decremented too.
TickedWake_Underflow == [p \in Slot |-> wakeIn[p] - 1]

TickedWake == [p \in Slot |-> IF wakeIn[p] > 0 THEN wakeIn[p] - 1 ELSE wakeIn[p]]
TickedPromise == [p \in Slot |-> MaxOf(promise[p] - 1, 0)]

\* timer_preempt: TICK advances; every TIME_SLICE ticks the running process
\* is preempted and policy::on_switch follows with interrupts still off.
TimerTick ==
  /\ ~inIsr
  /\ phase' = (phase + 1) % SliceCycle
  /\ promise' = TickedPromise
  /\ \/ /\ phase' % slice = 0
        /\ do_preempt(FALSE, TickedWait, TickedWake)
        /\ inIsr' = TRUE
     \/ /\ phase' % slice # 0
        /\ waited' = TickedWait
        /\ wakeIn' = TickedWake
        /\ UNCHANGED <<state, boost, pending, vruntime, current, quanta, inIsr>>
  /\ UNCHANGED <<count, prio, pref, reaped, mode, slice, atYield>>

\* voluntary_yield, by int 0x40 of yield_now or at the end of sleep_ticks.
Yield ==
  /\ ~inIsr
  /\ do_preempt(TRUE, waited, wakeIn)
  /\ inIsr' = TRUE
  /\ atYield' = [atYield EXCEPT ![current] = FALSE]
  /\ UNCHANGED <<count, prio, pref, reaped, mode, slice, phase, promise>>

\* Mutant: the switch is not forced, and the quanta of the process are kept.
exit_current_Unforced ==
  /\ TasksExit /\ ~inIsr /\ current # KernelMain /\ ~atYield[current]
  /\ switch_to_next(FALSE, quanta, [state EXCEPT ![current] = "Dead"], boost, waited, wakeIn,
                    vruntime)
  /\ UNCHANGED <<count, prio, boost, pending, pref, vruntime, reaped, mode, slice, phase,
                 inIsr, atYield, promise>>

\* exit_current, by a task; kernel_main never ends.  on_switch is not called.
exit_current ==
  /\ TasksExit /\ ~inIsr /\ current # KernelMain /\ ~atYield[current]
  /\ switch_to_next(TRUE, 0, [state EXCEPT ![current] = "Dead"], boost, waited, wakeIn, vruntime)
  /\ UNCHANGED <<count, prio, boost, pending, pref, vruntime, reaped, mode, slice, phase,
                 inIsr, atYield, promise>>

\* irq_handler_keyboard: a make code boosts the interrupted process.
keyboard_boost ==
  /\ ~inIsr
  /\ prio[current] # Idle
  /\ boost' = [boost EXCEPT ![current] = MaxOf(@, KbdBoost)]
  /\ UNCHANGED <<count, state, prio, waited, pending, wakeIn, pref, vruntime, reaped,
                 current, quanta, mode, slice, phase, inIsr, atYield, promise>>

---------------------------------------------------------------------------
(* policy::on_switch, inside the interrupt: it may set priorities, cores   *)
(* and TIME_SLICE, and then the interrupt returns.                         *)

set_priority(p, x) ==
  /\ inIsr
  /\ prio' = [prio EXCEPT ![p] = x]
  /\ UNCHANGED <<count, state, boost, waited, pending, wakeIn, pref, vruntime, reaped,
                 current, quanta, mode, slice, phase, inIsr, atYield, promise>>

set_preferred_cpu(p, c) ==
  /\ inIsr
  /\ pref' = [pref EXCEPT ![p] = c]
  /\ UNCHANGED <<count, state, prio, boost, waited, pending, wakeIn, vruntime, reaped,
                 current, quanta, mode, slice, phase, inIsr, atYield, promise>>

SetTimeSlice(s) ==
  /\ inIsr
  /\ slice' = s
  /\ UNCHANGED <<count, procVars, current, quanta, mode, phase, inIsr, atYield, promise>>

ReturnFromIsr ==
  /\ inIsr
  /\ inIsr' = FALSE
  /\ UNCHANGED <<count, procVars, current, quanta, mode, slice, phase, atYield, promise>>

---------------------------------------------------------------------------
(* Calls of the running process                                            *)

\* sleep_ticks(n) up to its int 0x40, which is the next Yield of the process.
request_sleep(n) ==
  /\ ~inIsr /\ current \in Sleepers /\ ~atYield[current] /\ n > 0
  /\ pending' = [pending EXCEPT ![current] = n]
  /\ atYield' = [atYield EXCEPT ![current] = TRUE]
  /\ promise' = [promise EXCEPT ![current] = n]
  /\ UNCHANGED <<count, state, prio, boost, waited, wakeIn, pref, vruntime, reaped,
                 current, quanta, mode, slice, phase, inIsr>>

MainRuns == ~inIsr /\ current = KernelMain /\ ~atYield[KernelMain]

\* In CFS a new process starts with the smallest vruntime of the Ready ones,
\* if there are any; otherwise with 0.
SpawnVruntime(v) ==
  IF mode = Cfs /\ ReadyIn(state) # {}
  THEN /\ \E p \in ReadyIn(state) : v = vruntime[p]
       /\ \A p \in ReadyIn(state) : v <= vruntime[p]
  ELSE v = 0

spawn ==
  /\ MainRuns /\ count < MaxProcs
  /\ \E v \in 0..VruntimeMax :
       /\ SpawnVruntime(v)
       /\ vruntime' = [vruntime EXCEPT ![count] = v]
  /\ count' = count + 1
  /\ UNCHANGED <<state, prio, boost, waited, pending, wakeIn, pref, reaped,
                 current, quanta, mode, slice, phase, inIsr, atYield, promise>>

kill(p) ==
  /\ MainRuns /\ p # KernelMain
  /\ state' = [state EXCEPT ![p] = "Dead"]
  /\ UNCHANGED <<count, prio, boost, waited, pending, wakeIn, pref, vruntime, reaped,
                 current, quanta, mode, slice, phase, inIsr, atYield, promise>>

\* Mutant: every process that is not Ready is reaped, sleepers included.
reap_dead_NotReady ==
  /\ MainRuns
  /\ reaped' = [p \in Slot |-> reaped[p] \/ (p \in Live \ {current} /\ state[p] # "Ready")]
  /\ UNCHANGED <<count, state, prio, boost, waited, pending, wakeIn, pref, vruntime,
                 current, quanta, mode, slice, phase, inIsr, atYield, promise>>

reap_dead ==
  /\ MainRuns
  /\ reaped' = [p \in Slot |-> reaped[p] \/ (p \in Live \ {current} /\ state[p] = "Dead")]
  /\ UNCHANGED <<count, state, prio, boost, waited, pending, wakeIn, pref, vruntime,
                 current, quanta, mode, slice, phase, inIsr, atYield, promise>>

boost_pid(p, n) ==
  /\ MainRuns /\ prio[p] # Idle
  /\ boost' = [boost EXCEPT ![p] = MaxOf(@, n)]
  /\ UNCHANGED <<count, state, prio, waited, pending, wakeIn, pref, vruntime, reaped,
                 current, quanta, mode, slice, phase, inIsr, atYield, promise>>

\* Entering CFS rebases every vruntime of the vector to 0.
set_mode(m) ==
  /\ MainRuns
  /\ mode' = m
  /\ vruntime' = [p \in Slot |-> IF m = Cfs /\ p \in Live THEN 0 ELSE vruntime[p]]
  /\ UNCHANGED <<count, state, prio, boost, waited, pending, wakeIn, pref, reaped,
                 current, quanta, slice, phase, inIsr, atYield, promise>>

---------------------------------------------------------------------------

PolicyStep == \/ \E p \in Live, x \in PolicyPrios : set_priority(p, x)
              \/ \E p \in Live, c \in PolicyCpus : set_preferred_cpu(p, c)
              \/ \E s \in Slices : SetTimeSlice(s)

MainStep == \/ spawn
            \/ \E p \in Live : kill(p)
            \/ reap_dead
            \/ \E p \in Live, n \in TaskBoosts : boost_pid(p, n)
            \/ \E m \in SchedModes : set_mode(m)

Next == \/ TimerTick
        \/ Yield
        \/ exit_current
        \/ keyboard_boost
        \/ ReturnFromIsr
        \/ \E n \in SleepLens : request_sleep(n)
        \/ PolicyStep
        \/ MainStep

Spec == Init /\ [][Next]_vars

\* The timer keeps interrupting: its request stays latched in the interrupt
\* controller while IF = 0, hence strong fairness.  A handler returns.
Fairness == SF_vars(TimerTick) /\ WF_vars(ReturnFromIsr)
FairSpec == Spec /\ Fairness

---------------------------------------------------------------------------
(* Properties                                                              *)

TypeOK ==
  /\ count \in 1..MaxProcs
  /\ state \in [Slot -> States]
  /\ prio \in [Slot -> Priorities]
  /\ boost \in [Slot -> Nat]
  /\ waited \in [Slot -> Nat]
  /\ pending \in [Slot -> Nat]
  /\ wakeIn \in [Slot -> Nat \cup {NoWake}]
  /\ pref \in [Slot -> Nat]
  /\ vruntime \in [Slot -> 0..VruntimeMax]
  /\ reaped \in [Slot -> BOOLEAN]
  /\ current \in Live
  /\ quanta \in 0..4
  /\ mode \in {WeightedPriority, Cfs}
  /\ slice \in Slices
  /\ phase \in 0..(SliceCycle - 1)
  /\ inIsr \in BOOLEAN
  /\ atYield \in [Slot -> BOOLEAN]
  /\ promise \in [Slot -> Nat]

\* Exactly one process of the vector is Running, and it is the current one:
\* whatever the interrupts, kills and wake-ups, no switch leaves two
\* processes on the core or the core on a process that is parked or dead.
SoleRunner == \A p \in Live : state[p] = "Running" <=> p = current

\* A process that ended does not come back: the wake-up scan makes no Dead
\* process schedulable again, and the switch at the end of exit_current always
\* finds a successor, so that its fallback, which makes the current process
\* Running whatever it was, does not revive the one that has just exited.
DeadStaysDead ==
  [][/\ \A p \in Live : state[p] = "Dead" => state'[p] = "Dead"
     /\ exit_current => state'[current] = "Dead"]_vars

\* Resources are taken only from dead processes, so no process that can
\* still run has lost its message queue and handle table to reap_dead.
ReapedAreDead == \A p \in Live : reaped[p] => state[p] = "Dead"

\* A Blocked process leaves that state only when the ticks its sleep_ticks
\* asked for have passed: no switch cuts a sleep short once it has begun.
SleepsOut ==
  [][\A p \in Live : state[p] = "Blocked" /\ state'[p] \in {"Ready", "Running"}
                       => promise'[p] = 0]_vars

\* sleep_ticks(n) returns to its caller only after n ticks, even when the
\* timer interrupt falls between request_sleep and int 0x40.
SleepRespected ==
  \A p \in Live : state[p] = "Running" /\ ~inIsr /\ ~atYield[p] => promise[p] = 0

\* Every process that is Ready or asleep is eventually dispatched, or dead:
\* the wake-up scan forgets no sleeper, and aging and the fairness floor get
\* everybody to the core, whatever priorities and key presses favour others.
NoStarvation ==
  \A p \in Slot :
    p \in Live /\ state[p] \in {"Ready", "Blocked"} ~> state[p] \in {"Running", "Dead"}

\* In every state a switch may start from, the two scans of the code end on
\* the process that is best by priority (or boost and vruntime), core and
\* distance; with no Ready process they end on none.
ScansPickTheBest ==
  LET st == [state EXCEPT ![current] = "Ready"] IN
  \A p \in Live :
    /\ PickWP(p, st, boost, waited) <=> (ScanWP(st, boost, waited) = p)
    /\ PickCfs(p, st, boost, vruntime) <=> (ScanCfs(st, boost, vruntime) = p)
=============================================================================
