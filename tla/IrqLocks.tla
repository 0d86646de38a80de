------------------------------ MODULE IrqLocks ------------------------------
(***************************************************************************)
(* The spin locks that threads share with the timer interrupt, on the one  *)
(* core that runs both.  Threads take FAST_CHANNELS, SHARED_BUFFERS,       *)
(* AFFINITY, TRACER and the heap's lock with interrupts on.  The policy    *)
(* engine takes the same locks inside the interrupt (timer_preempt ->      *)
(* scheduler::preempt -> policy::on_switch -> adapt_and_report), where     *)
(* nobody else can run until it returns.                                   *)
(*                                                                         *)
(* An operation is the sequence of the locks it takes and releases; what   *)
(* it does under them is the subject of Ipc and ChannelPolicy.             *)
(***************************************************************************)
EXTENDS Naturals, Sequences, SequencesExt

CONSTANTS
  Threads,      \* kernel threads
  ThreadOps,    \* the operations threads call
  IsrOps,       \* the decisions the policy engine takes in the interrupt
  MaxDecisions  \* bound: decisions of one report window

Locks == {"FAST_CHANNELS", "SHARED_BUFFERS", "AFFINITY", "TRACER", "heap"}
isr == "isr"
nobody == "nobody"

OpNames ==
  {"send", "recv", "ensure_channel", "drop_channel", "dump", "heap_alloc", "hot_new",
   "hot_kept", "hot_refused", "reclaim", "anomaly", "traced", "active"}

ASSUME LockConstants ==
  /\ MaxDecisions \in Nat
  /\ ThreadOps \subseteq OpNames /\ IsrOps \subseteq OpNames
  /\ isr \notin Threads /\ nobody \notin Threads

---------------------------------------------------------------------------
(* Operations as sequences of lock steps                                   *)

Under(lock, body) == <<<<"lock", lock>>>> \o body \o <<<<"unlock", lock>>>>

Touch(lock) == Under(lock, <<>>)

\* A BTreeMap that grows or shrinks calls the allocator under the map's lock.
Resize == Touch("heap")

record == Touch("TRACER")
get_channel == Touch("FAST_CHANNELS")

send == get_channel \o Touch("SHARED_BUFFERS")
recv == Touch("FAST_CHANNELS") \o Touch("SHARED_BUFFERS")

\* Mutant: the guard of the look-up lives until the end of the function.
ensure_channel_GuardKept ==
  Under("FAST_CHANNELS",
        Under("SHARED_BUFFERS", Resize) \o Under("FAST_CHANNELS", Resize)
          \o record \o Touch("SHARED_BUFFERS"))

\* Mutant: the new channel is registered while its buffer is still locked.
ensure_channel_Nested ==
  Touch("FAST_CHANNELS")
    \o Under("SHARED_BUFFERS", Resize \o Under("FAST_CHANNELS", Resize))
    \o record \o Touch("SHARED_BUFFERS")

\* ensure_channel_cap: look-up, new buffer, registration, trace, isolation test.
ensure_channel ==
  Touch("FAST_CHANNELS") \o Under("SHARED_BUFFERS", Resize)
    \o Under("FAST_CHANNELS", Resize) \o record \o Touch("SHARED_BUFFERS")

\* drop_channel: the guard in the condition of if let lives through the body,
\* so the buffer is dropped and the event recorded under FAST_CHANNELS.
drop_channel ==
  Under("FAST_CHANNELS", Resize \o Under("SHARED_BUFFERS", Resize) \o record)

pin_pair ==
  Touch("AFFINITY") \o Touch("AFFINITY") \o Under("AFFINITY", Resize)
    \o Under("AFFINITY", Resize) \o record
unpin == Under("AFFINITY", Resize)
dump == record
heap_alloc == Touch("heap")

\* What adapt_and_report does for one pair of processes.
hot_new == record \o get_channel \o Touch("FAST_CHANNELS") \o ensure_channel
             \o Touch("FAST_CHANNELS") \o pin_pair \o Touch("AFFINITY")
hot_kept == record \o get_channel \o Touch("FAST_CHANNELS")
              \o Touch("AFFINITY") \o Touch("AFFINITY") \o Touch("AFFINITY")
hot_refused == record \o get_channel \o record \o pin_pair \o Touch("AFFINITY")
reclaim == drop_channel \o unpin \o unpin
anomaly == get_channel \o record \o reclaim

\* param_tuned, priority_boost, safety_bound and decay_warning: one event each.
traced == record

\* The lock steps of the operation called name.
Steps(name) ==
  CASE name = "send" -> send
    [] name = "recv" -> recv
    [] name = "ensure_channel" -> ensure_channel
    [] name = "drop_channel" -> drop_channel
    [] name = "dump" -> dump
    [] name = "heap_alloc" -> heap_alloc
    [] name = "hot_new" -> hot_new
    [] name = "hot_kept" -> hot_kept
    [] name = "hot_refused" -> hot_refused
    [] name = "reclaim" -> reclaim
    [] name = "anomaly" -> anomaly
    [] name = "traced" -> traced
    [] name = "active" -> get_channel

\* adapt_and_report: policy_tick, the decisions, affinity_count.
adapt_and_report(decisions) ==
  record \o FlattenSeq([i \in 1..Len(decisions) |-> Steps(decisions[i])]) \o Touch("AFFINITY")

---------------------------------------------------------------------------

VARIABLES
  holder,   \* who holds a lock
  running,  \* the thread that has the core
  inIsr,    \* whether the timer interrupt is being served
  todo,     \* what is left of a thread's operation
  isrTodo   \* what is left of the interrupt's

vars == <<holder, running, inIsr, todo, isrTodo>>

Init ==
  /\ holder = [l \in Locks |-> nobody]
  /\ running \in Threads
  /\ inIsr = FALSE
  /\ todo = [t \in Threads |-> <<>>]
  /\ isrTodo = <<>>

\* The next lock step of a context: a lock that is held is spun on.
LockStep(who, steps) ==
  /\ steps # <<>>
  /\ LET lock == Head(steps)[2] IN
       \/ /\ Head(steps)[1] = "lock" /\ holder[lock] = nobody
          /\ holder' = [holder EXCEPT ![lock] = who]
       \/ /\ Head(steps)[1] = "unlock"
          /\ holder' = [holder EXCEPT ![lock] = nobody]

ThreadCall(t, name) ==
  /\ running = t /\ ~inIsr /\ todo[t] = <<>>
  /\ todo' = [todo EXCEPT ![t] = Steps(name)]
  /\ UNCHANGED <<holder, running, inIsr, isrTodo>>

ThreadStep(t) ==
  /\ running = t /\ ~inIsr
  /\ LockStep(t, todo[t])
  /\ todo' = [todo EXCEPT ![t] = Tail(@)]
  /\ UNCHANGED <<running, inIsr, isrTodo>>

\* The timer interrupts a thread anywhere, lock held or not; a report may be due.
timer_preempt ==
  /\ ~inIsr
  /\ inIsr' = TRUE
  /\ \/ isrTodo' = <<>>
     \/ \E n \in 1..MaxDecisions : \E ds \in [1..n -> IsrOps] : isrTodo' = adapt_and_report(ds)
  /\ UNCHANGED <<holder, running, todo>>

IsrStep ==
  /\ inIsr
  /\ LockStep(isr, isrTodo)
  /\ isrTodo' = Tail(isrTodo)
  /\ UNCHANGED <<running, inIsr, todo>>

\* The interrupt returns into the thread the scheduler has chosen.
IsrReturn(t) ==
  /\ inIsr /\ isrTodo = <<>>
  /\ inIsr' = FALSE
  /\ running' = t
  /\ UNCHANGED <<holder, todo, isrTodo>>

Next ==
  \/ \E t \in Threads : (\E name \in ThreadOps : ThreadCall(t, name)) \/ ThreadStep(t)
  \/ timer_preempt
  \/ IsrStep
  \/ \E t \in Threads : IsrReturn(t)

Spec == Init /\ [][Next]_vars

\* The core runs on inside the interrupt.  Nothing is assumed of the threads:
\* spin::Mutex is not fair, and the timer may always hit the same one.
Fairness == WF_vars(IsrStep) /\ WF_vars(\E t \in Threads : IsrReturn(t))
FairSpec == Spec /\ Fairness

---------------------------------------------------------------------------
(* Properties                                                              *)

\* The interrupt never finds a lock taken: while it spins the holder cannot
\* run, so the machine stops there.
IsrNeverSpins ==
  inIsr /\ isrTodo # <<>> /\ Head(isrTodo)[1] = "lock" => holder[Head(isrTodo)[2]] = nobody

\* A report that interrupts no holder of a lock returns: it takes every lock
\* after giving the one before back, and never one that it still holds.
IsrReturns == inIsr /\ (\A l \in Locks : holder[l] \notin Threads) ~> ~inIsr

Blocked(t) ==
  todo[t] # <<>> /\ Head(todo[t])[1] = "lock" /\ holder[Head(todo[t])[2]] # nobody

\* Threads do not wait for each other in a circle: as long as an operation is
\* under way, one of the threads that are in one can take its next step.
NoCircularWait ==
  ~inIsr /\ (\E t \in Threads : todo[t] # <<>>) =>
    \E t \in Threads : todo[t] # <<>> /\ ~Blocked(t)
=============================================================================
