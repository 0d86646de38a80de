-------------------------- MODULE SchedulerProofs --------------------------
(***************************************************************************)
(* Proofs about the scheduler, for any number of processes, any            *)
(* thresholds, boosts, sleeps, slices and modes.                           *)
(***************************************************************************)
EXTENDS Scheduler, WellFoundedInduction, TLAPS

\* What a switch may start from: st is the state function once the outgoing
\* process is parked, so nobody of the vector is Running.
Parked(st) == st \in [Slot -> States] /\ \A p \in Live : st[p] # "Running"

LEMMA LiveInSlot == TypeOK => Live \subseteq Slot /\ current \in Live /\ current \in Slot
BY SchedulerConstants DEF TypeOK, Live, Slot

LEMMA MinMaxNat ==
  /\ \A a \in Nat, b \in Nat : MinOf(a, b) \in Nat /\ MinOf(a, b) <= b
  /\ \A a \in Int : MaxOf(a, 0) \in Nat
  /\ \A a \in Nat, b \in Nat : MaxOf(a, b) \in Nat
BY DEF MinOf, MaxOf

LEMMA WeightRange == \A p : priority_weight(p) \in 0..4 /\ MaxOf(priority_weight(p), 1) \in 0..4
BY DEF priority_weight, MaxOf, High, Normal, Low

\* What switch_to_next guarantees from the parked state st and wake times wk.
SwitchEffect(force, st, wk) ==
  /\ state' \in [Slot -> States]
  /\ waited' \in [Slot -> Nat]
  /\ wakeIn' \in [Slot -> Nat \cup {NoWake}]
  /\ current' \in Live
  /\ quanta' \in 0..4
  /\ \A p \in Live : state'[p] = "Running" <=> p = current'
  /\ \A p \in Slot \ Live : state'[p] = st[p]
  /\ \A p \in Live \ {current} : st[p] = "Dead" => state'[p] = "Dead"
  /\ force /\ count > 1 /\ ReadyIn(st) # {} =>
       \A p \in Live : st[p] = "Dead" => state'[p] = "Dead"
  /\ \A p \in Live \ {current} : st[p] = "Blocked" /\ state'[p] # "Blocked" => wk[p] = 0
  /\ \A p \in Live : state'[p] = "Blocked" => st[p] = "Blocked" /\ wakeIn'[p] = wk[p]
  /\ \A p \in Live : state'[p] = "Dead" => st[p] = "Dead"

\* switch_to_next leaves exactly one Running process, the new current one.
LEMMA SwitchSafe ==
  ASSUME TypeOK,
         NEW force \in BOOLEAN, NEW q \in 0..4, NEW st, NEW bo, NEW wt \in [Slot -> Nat],
         NEW wk \in [Slot -> Nat \cup {NoWake}], NEW vr,
         Parked(st),
         switch_to_next(force, q, st, bo, wt, wk, vr)
  PROVE  SwitchEffect(force, st, wk)
<1> DEFINE awake == [p \in Slot |-> IF p \in Due(st, wk) THEN "Ready" ELSE st[p]]
           fresh == [p \in Slot |-> IF p \in Due(st, wk) THEN 0 ELSE wt[p]]
<1>1. /\ waited' \in [Slot -> Nat]
      /\ wakeIn' \in [Slot -> Nat \cup {NoWake}]
  BY DEF switch_to_next, NoWake
<1>2. ChooseNext(force, q, awake, bo, fresh, vr)
  BY DEF switch_to_next
<1>3. /\ awake \in [Slot -> States]
      /\ \A p \in Live : awake[p] # "Running"
      /\ \A p \in Slot \ Live : awake[p] = st[p]
      /\ Live \subseteq Slot /\ current \in Live
  BY LiveInSlot DEF Parked, Due, States
<1>4. /\ \A p \in Live : st[p] = "Dead" => awake[p] = "Dead"
      /\ \A p \in Live : st[p] = "Blocked" => awake[p] = "Blocked" \/ wk[p] = 0
      /\ ReadyIn(st) \subseteq ReadyIn(awake)
      /\ \A p \in Live : awake[p] = "Blocked" => st[p] = "Blocked" /\ wakeIn'[p] = wk[p]
      /\ \A p \in Live : awake[p] = "Dead" => st[p] = "Dead"
  BY <1>3 DEF Due, ReadyIn, switch_to_next
<1> HIDE DEF awake, fresh
<1> DEFINE Goal == /\ state' \in [Slot -> States]
                   /\ current' \in Live
                   /\ \A r \in Live : state'[r] = "Running" <=> r = current'
                   /\ \A r \in Slot \ Live : state'[r] = st[r]
                   /\ \A r \in Live \ {current} : awake[r] = state'[r] \/ awake[r] = "Ready"
                   /\ \A r \in Live : state'[r] \in {"Blocked", "Dead"} => awake[r] = state'[r]
<1>5. ASSUME Resume(awake) PROVE Goal
  BY <1>3, <1>5 DEF Resume, States
<1>6. ASSUME NEW p \in ReadyIn(awake), Dispatch(p, awake)
      PROVE  Goal /\ \A r \in Live : awake[r] = "Dead" => state'[r] = "Dead"
  BY <1>3, <1>6 DEF Dispatch, States, ReadyIn
<1>7. /\ quanta' \in 0..4
      /\ \/ Resume(awake) /\ (force /\ count > 1 => ReadyIn(awake) = {})
         \/ \E p \in ReadyIn(awake) : Dispatch(p, awake)
  <2>1. CASE count <= 1 /\ Resume(awake) /\ quanta' = q
    BY <2>1, count \in Int DEF TypeOK
  <2>2. CASE /\ count > 1 /\ mode = WeightedPriority /\ ~force /\ q > 1
             /\ quanta' = q - 1
             /\ Resume(awake)
    BY <2>2
  <2>3. CASE \E p \in Live :
               /\ PickWP(p, awake, bo, fresh)
               /\ quanta' = MaxOf(priority_weight(effective_priority(prio[p], bo[p], fresh[p])), 1)
               /\ Dispatch(p, awake)
    BY <2>3, WeightRange DEF PickWP
  <2>4. CASE ReadyIn(awake) = {} /\ quanta' \in {1, q} /\ Resume(awake)
    BY <2>4
  <2>5. CASE /\ \E p \in Live : PickCfs(p, awake, bo, vr) /\ Dispatch(p, awake)
             /\ quanta' = q
    BY <2>5 DEF PickCfs
  <2> QED
    BY <1>2, <2>1, <2>2, <2>3, <2>4, <2>5 DEF ChooseNext
<1>8. Goal
  BY <1>5, <1>6, <1>7
<1>9. ASSUME force, count > 1, ReadyIn(st) # {}, NEW r \in Live, st[r] = "Dead"
      PROVE  state'[r] = "Dead"
  BY <1>4, <1>6, <1>7, <1>9
<1> QED
  BY <1>1, <1>4, <1>7, <1>8, <1>9 DEF SwitchEffect

---------------------------------------------------------------------------
(* Arithmetic and type facts about the operators                           *)

LEMMA ModRange == \A a \in Nat, n \in Nat \ {0} : a % n \in 0..(n - 1)
OBVIOUS

LEMMA ProductNat == \A a \in Nat, b \in Nat : a * b \in Nat
OBVIOUS

LEMMA DivNat == \A a \in Nat, n \in Nat \ {0} : a \div n \in Nat
OBVIOUS

LEMMA EffectiveRange ==
  \A p \in Priorities, b \in Nat, w \in Nat : effective_priority(p, b, w) \in Priorities
BY DEF effective_priority, Aged, Priorities, Idle, Low, Normal, High

LEMMA ChargeRange ==
  ASSUME TypeOK, NEW e \in Elapsed, NEW c \in Slot, NEW b \in Nat, NEW w \in Nat
  PROVE  Charge(e, c, b, w) \in 0..VruntimeMax
<1> DEFINE ep == effective_priority(prio[c], b, w)
           d == (e * Nice0Weight) \div CfsWeight[ep]
<1>1. ep \in Priorities
  BY EffectiveRange DEF TypeOK
<1>2. CfsWeight[ep] \in Nat \ {0} /\ e \in Nat /\ Nice0Weight \in Nat /\ VruntimeMax \in Nat
  BY <1>1, SchedulerConstants
<1>3. d \in Nat
  BY <1>2, ProductNat, DivNat
<1>4. vruntime[c] \in Nat
  BY <1>2 DEF TypeOK
<1> HIDE DEF d
<1>5. MinOf(vruntime[c] + d, VruntimeMax) \in 0..VruntimeMax
  BY <1>2, <1>3, <1>4 DEF MinOf
<1> QED
  BY <1>5 DEF Charge, d, ep

---------------------------------------------------------------------------
(* The inductive invariant                                                 *)

\* A slot that is not in the vector yet holds what Process::new puts there.
AbsentFresh == \A p \in Slot \ Live : state[p] = "Ready" /\ ~reaped[p]

SafeInv == TypeOK /\ SoleRunner /\ ReapedAreDead /\ AbsentFresh

LEMMA InitSafe == Init => SafeInv
<1> SUFFICES ASSUME Init PROVE SafeInv
  OBVIOUS
<1>1. TypeOK
  <2>1. /\ state \in [Slot -> States]
        /\ prio \in [Slot -> Priorities]
        /\ wakeIn \in [Slot -> Nat \cup {NoWake}]
    BY DEF Init, States, Priorities, Idle, High, Normal, NoWake
  <2>2. /\ boost \in [Slot -> Nat]
        /\ waited \in [Slot -> Nat]
        /\ pending \in [Slot -> Nat]
        /\ promise \in [Slot -> Nat]
    BY DEF Init
  <2>3. /\ reaped \in [Slot -> BOOLEAN]
        /\ atYield \in [Slot -> BOOLEAN]
    BY DEF Init
  <2>4. /\ pref \in [Slot -> Nat]
        /\ vruntime \in [Slot -> 0..VruntimeMax]
    BY SchedulerConstants DEF Init
  <2>5. /\ count \in 1..MaxProcs /\ current \in Live /\ quanta \in 0..4
        /\ phase \in 0..(SliceCycle - 1)
    BY SchedulerConstants DEF Init, Live, KernelMain
  <2>6. mode \in {WeightedPriority, Cfs} /\ slice \in Slices /\ inIsr \in BOOLEAN
    BY DEF Init
  <2> QED
    BY <2>1, <2>2, <2>3, <2>4, <2>5, <2>6 DEF TypeOK
<1> QED
  BY <1>1, SchedulerConstants
  DEF Init, SafeInv, SoleRunner, ReapedAreDead, AbsentFresh, Live, Slot, KernelMain

\* What do_preempt guarantees, where wk are the wake times it starts from.
PreemptEffect(wk) ==
  /\ state' \in [Slot -> States]
  /\ waited' \in [Slot -> Nat]
  /\ wakeIn' \in [Slot -> Nat \cup {NoWake}]
  /\ boost' \in [Slot -> Nat]
  /\ pending' = [pending EXCEPT ![current] = 0]
  /\ vruntime' \in [Slot -> 0..VruntimeMax]
  /\ current' \in Live
  /\ quanta' \in 0..4
  /\ SoleRunner' /\ AbsentFresh'
  /\ \A p \in Live : state[p] = "Dead" => state'[p] = "Dead"
  /\ \A p \in Live : state[p] = "Blocked" /\ state'[p] # "Blocked" => wk[p] = 0
  /\ \A p \in Live : state'[p] = "Blocked" =>
       \/ state[p] = "Blocked" /\ wakeIn'[p] = wk[p]
       \/ p = current /\ pending[p] > 0 /\ wakeIn'[p] = pending[p]
  /\ \A p \in Live : state'[p] = "Dead" => state[p] = "Dead"

LEMMA PreemptSafe ==
  ASSUME SafeInv, NEW vol \in BOOLEAN, NEW wt \in [Slot -> Nat], NEW wk \in [Slot -> Nat \cup {NoWake}],
         do_preempt(vol, wt, wk), UNCHANGED <<count, prio, pref, reaped, mode>>
  PROVE  PreemptEffect(wk)
<1> DEFINE c == current
           bo == [boost EXCEPT ![c] = MaxOf(@ - 1, 0)]
           sleeps == pending[c] > 0
           st == [state EXCEPT ![c] = IF sleeps THEN "Blocked" ELSE "Ready"]
           pwk == IF sleeps THEN [wk EXCEPT ![c] = pending[c]] ELSE wk
           pwt == IF sleeps THEN wt ELSE [wt EXCEPT ![c] = 0]
<1>1. TypeOK /\ Live \subseteq Slot /\ c \in Live /\ c \in Slot
  BY LiveInSlot DEF SafeInv
<1>2. boost' \in [Slot -> Nat] /\ bo[c] \in Nat
  <2>1. MaxOf(boost[c] - 1, 0) \in Nat
    <3>1. boost[c] \in Nat
      BY <1>1 DEF TypeOK
    <3> QED
      BY <3>1 DEF MaxOf
  <2> QED
    BY <1>1, <2>1 DEF do_preempt, TypeOK
<1>3. pending' = [pending EXCEPT ![c] = 0]
  BY DEF do_preempt
<1>4. vruntime' \in [Slot -> 0..VruntimeMax]
  <2>1. CASE UNCHANGED vruntime
    BY <1>1, <2>1 DEF TypeOK
  <2>2. ASSUME NEW e \in Elapsed, vruntime' = [vruntime EXCEPT ![c] = Charge(e, c, bo[c], wt[c])]
        PROVE  vruntime' \in [Slot -> 0..VruntimeMax]
    <3>1. Charge(e, c, bo[c], wt[c]) \in 0..VruntimeMax
      BY <1>1, <1>2, ChargeRange
    <3> QED
      BY <1>1, <2>2, <3>1 DEF TypeOK
  <2> QED
    BY <2>1, <2>2 DEF do_preempt
<1>5. pwk \in [Slot -> Nat \cup {NoWake}] /\ pwt \in [Slot -> Nat]
  BY <1>1 DEF TypeOK
<1>6. Parked(st)
  BY <1>1 DEF Parked, TypeOK, States, SafeInv, SoleRunner
<1>7. switch_to_next(vol, quanta, st, bo, pwt, pwk, vruntime')
  BY DEF do_preempt
<1>8. quanta \in 0..4
  BY <1>1 DEF TypeOK
<1> HIDE DEF bo, st, pwk, pwt
<1>9. SwitchEffect(vol, st, pwk)
  BY <1>1, <1>5, <1>6, <1>7, <1>8, SwitchSafe, Zenon
<1>10. SoleRunner'
  BY <1>9 DEF SwitchEffect, SoleRunner, Live
<1>11. AbsentFresh'
  <2>1. \A p \in Slot \ Live : st[p] = state[p]
    BY <1>1 DEF st, TypeOK
  <2> QED
    BY <1>9, <2>1 DEF SwitchEffect, AbsentFresh, Live, SafeInv
<1>12. \A p \in Live : /\ p # current => st[p] = state[p] /\ pwk[p] = wk[p]
                       /\ state[p] \in {"Dead", "Blocked"} => p # current
  BY <1>1 DEF st, pwk, TypeOK, SafeInv, SoleRunner
<1>13. /\ st[c] = "Blocked" => pending[c] > 0 /\ pwk[c] = pending[c]
       /\ st[c] # "Dead"
  BY <1>1 DEF st, pwk, TypeOK
<1>14. \A p \in Live : state'[p] = "Blocked" =>
         \/ state[p] = "Blocked" /\ wakeIn'[p] = wk[p]
         \/ p = current /\ pending[p] > 0 /\ wakeIn'[p] = pending[p]
  BY <1>9, <1>12, <1>13 DEF SwitchEffect
<1>15. /\ \A p \in Live : state[p] = "Dead" => state'[p] = "Dead"
       /\ \A p \in Live : state[p] = "Blocked" /\ state'[p] # "Blocked" => wk[p] = 0
       /\ \A p \in Live : state'[p] = "Dead" => state[p] = "Dead"
  BY <1>9, <1>12, <1>13 DEF SwitchEffect
<1> QED
  BY <1>2, <1>3, <1>4, <1>9, <1>10, <1>11, <1>14, <1>15 DEF PreemptEffect, SwitchEffect

LEMMA TickedTypes ==
  ASSUME TypeOK
  PROVE  /\ TickedWait \in [Slot -> Nat]
         /\ TickedWake \in [Slot -> Nat \cup {NoWake}]
         /\ TickedPromise \in [Slot -> Nat]
BY SchedulerConstants DEF TypeOK, TickedWait, TickedWake, TickedPromise, MinOf, MaxOf, NoWake

\* Every action preserves the invariant.
LEMMA StepSafe == SafeInv /\ [Next]_vars => SafeInv'
<1> SUFFICES ASSUME SafeInv, [Next]_vars PROVE SafeInv'
  OBVIOUS
<1>0. /\ TypeOK /\ SoleRunner /\ ReapedAreDead /\ AbsentFresh
      /\ Live \subseteq Slot /\ current \in Live /\ current \in Slot
  BY LiveInSlot DEF SafeInv
<1> DEFINE Quiet == UNCHANGED <<count, state, current, reaped>>
<1>1. ASSUME Quiet PROVE SoleRunner' /\ ReapedAreDead' /\ AbsentFresh' /\ current' \in Live'
  BY <1>0, <1>1 DEF SoleRunner, ReapedAreDead, AbsentFresh, Live
<1>2. CASE TimerTick
  <2>1. phase' \in 0..(SliceCycle - 1)
    <3>1. phase + 1 \in Nat /\ SliceCycle \in Nat \ {0}
      BY <1>0, SchedulerConstants DEF TypeOK
    <3> QED
      BY <1>2, <3>1, ModRange DEF TimerTick
  <2>2. promise' \in [Slot -> Nat]
    BY <1>0, <1>2, TickedTypes DEF TimerTick
  <2>3. UNCHANGED <<count, prio, pref, reaped, mode, slice, atYield>>
    BY <1>2 DEF TimerTick
  <2>4. CASE do_preempt(FALSE, TickedWait, TickedWake) /\ inIsr' = TRUE
    <3>1. PreemptEffect(TickedWake)
      BY <1>0, <2>3, <2>4, TickedTypes, PreemptSafe, Zenon
    <3>2. TypeOK'
      BY <1>0, <2>1, <2>2, <2>3, <2>4, <3>1 DEF PreemptEffect, TypeOK, Live
    <3>3. ReapedAreDead'
      BY <1>0, <2>3, <3>1 DEF PreemptEffect, ReapedAreDead, Live
    <3> QED
      BY <3>1, <3>2, <3>3 DEF PreemptEffect, SafeInv
  <2>5. CASE /\ waited' = TickedWait
             /\ wakeIn' = TickedWake
             /\ UNCHANGED <<state, boost, pending, vruntime, current, quanta, inIsr>>
    <3>1. TypeOK'
      BY <1>0, <1>1, <2>1, <2>2, <2>3, <2>5, TickedTypes DEF TypeOK
    <3> QED
      BY <1>1, <2>3, <2>5, <3>1 DEF SafeInv
  <2> QED
    BY <1>2, <2>4, <2>5 DEF TimerTick
<1>3. CASE Yield
  <2>1. UNCHANGED <<count, prio, pref, reaped, mode, slice, phase, promise>>
    BY <1>3 DEF Yield
  <2>2. waited \in [Slot -> Nat] /\ wakeIn \in [Slot -> Nat \cup {NoWake}]
    BY <1>0 DEF TypeOK
  <2>3. do_preempt(TRUE, waited, wakeIn)
    BY <1>3 DEF Yield
  <2>4. PreemptEffect(wakeIn)
    BY <2>1, <2>2, <2>3, PreemptSafe, Zenon
  <2>5. atYield' \in [Slot -> BOOLEAN] /\ inIsr' \in BOOLEAN
    BY <1>0, <1>3 DEF Yield, TypeOK
  <2>6. TypeOK'
    BY <1>0, <2>1, <2>4, <2>5 DEF PreemptEffect, TypeOK, Live
  <2>7. ReapedAreDead'
    BY <1>0, <2>1, <2>4 DEF PreemptEffect, ReapedAreDead, Live
  <2> QED
    BY <2>4, <2>6, <2>7 DEF PreemptEffect, SafeInv
<1>4. CASE exit_current
  <2> DEFINE st == [state EXCEPT ![current] = "Dead"]
  <2>1. UNCHANGED <<count, prio, boost, pending, pref, vruntime, reaped, mode, slice, phase,
                    inIsr, atYield, promise>>
    BY <1>4 DEF exit_current
  <2>2. Parked(st)
    BY <1>0 DEF Parked, TypeOK, States, SoleRunner
  <2>3. switch_to_next(TRUE, 0, st, boost, waited, wakeIn, vruntime)
    BY <1>4 DEF exit_current
  <2>4. waited \in [Slot -> Nat] /\ wakeIn \in [Slot -> Nat \cup {NoWake}] /\ 0 \in 0..4
    BY <1>0 DEF TypeOK
  <2>5. \A p \in Slot \ {current} : st[p] = state[p]
    BY <1>0 DEF TypeOK
  <2> HIDE DEF st
  <2>6. SwitchEffect(TRUE, st, wakeIn)
    BY <1>0, <2>2, <2>3, <2>4, SwitchSafe, Zenon
  <2>7. TypeOK'
    BY <1>0, <2>1, <2>6 DEF SwitchEffect, TypeOK, Live
  <2>8. SoleRunner' /\ AbsentFresh'
    BY <1>0, <2>1, <2>5, <2>6 DEF SwitchEffect, SoleRunner, AbsentFresh, Live
  <2>9. ReapedAreDead'
    BY <1>0, <2>1, <2>5, <2>6 DEF SwitchEffect, ReapedAreDead, SoleRunner, Live
  <2> QED
    BY <2>7, <2>8, <2>9 DEF SafeInv
<1>5. CASE keyboard_boost
  <2>1. boost' \in [Slot -> Nat]
    BY <1>0, <1>5, SchedulerConstants, MinMaxNat DEF keyboard_boost, TypeOK
  <2>2. Quiet /\ TypeOK'
    BY <1>0, <1>5, <2>1 DEF keyboard_boost, TypeOK, Live
  <2> QED
    BY <1>1, <2>2 DEF SafeInv
<1>6. ASSUME NEW p \in Live, NEW x \in PolicyPrios, set_priority(p, x) PROVE SafeInv'
  <2>1. x \in Priorities
    BY SchedulerConstants
  <2>2. prio' \in [Slot -> Priorities]
    BY <1>0, <1>6, <2>1 DEF set_priority, TypeOK
  <2>3. Quiet /\ TypeOK'
    BY <1>0, <1>6, <2>2 DEF set_priority, TypeOK, Live
  <2> QED
    BY <1>1, <2>3 DEF SafeInv
<1>7. ASSUME NEW p \in Live, NEW c \in PolicyCpus, set_preferred_cpu(p, c) PROVE SafeInv'
  <2>1. c \in Nat
    BY SchedulerConstants
  <2>2. pref' \in [Slot -> Nat]
    BY <1>0, <1>7, <2>1 DEF set_preferred_cpu, TypeOK
  <2>3. Quiet /\ TypeOK'
    BY <1>0, <1>7, <2>2 DEF set_preferred_cpu, TypeOK, Live
  <2> QED
    BY <1>1, <2>3 DEF SafeInv
<1>8. ASSUME NEW x \in Slices, SetTimeSlice(x) PROVE SafeInv'
  <2>1. Quiet /\ TypeOK'
    BY <1>0, <1>8 DEF SetTimeSlice, TypeOK, Live, procVars
  <2> QED
    BY <1>1, <2>1 DEF SafeInv
<1>9. CASE ReturnFromIsr
  <2>1. inIsr' \in BOOLEAN
    BY <1>9 DEF ReturnFromIsr
  <2>2. Quiet /\ TypeOK'
    BY <1>0, <1>9, <2>1 DEF ReturnFromIsr, TypeOK, Live, procVars
  <2> QED
    BY <1>1, <2>2 DEF SafeInv
<1>10. ASSUME NEW n \in SleepLens, request_sleep(n) PROVE SafeInv'
  <2>1. n \in Nat
    BY SchedulerConstants
  <2>2. pending' \in [Slot -> Nat] /\ promise' \in [Slot -> Nat]
    BY <1>0, <1>10, <2>1 DEF request_sleep, TypeOK
  <2>3. atYield' \in [Slot -> BOOLEAN]
    BY <1>0, <1>10 DEF request_sleep, TypeOK
  <2>4. Quiet /\ TypeOK'
    BY <1>0, <1>10, <2>2, <2>3 DEF request_sleep, TypeOK, Live
  <2> QED
    BY <1>1, <2>4 DEF SafeInv
<1>11. CASE spawn
  <2>1. /\ count \in Slot \ Live /\ count' \in 1..MaxProcs
        /\ Live' = Live \cup {count} /\ count # current
    <3>1. /\ count \in 1..MaxProcs /\ count < MaxProcs /\ count' = count + 1
          /\ MaxProcs \in Nat /\ current \in 0..(count - 1)
      BY <1>0, <1>11, SchedulerConstants DEF spawn, TypeOK, Live
    <3>2. 0..(count + 1 - 1) = (0..(count - 1)) \cup {count}
      BY <3>1
    <3> QED
      BY <3>1, <3>2 DEF Live, Slot
  <2>2. vruntime' \in [Slot -> 0..VruntimeMax]
    BY <1>0, <1>11, <2>1 DEF spawn, TypeOK
  <2>3. UNCHANGED <<state, prio, boost, waited, pending, wakeIn, pref, reaped,
                    current, quanta, mode, slice, phase, inIsr, atYield, promise>>
    BY <1>11 DEF spawn
  <2>4. current' \in Live'
    BY <1>0, <2>1, <2>3
  <2>5. TypeOK'
    BY <1>0, <2>1, <2>2, <2>3, <2>4 DEF TypeOK
  <2>6. SoleRunner' /\ ReapedAreDead' /\ AbsentFresh'
    BY <1>0, <2>1, <2>3 DEF SoleRunner, ReapedAreDead, AbsentFresh
  <2> QED
    BY <2>5, <2>6 DEF SafeInv
<1>12. ASSUME NEW p \in Live, kill(p) PROVE SafeInv'
  <2>1. p # current
    BY <1>12 DEF kill, MainRuns
  <2>2. state' = [state EXCEPT ![p] = "Dead"] /\ state' \in [Slot -> States]
    BY <1>0, <1>12 DEF kill, TypeOK, States
  <2>3. UNCHANGED <<count, prio, boost, waited, pending, wakeIn, pref, vruntime, reaped,
                    current, quanta, mode, slice, phase, inIsr, atYield, promise>>
    BY <1>12 DEF kill
  <2>4. TypeOK'
    BY <1>0, <2>2, <2>3 DEF TypeOK, Live
  <2>5. SoleRunner' /\ ReapedAreDead' /\ AbsentFresh'
    BY <1>0, <2>1, <2>2, <2>3 DEF SoleRunner, ReapedAreDead, AbsentFresh, Live, TypeOK
  <2> QED
    BY <2>4, <2>5 DEF SafeInv
<1>13. CASE reap_dead
  <2>1. UNCHANGED <<count, state, prio, boost, waited, pending, wakeIn, pref, vruntime,
                    current, quanta, mode, slice, phase, inIsr, atYield, promise>>
    BY <1>13 DEF reap_dead
  <2>2. reaped' \in [Slot -> BOOLEAN]
    BY <1>13 DEF reap_dead
  <2>3. \A p \in Slot : reaped'[p] => reaped[p] \/ (p \in Live /\ state[p] = "Dead")
    BY <1>13 DEF reap_dead
  <2>4. TypeOK'
    BY <1>0, <2>1, <2>2 DEF TypeOK, Live
  <2>5. SoleRunner' /\ ReapedAreDead' /\ AbsentFresh'
    BY <1>0, <2>1, <2>3 DEF SoleRunner, ReapedAreDead, AbsentFresh, Live
  <2> QED
    BY <2>4, <2>5 DEF SafeInv
<1>14. ASSUME NEW p \in Live, NEW n \in TaskBoosts, boost_pid(p, n) PROVE SafeInv'
  <2>1. n \in Nat
    BY SchedulerConstants
  <2>2. boost' \in [Slot -> Nat]
    BY <1>0, <1>14, <2>1, MinMaxNat DEF boost_pid, TypeOK
  <2>3. Quiet /\ TypeOK'
    BY <1>0, <1>14, <2>2 DEF boost_pid, TypeOK, Live
  <2> QED
    BY <1>1, <2>3 DEF SafeInv
<1>15. ASSUME NEW m \in SchedModes, set_mode(m) PROVE SafeInv'
  <2>1. mode' \in {WeightedPriority, Cfs}
    BY <1>15, SchedulerConstants DEF set_mode
  <2>2. vruntime' \in [Slot -> 0..VruntimeMax]
    BY <1>0, <1>15, SchedulerConstants DEF set_mode, TypeOK
  <2>3. Quiet /\ TypeOK'
    BY <1>0, <1>15, <2>1, <2>2 DEF set_mode, TypeOK, Live
  <2> QED
    BY <1>1, <2>3 DEF SafeInv
<1>16. CASE UNCHANGED vars
  <2>1. Quiet /\ TypeOK'
    BY <1>0, <1>16 DEF vars, procVars, TypeOK, Live
  <2> QED
    BY <1>1, <2>1 DEF SafeInv
<1> QED
  BY <1>2, <1>3, <1>4, <1>5, <1>6, <1>7, <1>8, <1>9, <1>10, <1>11, <1>12, <1>13, <1>14,
     <1>15, <1>16
  DEF Next, PolicyStep, MainStep

LEMMA SafeInvHolds == Spec => []SafeInv
BY InitSafe, StepSafe, PTL DEF Spec

---------------------------------------------------------------------------
(* Sleeping: what a process is owed is never more than what it waits for    *)

SleepInv ==
  /\ \A p \in Live : state[p] = "Blocked" => wakeIn[p] \in Nat /\ promise[p] <= wakeIn[p]
  /\ \A p \in Slot : pending[p] > 0 => promise[p] <= pending[p]

\* The two steps that park the running process, with the ticks tp and tw the
\* step has already counted.
LEMMA PreemptSleep ==
  ASSUME SafeInv, NEW tp \in [Slot -> Nat], NEW tw \in [Slot -> Nat \cup {NoWake}],
         \A p \in Live : state[p] = "Blocked" => tw[p] \in Nat /\ tp[p] <= tw[p],
         \A p \in Slot : pending[p] > 0 => tp[p] <= pending[p],
         PreemptEffect(tw), promise' = tp, UNCHANGED count
  PROVE  /\ SleepInv'
         /\ \A p \in Live : state[p] = "Blocked" /\ state'[p] # "Blocked" => promise'[p] = 0
<1>1. TypeOK /\ Live \subseteq Slot /\ Live' = Live /\ current \in Slot
  BY LiveInSlot DEF SafeInv, Live
<1>2. ASSUME NEW p \in Live, state'[p] = "Blocked"
      PROVE  wakeIn'[p] \in Nat /\ promise'[p] <= wakeIn'[p]
  BY <1>1, <1>2 DEF PreemptEffect, TypeOK
<1>3. ASSUME NEW p \in Slot, pending'[p] > 0
      PROVE  promise'[p] <= pending'[p]
  BY <1>1, <1>3 DEF PreemptEffect, TypeOK
<1>4. ASSUME NEW p \in Live, state[p] = "Blocked", state'[p] # "Blocked"
      PROVE  promise'[p] = 0
  BY <1>1, <1>4 DEF PreemptEffect
<1> QED
  BY <1>1, <1>2, <1>3, <1>4 DEF SleepInv

SleepsOutStep ==
  \A p \in Live : state[p] = "Blocked" /\ state'[p] \in {"Ready", "Running"} => promise'[p] = 0

LEMMA StepSleep == SafeInv /\ SleepInv /\ [Next]_vars => SleepInv' /\ SleepsOutStep
<1> SUFFICES ASSUME SafeInv, SleepInv, [Next]_vars PROVE SleepInv' /\ SleepsOutStep
  OBVIOUS
<1>0. /\ TypeOK /\ SoleRunner /\ AbsentFresh
      /\ Live \subseteq Slot /\ current \in Live /\ current \in Slot
  BY LiveInSlot DEF SafeInv
<1>1. ASSUME UNCHANGED <<count, state, pending, wakeIn, promise>>
      PROVE  SleepInv' /\ SleepsOutStep
  BY <1>1 DEF SleepInv, SleepsOutStep, Live
<1>2. CASE TimerTick
  <2>1. /\ TickedPromise \in [Slot -> Nat]
        /\ TickedWake \in [Slot -> Nat \cup {NoWake}]
        /\ TickedWait \in [Slot -> Nat]
        /\ promise' = TickedPromise /\ UNCHANGED <<count, prio, pref, reaped, mode>>
    BY <1>0, <1>2, TickedTypes DEF TimerTick
  <2>2. ASSUME NEW p \in Live, state[p] = "Blocked"
        PROVE  TickedWake[p] \in Nat /\ TickedPromise[p] <= TickedWake[p]
    <3>1. p \in Slot /\ wakeIn[p] \in Nat /\ promise[p] \in Nat /\ promise[p] <= wakeIn[p]
      BY <1>0, <2>2 DEF SleepInv, TypeOK
    <3> QED
      BY <3>1 DEF TickedWake, TickedPromise, MaxOf
  <2>3. ASSUME NEW p \in Slot, pending[p] > 0 PROVE TickedPromise[p] <= pending[p]
    <3>1. promise[p] \in Nat /\ pending[p] \in Nat /\ promise[p] <= pending[p]
      BY <1>0, <2>3 DEF SleepInv, TypeOK
    <3> QED
      BY <2>3, <3>1 DEF TickedPromise, MaxOf
  <2>4. CASE do_preempt(FALSE, TickedWait, TickedWake)
    <3>1. PreemptEffect(TickedWake)
      BY <2>1, <2>4, PreemptSafe, Zenon
    <3>2. SleepInv' /\ \A p \in Live : state[p] = "Blocked" /\ state'[p] # "Blocked" => promise'[p] = 0
      BY <2>1, <2>2, <2>3, <3>1, PreemptSleep
    <3> QED
      BY <3>2 DEF SleepsOutStep
  <2>5. CASE wakeIn' = TickedWake /\ UNCHANGED <<state, pending>>
    BY <2>1, <2>2, <2>3, <2>5 DEF SleepInv, SleepsOutStep, Live
  <2> QED
    BY <1>2, <2>4, <2>5 DEF TimerTick
<1>3. CASE Yield
  <2>1. /\ promise \in [Slot -> Nat] /\ wakeIn \in [Slot -> Nat \cup {NoWake}]
        /\ waited \in [Slot -> Nat]
    BY <1>0 DEF TypeOK
  <2>2. do_preempt(TRUE, waited, wakeIn) /\ UNCHANGED <<count, prio, pref, reaped, mode, promise>>
    BY <1>3 DEF Yield
  <2>3. PreemptEffect(wakeIn)
    BY <2>1, <2>2, PreemptSafe, Zenon
  <2>4. SleepInv' /\ \A p \in Live : state[p] = "Blocked" /\ state'[p] # "Blocked" => promise'[p] = 0
    BY <2>1, <2>2, <2>3, PreemptSleep DEF SleepInv
  <2> QED
    BY <2>4 DEF SleepsOutStep
<1>4. CASE exit_current
  <2> DEFINE st == [state EXCEPT ![current] = "Dead"]
  <2>1. UNCHANGED <<count, pending, promise>>
    BY <1>4 DEF exit_current
  <2>2. Parked(st)
    BY <1>0 DEF Parked, TypeOK, States, SoleRunner
  <2>3. switch_to_next(TRUE, 0, st, boost, waited, wakeIn, vruntime)
    BY <1>4 DEF exit_current
  <2>4. waited \in [Slot -> Nat] /\ wakeIn \in [Slot -> Nat \cup {NoWake}] /\ 0 \in 0..4
    BY <1>0 DEF TypeOK
  <2>5. /\ \A p \in Slot \ {current} : st[p] = state[p]
        /\ st[current] = "Dead" /\ state[current] = "Running"
    BY <1>0 DEF TypeOK, SoleRunner
  <2> HIDE DEF st
  <2>6. SwitchEffect(TRUE, st, wakeIn)
    BY <1>0, <2>2, <2>3, <2>4, SwitchSafe, Zenon
  <2>7. SleepInv'
    BY <1>0, <2>1, <2>5, <2>6 DEF SwitchEffect, SleepInv, Live
  <2>8. ASSUME NEW p \in Live, state[p] = "Blocked", state'[p] # "Blocked" PROVE promise'[p] = 0
    <3>1. p # current /\ st[p] = "Blocked"
      BY <1>0, <2>5, <2>8
    <3>2. wakeIn[p] = 0
      BY <2>6, <2>8, <3>1 DEF SwitchEffect
    <3>3. promise[p] \in Nat /\ promise[p] <= 0
      BY <1>0, <2>8, <3>2 DEF SleepInv, TypeOK
    <3> QED
      BY <2>1, <3>3
  <2> QED
    BY <2>7, <2>8 DEF SleepsOutStep
<1>5. ASSUME NEW n \in SleepLens, request_sleep(n) PROVE SleepInv' /\ SleepsOutStep
  <2>1. n \in Nat
    BY SchedulerConstants
  <2>2. state[current] = "Running"
    BY <1>0 DEF SoleRunner
  <2> QED
    BY <1>0, <1>5, <2>1, <2>2 DEF request_sleep, SleepInv, SleepsOutStep, Live, TypeOK
<1>6. CASE spawn
  <2>1. /\ Live' \subseteq Live \cup {count} /\ count \in Slot \ Live
    BY <1>0, <1>6, SchedulerConstants DEF spawn, TypeOK, Live, Slot
  <2>2. state[count] = "Ready"
    BY <1>0, <2>1 DEF AbsentFresh
  <2>3. UNCHANGED <<state, pending, wakeIn, promise>>
    BY <1>6 DEF spawn
  <2> QED
    BY <2>1, <2>2, <2>3 DEF SleepInv, SleepsOutStep
<1>7. ASSUME NEW p \in Live, kill(p) PROVE SleepInv' /\ SleepsOutStep
  <2>1. /\ UNCHANGED <<count, pending, wakeIn, promise>>
        /\ state' = [state EXCEPT ![p] = "Dead"]
    BY <1>7 DEF kill
  <2> QED
    BY <1>0, <2>1 DEF SleepInv, SleepsOutStep, Live, TypeOK
<1>8. CASE \/ keyboard_boost \/ ReturnFromIsr \/ PolicyStep \/ reap_dead \/ UNCHANGED vars
           \/ \E p \in Live, n \in TaskBoosts : boost_pid(p, n)
           \/ \E m \in SchedModes : set_mode(m)
  <2>1. UNCHANGED <<count, state, pending, wakeIn, promise>>
    BY <1>8
    DEF keyboard_boost, ReturnFromIsr, PolicyStep, set_priority, set_preferred_cpu,
        SetTimeSlice, reap_dead, boost_pid, set_mode, vars, procVars
  <2> QED
    BY <1>1, <2>1
<1> QED
  BY <1>2, <1>3, <1>4, <1>5, <1>6, <1>7, <1>8 DEF Next, MainStep

LEMMA SleepInvHolds == Spec => []SleepInv
<1>1. Init => SleepInv
  BY SchedulerConstants DEF Init, SleepInv, Live, Slot, KernelMain
<1> QED
  BY <1>1, SafeInvHolds, StepSleep, PTL DEF Spec

---------------------------------------------------------------------------
(* kernel_main, which never sleeps, is always there to be switched to       *)

MainInv ==
  KernelMain \notin Sleepers =>
    state[KernelMain] \notin {"Blocked", "Dead"} /\ pending[KernelMain] = 0

DeadStep == \A p \in Live : state[p] = "Dead" => state'[p] = "Dead"

\* exit_current keeps the invariant; while kernel_main does not sleep it can be
\* switched to, so the fallback of the switch does not revive who exits.
LEMMA ExitEnds ==
  ASSUME SafeInv, MainInv, exit_current
  PROVE  /\ MainInv' /\ TasksExit
         /\ KernelMain \notin Sleepers => DeadStep /\ state'[current] = "Dead"
<1>0. /\ TypeOK /\ SoleRunner /\ Live \subseteq Slot /\ current \in Live /\ current \in Slot
      /\ KernelMain \in Live
  BY LiveInSlot, SchedulerConstants DEF SafeInv, TypeOK, Live, KernelMain
<1> DEFINE st == [state EXCEPT ![current] = "Dead"]
<1>1. UNCHANGED <<count, pending>> /\ current # KernelMain /\ TasksExit
  BY DEF exit_current
<1>2. Parked(st)
  BY <1>0 DEF Parked, TypeOK, States, SoleRunner
<1>3. switch_to_next(TRUE, 0, st, boost, waited, wakeIn, vruntime)
  BY DEF exit_current
<1>4. waited \in [Slot -> Nat] /\ wakeIn \in [Slot -> Nat \cup {NoWake}] /\ 0 \in 0..4
  BY <1>0 DEF TypeOK
<1>5. /\ \A p \in Slot \ {current} : st[p] = state[p]
      /\ st[current] = "Dead" /\ state[current] = "Running"
  BY <1>0 DEF TypeOK, SoleRunner
<1> HIDE DEF st
<1>6. SwitchEffect(TRUE, st, wakeIn)
  BY <1>0, <1>2, <1>3, <1>4, SwitchSafe, Zenon
<1>7. MainInv'
  BY <1>0, <1>1, <1>5, <1>6 DEF SwitchEffect, MainInv
<1>8. ASSUME KernelMain \notin Sleepers PROVE DeadStep /\ state'[current] = "Dead"
  <2>1. count > 1
    BY <1>0, <1>1 DEF TypeOK, Live, KernelMain
  <2>2. state[KernelMain] = "Ready"
    BY <1>0, <1>1, <1>8 DEF MainInv, TypeOK, States, SoleRunner
  <2>3. KernelMain \in ReadyIn(st)
    BY <1>0, <1>1, <1>5, <2>2 DEF ReadyIn
  <2>4. \A p \in Live : st[p] = "Dead" => state'[p] = "Dead"
    BY <1>6, <2>1, <2>3 DEF SwitchEffect
  <2> QED
    BY <1>0, <1>5, <2>4 DEF DeadStep
<1> QED
  BY <1>1, <1>7, <1>8

LEMMA StepMain ==
  SafeInv /\ MainInv /\ [Next]_vars =>
    MainInv' /\ ((TasksExit => KernelMain \notin Sleepers) => DeadStep)
<1> SUFFICES ASSUME SafeInv, MainInv, [Next]_vars
             PROVE  MainInv' /\ ((TasksExit => KernelMain \notin Sleepers) => DeadStep)
  OBVIOUS
<1>0. /\ TypeOK /\ SoleRunner /\ Live \subseteq Slot /\ current \in Live /\ current \in Slot
      /\ KernelMain \in Live
  BY LiveInSlot, SchedulerConstants DEF SafeInv, TypeOK, Live, KernelMain
<1>1. ASSUME UNCHANGED <<state, pending>> PROVE MainInv' /\ DeadStep
  BY <1>1 DEF MainInv, DeadStep
<1>2. ASSUME NEW tw, PreemptEffect(tw) PROVE MainInv' /\ DeadStep
  <2>1. DeadStep
    BY <1>2 DEF PreemptEffect, DeadStep
  <2>2. MainInv'
    BY <1>0, <1>2 DEF PreemptEffect, MainInv, TypeOK
  <2> QED
    BY <2>1, <2>2
<1>3. CASE TimerTick
  <2>1. /\ TickedWake \in [Slot -> Nat \cup {NoWake}]
        /\ TickedWait \in [Slot -> Nat]
        /\ UNCHANGED <<count, prio, pref, reaped, mode>>
    BY <1>0, <1>3, TickedTypes DEF TimerTick
  <2>2. CASE do_preempt(FALSE, TickedWait, TickedWake)
    <3>1. PreemptEffect(TickedWake)
      BY <2>1, <2>2, PreemptSafe, Zenon
    <3> QED
      BY <1>2, <3>1
  <2>3. CASE UNCHANGED <<state, pending>>
    BY <1>1, <2>3
  <2> QED
    BY <1>3, <2>2, <2>3 DEF TimerTick
<1>4. CASE Yield
  <2>1. wakeIn \in [Slot -> Nat \cup {NoWake}] /\ waited \in [Slot -> Nat]
    BY <1>0 DEF TypeOK
  <2>2. do_preempt(TRUE, waited, wakeIn) /\ UNCHANGED <<count, prio, pref, reaped, mode>>
    BY <1>4 DEF Yield
  <2>3. PreemptEffect(wakeIn)
    BY <2>1, <2>2, PreemptSafe, Zenon
  <2> QED
    BY <1>2, <2>3
<1>5. CASE exit_current
  BY <1>5, ExitEnds
<1>6. ASSUME NEW n \in SleepLens, request_sleep(n) PROVE MainInv' /\ DeadStep
  BY <1>0, <1>6 DEF request_sleep, MainInv, DeadStep, TypeOK
<1>7. ASSUME NEW p \in Live, kill(p) PROVE MainInv' /\ DeadStep
  BY <1>0, <1>7 DEF kill, MainInv, DeadStep, TypeOK
<1>8. CASE \/ keyboard_boost \/ ReturnFromIsr \/ PolicyStep \/ reap_dead \/ spawn
           \/ UNCHANGED vars
           \/ \E p \in Live, n \in TaskBoosts : boost_pid(p, n)
           \/ \E m \in SchedModes : set_mode(m)
  <2>1. UNCHANGED <<state, pending>>
    BY <1>8
    DEF keyboard_boost, ReturnFromIsr, PolicyStep, set_priority, set_preferred_cpu,
        SetTimeSlice, reap_dead, spawn, boost_pid, set_mode, vars, procVars
  <2> QED
    BY <1>1, <2>1
<1> QED
  BY <1>3, <1>4, <1>5, <1>6, <1>7, <1>8 DEF Next, MainStep

LEMMA MainInvHolds == Spec => []MainInv
<1>1. Init => MainInv
  BY SchedulerConstants DEF Init, MainInv, Slot, KernelMain
<1> QED
  BY <1>1, SafeInvHolds, StepMain, PTL DEF Spec

---------------------------------------------------------------------------
(* Theorems                                                                *)

\* Every variable of the scheduler keeps its type in every reachable state.
THEOREM TypeCorrect == Spec => []TypeOK
BY SafeInvHolds, PTL DEF SafeInv

\* At every moment the current process and no other is Running.
THEOREM OneRunner == Spec => []SoleRunner
BY SafeInvHolds, PTL DEF SafeInv

\* Only dead processes have been reaped.
THEOREM ReapsOnlyDead == Spec => []ReapedAreDead
BY SafeInvHolds, PTL DEF SafeInv

\* A process that has been switched out to sleep becomes Ready or Running
\* again only once all the ticks it asked for have passed.
THEOREM NoSleepCutShort == Spec => SleepsOut
<1>1. SafeInv /\ SleepInv /\ [Next]_vars => [SleepsOutStep]_vars
  BY StepSleep
<1>2. [SleepsOutStep]_vars =>
        [\A p \in Live : state[p] = "Blocked" /\ state'[p] \in {"Ready", "Running"}
                          => promise'[p] = 0]_vars
  BY DEF SleepsOutStep
<1> QED
  BY <1>1, <1>2, SafeInvHolds, SleepInvHolds, PTL DEF Spec, SleepsOut

\* Where tasks end themselves, provided kernel_main never sleeps, and in any
\* case where they do not, a Dead process stays Dead and exit_current leaves
\* its caller Dead.
THEOREM NoResurrection ==
  ASSUME TasksExit => KernelMain \notin Sleepers
  PROVE  Spec => DeadStaysDead
<1>1. SafeInv /\ MainInv /\ [Next]_vars => [DeadStep]_vars
  BY StepMain
<1>2. SafeInv /\ MainInv /\ exit_current => state'[current] = "Dead"
  BY ExitEnds
<1>3. [DeadStep]_vars /\ (exit_current => state'[current] = "Dead")
        => [/\ \A p \in Live : state[p] = "Dead" => state'[p] = "Dead"
            /\ exit_current => state'[current] = "Dead"]_vars
  BY DEF DeadStep
<1> QED
  BY <1>1, <1>2, <1>3, SafeInvHolds, MainInvHolds, PTL DEF Spec, DeadStaysDead

---------------------------------------------------------------------------
(* The scans of the two modes                                              *)

\* Induction up to n, over the set of the numbers a statement holds of.
LEMMA UpTo ==
  ASSUME NEW n \in Nat, NEW S, 0 \in S, \A i \in 0..(n - 1) : i \in S => i + 1 \in S
  PROVE  0..n \subseteq S
<1> DEFINE Bad == {i \in 0..n : i \notin S}
<1>1. SUFFICES ASSUME Bad # {} PROVE FALSE
  OBVIOUS
<1>2. IsWellFoundedOn(OpToRel(<, Nat), Nat)
  BY NatLessThanWellFounded
<1>3. Bad \in SUBSET Nat
  OBVIOUS
<1>4. PICK x \in Bad : \A y \in Bad : ~(<<y, x>> \in OpToRel(<, Nat))
  BY <1>1, <1>2, <1>3, WFMin
<1>5. x \in 0..n /\ x \notin S
  OBVIOUS
<1>6. \A y \in Bad : ~(y < x)
  BY <1>3, <1>4, <1>5 DEF OpToRel
<1>7. x - 1 \in 0..(n - 1) /\ x - 1 \notin Bad /\ (x - 1) + 1 = x
  BY <1>5, <1>6
<1>8. x - 1 \in S
  BY <1>7
<1> QED
  BY <1>5, <1>7, <1>8

\* F says what each of the n rounds of a loop makes of a value in D, and f
\* is what the loop has after each round when it starts from b.
LoopOver(n, D, F) == F \in [1..n -> [D -> D]]
LoopRun(n, D, F, b, f) ==
  f \in [0..n -> D] /\ f[0] = b /\ \A i \in 1..n : f[i] = F[i][f[i - 1]]

\* Every such loop has a run.
LEMMA LoopRuns ==
  ASSUME NEW n \in Nat, NEW D, NEW b \in D, NEW F, LoopOver(n, D, F)
  PROVE  \E f : LoopRun(n, D, F, b, f)
<1>0. F \in [1..n -> [D -> D]]
  BY DEF LoopOver
<1> DEFINE Run(k, f) == f \in [0..k -> D] /\ f[0] = b /\ \A i \in 1..k : f[i] = F[i][f[i - 1]]
           S == {k \in 0..n : \E f : Run(k, f)}
<1>1. 0 \in S
  <2> DEFINE f == [i \in 0..0 |-> b]
  <2>1. f \in [0..0 -> D] /\ f[0] = b /\ \A i \in 1..0 : f[i] = F[i][f[i - 1]]
    OBVIOUS
  <2> HIDE DEF f
  <2>2. Run(0, f)
    BY <2>1
  <2> QED
    BY <2>2
<1>2. ASSUME NEW k \in 0..(n - 1), k \in S PROVE k + 1 \in S
  <2>1. PICK f : Run(k, f)
    BY <1>2
  <2> DEFINE g == [i \in 0..(k + 1) |-> IF i = k + 1 THEN F[k + 1][f[k]] ELSE f[i]]
  <2>2. f \in [0..k -> D] /\ f[0] = b /\ (\A i \in 1..k : f[i] = F[i][f[i - 1]]) /\ f[k] \in D
    BY <2>1
  <2>3. k + 1 \in 1..n /\ F[k + 1] \in [D -> D] /\ F[k + 1][f[k]] \in D
    BY <1>0, <2>2
  <2>4. (\A i \in 0..k : g[i] = f[i]) /\ g[k + 1] = F[k + 1][f[k]]
    OBVIOUS
  <2>5. \A i \in 0..(k + 1) : g[i] \in D
    BY <2>2, <2>3, <2>4
  <2>6. g \in [0..(k + 1) -> D]
    BY <2>5
  <2> HIDE DEF g
  <2>7. \A i \in 1..(k + 1) : g[i] = F[i][g[i - 1]]
    <3> SUFFICES ASSUME NEW i \in 1..(k + 1) PROVE g[i] = F[i][g[i - 1]]
      OBVIOUS
    <3>1. i - 1 \in 0..k /\ g[i - 1] = f[i - 1]
      BY <2>4
    <3>2. CASE i = k + 1
      BY <2>4, <3>1, <3>2
    <3>3. CASE i # k + 1
      <4>1. i \in 1..k /\ i \in 0..k
        BY <3>3
      <4> QED
        BY <2>2, <2>4, <3>1, <4>1
    <3> QED
      BY <3>2, <3>3
  <2>8. g[0] = b
    BY <2>2, <2>4
  <2>9. Run(k + 1, g)
    BY <2>6, <2>7, <2>8
  <2> QED
    BY <2>9
<1> HIDE DEF S
<1>3. 0..n \subseteq S
  BY <1>1, <1>2, UpTo
<1>4. n \in S
  BY <1>3
<1> QED
  BY <1>4 DEF S, LoopRun

\* Remainders of numbers that are at most one turn away.
LEMMA ModTurn ==
  ASSUME NEW n \in Nat \ {0}, NEW a \in Int
  PROVE  /\ a \in 0..(n - 1) => a % n = a
         /\ a \in n..(2 * n - 1) => a % n = a - n
         /\ a \in (0 - n)..(0 - 1) => a % n = a + n
<1>1. \A r \in 0..(n - 1), q \in {0, 1, -1} : (n * q + r) % n = r
  OBVIOUS
<1> QED
  BY <1>1

\* The i-th slot of the scan is the one at distance i - 1.
LEMMA ScanOrder ==
  ASSUME TypeOK
  PROVE  /\ count \in Nat \ {0}
         /\ \A i \in 1..count : ScanIndex(i) \in Live /\ ScanDistance(ScanIndex(i)) = i - 1
         /\ \A p \in Live : /\ ScanDistance(p) + 1 \in 1..count
                            /\ ScanIndex(ScanDistance(p) + 1) = p
<1>1. count \in Nat \ {0} /\ current \in 0..(count - 1) /\ Live = 0..(count - 1)
  BY SchedulerConstants DEF TypeOK, Live
<1>2. PICK n \in Nat \ {0} : n = count
  BY <1>1
<1>3. PICK c \in 0..(n - 1) : c = current
  BY <1>1, <1>2
<1>4. ASSUME NEW i \in 1..n
      PROVE  (c + i) % n \in 0..(n - 1) /\ (((c + i) % n) - c - 1) % n = i - 1
  <2>1. CASE c + i < n
    <3>0. c + i \in 0..(n - 1) /\ c + i \in Int
      BY <2>1
    <3>1. (c + i) % n = c + i
      BY <3>0, ModTurn
    <3>2. i - 1 \in 0..(n - 1) /\ c + i - c - 1 = i - 1
      BY <2>1
    <3>3. (i - 1) % n = i - 1
      BY <3>2, ModTurn
    <3> QED
      BY <2>1, <3>1, <3>2, <3>3
  <2>2. CASE c + i >= n
    <3>1. c + i \in n..(2 * n - 1)
      BY <2>2
    <3>2. (c + i) % n = c + i - n
      BY <3>1, ModTurn
    <3>3. c + i - n - c - 1 = i - 1 - n /\ i - 1 - n \in (0 - n)..(0 - 1) /\ i - 1 - n + n = i - 1
      BY <2>2
    <3>4. (i - 1 - n) % n = i - 1
      BY <3>3, ModTurn
    <3> QED
      BY <2>2, <3>1, <3>2, <3>3, <3>4
  <2> QED
    BY <2>1, <2>2
<1>5. ASSUME NEW p \in 0..(n - 1)
      PROVE  /\ ((p - c - 1) % n) + 1 \in 1..n
             /\ (c + (((p - c - 1) % n) + 1)) % n = p
  <2>1. CASE p > c
    <3>1. (p - c - 1) % n = p - c - 1
      BY <2>1, ModTurn
    <3>2. c + (p - c - 1 + 1) = p /\ p % n = p
      BY ModTurn
    <3> QED
      BY <2>1, <3>1, <3>2
  <2>2. CASE p <= c
    <3>0. p - c - 1 \in (0 - n)..(0 - 1) /\ p - c - 1 \in Int
      BY <2>2
    <3>1. (p - c - 1) % n = p - c - 1 + n
      BY <3>0, ModTurn
    <3>2. c + (p - c - 1 + n + 1) = p + n /\ (p + n) % n = p
      <4>1. p + n \in n..(2 * n - 1) /\ p + n \in Int /\ p + n - n = p
        OBVIOUS
      <4> QED
        BY <4>1, ModTurn
    <3> QED
      BY <2>2, <3>1, <3>2
  <2> QED
    BY <2>1, <2>2
<1> QED
  BY <1>1, <1>2, <1>3, <1>4, <1>5 DEF ScanIndex, ScanDistance

\* Slot j of a scan is better than slot i: by key, by core, or met earlier.
Beats(K, C, idx, j, i) ==
  \/ K[idx[j]] > K[idx[i]]
  \/ K[idx[j]] = K[idx[i]] /\ C[idx[j]] > C[idx[i]]
  \/ K[idx[j]] = K[idx[i]] /\ C[idx[j]] = C[idx[i]] /\ j < i

\* The loop takes x in place of b.
Takes(K, C, R, x, b) ==
  x \in R /\ (b = NoPick \/ K[x] > K[b] \/ (K[x] = K[b] /\ C[x] > C[b]))

\* b is the best of the ready ones among the first k slots of the scan.
BestOf(K, C, idx, R, k, b) ==
  \/ b = NoPick /\ \A i \in 1..k : idx[i] \notin R
  \/ \E j \in 1..k : /\ b = idx[j] /\ idx[j] \in R
                     /\ \A i \in 1..k : idx[i] \in R /\ i # j => Beats(K, C, idx, j, i)

\* A loop that keeps the best so far and replaces it only by a better one
\* ends on the best, and of equals on the first.
LEMMA LoopFindsBest ==
  ASSUME NEW n \in Nat, NEW L, NoPick \notin L, NEW idx \in [1..n -> L], NEW R,
         NEW K \in [L -> Int], NEW C \in [L -> Int], NEW best \in [0..n -> L \cup {NoPick}],
         best[0] = NoPick,
         \A i \in 1..n :
           best[i] = IF Takes(K, C, R, idx[i], best[i - 1]) THEN idx[i] ELSE best[i - 1]
  PROVE  BestOf(K, C, idx, R, n, best[n])
<1> DEFINE S == {k \in 0..n : BestOf(K, C, idx, R, k, best[k])}
<1>1. 0 \in S
  BY DEF BestOf
<1>2. ASSUME NEW k \in 0..(n - 1), k \in S PROVE k + 1 \in S
  <2>1. BestOf(K, C, idx, R, k, best[k])
    BY <1>2
  <2>2. k + 1 \in 1..n /\ (k + 1) - 1 = k /\ k \in Nat
    OBVIOUS
  <2>3. PICK x \in L : x = idx[k + 1]
    BY <2>2
  <2>4. best[k + 1] = IF Takes(K, C, R, x, best[k]) THEN x ELSE best[k]
    <3>1. PICK m \in 1..n : m = k + 1
      BY <2>2
    <3>2. best[m] = IF Takes(K, C, R, idx[m], best[m - 1]) THEN idx[m] ELSE best[m - 1]
      OBVIOUS
    <3>3. m - 1 = k
      BY <3>1
    <3> QED
      BY <2>3, <3>1, <3>2, <3>3
  <2>5. \A i \in 1..(k + 1) : i = k + 1 \/ i \in 1..k
    OBVIOUS
  <2>6. BestOf(K, C, idx, R, k + 1, best[k + 1])
    <3>1. CASE best[k] = NoPick
      <4>1. \A i \in 1..k : idx[i] \notin R
        <5>1. \A i \in 1..k : i \in 1..n /\ idx[i] # NoPick
          OBVIOUS
        <5> QED
          BY <2>1, <3>1, <5>1 DEF BestOf
      <4>2. CASE x \in R
        <5>1. best[k + 1] = idx[k + 1]
          BY <2>3, <2>4, <3>1, <4>2 DEF Takes
        <5> QED
          BY <2>3, <2>5, <4>1, <4>2, <5>1 DEF BestOf
      <4>3. CASE x \notin R
        <5>1. best[k + 1] = NoPick
          BY <2>4, <3>1, <4>3 DEF Takes
        <5> QED
          BY <2>3, <2>5, <4>1, <4>3, <5>1 DEF BestOf
      <4> QED
        BY <4>2, <4>3
    <3>2. CASE best[k] # NoPick
      <4>1. PICK j \in 1..k : /\ best[k] = idx[j] /\ idx[j] \in R
                              /\ \A i \in 1..k : idx[i] \in R /\ i # j => Beats(K, C, idx, j, i)
        BY <2>1, <3>2 DEF BestOf
      <4>2. /\ j \in 1..n /\ idx[j] \in L /\ j \in Int /\ j < k + 1 /\ j \in 1..(k + 1)
            /\ K[idx[j]] \in Int /\ C[idx[j]] \in Int /\ K[x] \in Int /\ C[x] \in Int
        OBVIOUS
      <4>3. CASE x \in R /\ (K[x] > K[idx[j]] \/ (K[x] = K[idx[j]] /\ C[x] > C[idx[j]]))
        <5>1. best[k + 1] = idx[k + 1]
          BY <2>3, <2>4, <4>1, <4>3 DEF Takes
        <5>2. ASSUME NEW i \in 1..k, idx[i] \in R PROVE Beats(K, C, idx, k + 1, i)
          <6>1. i \in 1..n /\ idx[i] \in L /\ K[idx[i]] \in Int /\ C[idx[i]] \in Int
            OBVIOUS
          <6>2. K[x] > K[idx[i]] \/ (K[x] = K[idx[i]] /\ C[x] > C[idx[i]])
            <7>1. CASE i = j
              BY <4>3, <7>1
            <7>2. CASE i # j
              <8>1. PICK kj \in Int, cj \in Int, kx \in Int, cx \in Int, ki \in Int, ci \in Int :
                      /\ kj = K[idx[j]] /\ cj = C[idx[j]] /\ kx = K[x] /\ cx = C[x]
                      /\ ki = K[idx[i]] /\ ci = C[idx[i]]
                BY <4>2, <6>1
              <8>2. kj > ki \/ (kj = ki /\ cj > ci) \/ (kj = ki /\ cj = ci)
                BY <4>1, <5>2, <7>2, <8>1 DEF Beats
              <8>3. kx > kj \/ (kx = kj /\ cx > cj)
                BY <4>3, <8>1
              <8>4. kx > ki \/ (kx = ki /\ cx > ci)
                BY <8>2, <8>3
              <8> QED
                BY <4>2, <6>1, <8>1, <8>4
            <7> QED
              BY <7>1, <7>2
          <6> QED
            BY <2>3, <6>2 DEF Beats
        <5> QED
          BY <2>2, <2>3, <2>5, <4>3, <5>1, <5>2 DEF BestOf
      <4>4. CASE ~(x \in R /\ (K[x] > K[idx[j]] \/ (K[x] = K[idx[j]] /\ C[x] > C[idx[j]])))
        <5>1. best[k + 1] = idx[j]
          BY <2>4, <3>2, <4>1, <4>4 DEF Takes
        <5>2. ASSUME x \in R PROVE Beats(K, C, idx, j, k + 1)
          <6>1. PICK kj \in Int, cj \in Int, kx \in Int, cx \in Int :
                  kj = K[idx[j]] /\ cj = C[idx[j]] /\ kx = K[x] /\ cx = C[x]
            BY <4>2
          <6>2. ~(kx > kj) /\ ~(kx = kj /\ cx > cj)
            BY <4>2, <4>4, <5>2, <6>1
          <6>3. kj > kx \/ (kj = kx /\ cj > cx) \/ (kj = kx /\ cj = cx)
            BY <6>2
          <6> QED
            BY <2>3, <4>2, <6>1, <6>3 DEF Beats
        <5>3. \A i \in 1..(k + 1) : idx[i] \in R /\ i # j => Beats(K, C, idx, j, i)
          BY <2>3, <2>5, <4>1, <5>2
        <5> QED
          BY <4>1, <4>2, <5>1, <5>3 DEF BestOf
      <4> QED
        BY <4>3, <4>4
    <3> QED
      BY <3>1, <3>2
  <2> QED
    BY <2>2, <2>6
<1> HIDE DEF S
<1>3. 0..n \subseteq S
  BY <1>1, <1>2, UpTo
<1>4. n \in S
  BY <1>3
<1> QED
  BY <1>4 DEF S

\* Every slot of the vector is met once.
Visit == [i \in 1..count |-> ScanIndex(i)]
OnCore == [p \in Live |-> IF same_cpu(p) THEN 1 ELSE 0]

LEMMA VisitFacts ==
  ASSUME TypeOK
  PROVE  /\ count \in Nat \ {0} /\ NoPick \notin Live /\ Live \subseteq Slot
         /\ Visit \in [1..count -> Live] /\ OnCore \in [Live -> Int]
         /\ \A i \in 1..count : Visit[i] = ScanIndex(i) /\ ScanDistance(Visit[i]) = i - 1
         /\ \A p \in Live : \E i \in 1..count : Visit[i] = p
<1>1. /\ count \in Nat \ {0}
      /\ \A i \in 1..count : ScanIndex(i) \in Live /\ ScanDistance(ScanIndex(i)) = i - 1
      /\ \A p \in Live : /\ ScanDistance(p) + 1 \in 1..count
                         /\ ScanIndex(ScanDistance(p) + 1) = p
  BY ScanOrder
<1>2. NoPick \notin Live
  BY <1>1 DEF Live, NoPick
<1>3. OnCore \in [Live -> Int]
  BY DEF OnCore
<1> QED
  BY <1>1, <1>2, <1>3, LiveInSlot DEF Visit

\* The process a scan by key K ends on, and no other, is better than all.
LEMMA ScanIsPick ==
  ASSUME TypeOK, NEW R \in SUBSET Live, NEW K \in [Live -> Int], NEW b,
         BestOf(K, OnCore, Visit, R, count, b), NEW p \in Live
  PROVE  (b = p) <=>
         /\ p \in R
         /\ \A q \in R \ {p} :
              \/ K[p] > K[q]
              \/ K[p] = K[q] /\ same_cpu(p) /\ ~same_cpu(q)
              \/ K[p] = K[q] /\ (same_cpu(p) <=> same_cpu(q)) /\ ScanDistance(p) < ScanDistance(q)
<1> DEFINE Over(x, y) ==
      \/ K[x] > K[y]
      \/ K[x] = K[y] /\ same_cpu(x) /\ ~same_cpu(y)
      \/ K[x] = K[y] /\ (same_cpu(x) <=> same_cpu(y)) /\ ScanDistance(x) < ScanDistance(y)
<1>1. /\ NoPick \notin Live /\ Visit \in [1..count -> Live] /\ count \in Nat
      /\ \A i \in 1..count : ScanDistance(Visit[i]) = i - 1
      /\ \A q \in Live : \E i \in 1..count : Visit[i] = q
  BY VisitFacts
<1>2. ASSUME NEW i \in 1..count, NEW j \in 1..count, i # j
      PROVE  Visit[i] # Visit[j] /\ (Beats(K, OnCore, Visit, j, i) <=> Over(Visit[j], Visit[i]))
  <2>1. Visit[i] # Visit[j]
    BY <1>1, <1>2
  <2>2. PICK x \in Live, y \in Live : x = Visit[j] /\ y = Visit[i]
    BY <1>1
  <2>3. ScanDistance(x) = j - 1 /\ ScanDistance(y) = i - 1
    BY <1>1, <2>2
  <2>4. /\ OnCore[x] = IF same_cpu(x) THEN 1 ELSE 0
        /\ OnCore[y] = IF same_cpu(y) THEN 1 ELSE 0
    BY DEF OnCore
  <2>5. /\ OnCore[x] > OnCore[y] <=> same_cpu(x) /\ ~same_cpu(y)
        /\ OnCore[x] = OnCore[y] <=> (same_cpu(x) <=> same_cpu(y))
    BY <2>4
  <2>6. ScanDistance(x) < ScanDistance(y) <=> j < i
    BY <2>3
  <2> QED
    BY <2>1, <2>2, <2>5, <2>6 DEF Beats
<1>3. ASSUME NEW x \in Live, NEW y \in Live, x # y, Over(x, y), Over(y, x) PROVE FALSE
  <2>1. PICK i \in 1..count, j \in 1..count : Visit[i] = x /\ Visit[j] = y
    BY <1>1
  <2>2. ScanDistance(x) = i - 1 /\ ScanDistance(y) = j - 1
    BY <1>1, <2>1
  <2>3. PICK kx \in Int, ky \in Int : kx = K[x] /\ ky = K[y]
    OBVIOUS
  <2>4. kx = ky
    BY <1>3, <2>3
  <2> QED
    BY <1>3, <2>2, <2>3, <2>4
<1>4. CASE b = NoPick /\ \A i \in 1..count : Visit[i] \notin R
  BY <1>1, <1>4
<1>5. ASSUME NEW j \in 1..count, b = Visit[j], Visit[j] \in R,
             \A i \in 1..count : Visit[i] \in R /\ i # j => Beats(K, OnCore, Visit, j, i)
      PROVE  (b = p) <=> (p \in R /\ \A q \in R \ {p} : Over(p, q))
  <2>1. \A q \in R \ {b} : Over(b, q)
    <3> SUFFICES ASSUME NEW q \in R \ {b} PROVE Over(b, q)
      OBVIOUS
    <3>1. PICK i \in 1..count : Visit[i] = q
      BY <1>1
    <3>2. i # j
      BY <1>5, <3>1
    <3>3. Over(Visit[j], Visit[i])
      BY <1>2, <1>5, <3>1, <3>2
    <3> QED
      BY <1>5, <3>1, <3>3
  <2>2. ASSUME p \in R, \A q \in R \ {p} : Over(p, q), b # p PROVE FALSE
    <3>1. Over(b, p) /\ Over(p, b) /\ b \in Live
      BY <1>5, <2>1, <2>2
    <3> HIDE DEF Over
    <3> QED
      BY <1>3, <2>2, <3>1
  <2> HIDE DEF Over
  <2> QED
    BY <1>5, <2>1, <2>2
<1> QED
  BY <1>4, <1>5 DEF BestOf

\* What a scan that keeps the best so far, by key K and core C and among R,
\* has after each of its rounds.
ScanRun(K, C, R, f) ==
  /\ f \in [0..count -> Live \cup {NoPick}] /\ f[0] = NoPick
  /\ \A i \in 1..count :
       f[i] = IF Takes(K, C, R, ScanIndex(i), f[i - 1]) THEN ScanIndex(i) ELSE f[i - 1]

LEMMA ScanRuns ==
  ASSUME TypeOK, NEW K, NEW C, NEW R
  PROVE  \E f : ScanRun(K, C, R, f)
<1> DEFINE D == Live \cup {NoPick}
           Round(i, b) == IF Takes(K, C, R, ScanIndex(i), b) THEN ScanIndex(i) ELSE b
           F == [i \in 1..count |-> [b \in D |-> Round(i, b)]]
<1>1. /\ count \in Nat /\ Visit \in [1..count -> Live]
      /\ \A i \in 1..count : Visit[i] = ScanIndex(i)
  BY VisitFacts
<1>2. \A i \in 1..count, b \in D : Round(i, b) \in D
  BY <1>1
<1>3. LoopOver(count, D, F)
  <2> HIDE DEF Round, D
  <2> QED
    BY <1>2 DEF LoopOver
<1>4. NoPick \in D
  OBVIOUS
<1>5. PICK f : LoopRun(count, D, F, NoPick, f)
  <2> HIDE DEF D, F
  <2>1. PICK n \in Nat : n = count
    BY <1>1
  <2>2. PICK b \in D : b = NoPick
    BY <1>4
  <2>3. LoopOver(n, D, F)
    BY <1>3, <2>1
  <2>4. \E f : LoopRun(n, D, F, b, f)
    BY <2>3, LoopRuns
  <2> QED
    BY <2>1, <2>2, <2>4
<1>6. f \in [0..count -> D] /\ f[0] = NoPick /\ \A i \in 1..count : f[i] = F[i][f[i - 1]]
  <2> HIDE DEF D, F
  <2> QED
    BY <1>5 DEF LoopRun
<1>7. ASSUME NEW i \in 1..count PROVE f[i] = Round(i, f[i - 1])
  <2>1. i - 1 \in 0..count
    BY <1>1
  <2>2. f[i - 1] \in D
    BY <1>6, <2>1
  <2>3. F[i][f[i - 1]] = Round(i, f[i - 1])
    <3> HIDE DEF Round, D
    <3> QED
      BY <2>2 DEF F
  <2> QED
    BY <1>6, <2>3
<1> QED
  BY <1>6, <1>7 DEF ScanRun

\* A function that starts as a scan does and goes on as one from every value
\* a scan can have is one.
LEMMA ScanUnique ==
  ASSUME TypeOK, NEW K, NEW C, NEW R, NEW g, g = [i \in 0..count |-> g[i]], g[0] = NoPick,
         \A i \in 1..count :
           g[i - 1] \in Live \cup {NoPick} =>
             g[i] = IF Takes(K, C, R, ScanIndex(i), g[i - 1]) THEN ScanIndex(i) ELSE g[i - 1]
  PROVE  ScanRun(K, C, R, g)
<1> DEFINE D == Live \cup {NoPick}
           S == {i \in 0..count : g[i] \in D}
<1>1. /\ count \in Nat /\ Visit \in [1..count -> Live]
      /\ \A i \in 1..count : Visit[i] = ScanIndex(i)
  BY VisitFacts
<1>2. 0 \in S
  BY <1>1
<1>3. ASSUME NEW i \in 0..(count - 1), i \in S PROVE i + 1 \in S
  <2>1. PICK m \in 1..count : m = i + 1
    BY <1>1
  <2>2. m - 1 = i /\ m \in 0..count
    BY <1>1, <2>1
  <2>3. g[i] \in D /\ ScanIndex(m) \in D
    BY <1>1, <1>3
  <2>4. g[m] \in D
    BY <2>2, <2>3
  <2> QED
    BY <2>1, <2>2, <2>4
<1> HIDE DEF S
<1>4. 0..count \subseteq S
  BY <1>1, <1>2, <1>3, UpTo
<1>5. \A i \in 0..count : g[i] \in D
  BY <1>4 DEF S
<1>6. g \in [0..count -> D]
  <2> HIDE DEF D
  <2> QED
    BY <1>5
<1>7. \A i \in 1..count : i - 1 \in 0..count
  BY <1>1
<1> QED
  BY <1>5, <1>6, <1>7 DEF ScanRun

LEMMA ScanRunFindsBest ==
  ASSUME TypeOK, NEW K \in [Live -> Int], NEW C \in [Live -> Int], NEW R, NEW f,
         ScanRun(K, C, R, f)
  PROVE  BestOf(K, C, Visit, R, count, f[count])
<1>1. /\ count \in Nat /\ Visit \in [1..count -> Live] /\ NoPick \notin Live
      /\ \A i \in 1..count : Visit[i] = ScanIndex(i)
  BY VisitFacts
<1>2. /\ f \in [0..count -> Live \cup {NoPick}] /\ f[0] = NoPick
      /\ \A i \in 1..count :
           f[i] = IF Takes(K, C, R, Visit[i], f[i - 1]) THEN Visit[i] ELSE f[i - 1]
  BY <1>1 DEF ScanRun
<1> QED
  BY <1>1, <1>2, LoopFindsBest

\* The loop of switch_to_next ends on the process PickWP describes.
LEMMA ScanWPPicks ==
  ASSUME TypeOK, NEW st, NEW p \in Live
  PROVE  PickWP(p, st, boost, waited) <=> (ScanWP(st, boost, waited) = p)
<1> DEFINE eff(q) == effective_priority(prio[q], boost[q], waited[q])
           better(q, b) == \/ eff(q) > eff(b)
                           \/ eff(q) = eff(b) /\ same_cpu(q) /\ ~same_cpu(b)
           best[i \in 0..count] ==
             IF i = 0 THEN NoPick
             ELSE LET idx == ScanIndex(i) IN
                  IF st[idx] = "Ready" /\ (best[i - 1] = NoPick \/ better(idx, best[i - 1]))
                  THEN idx ELSE best[i - 1]
           K == [q \in Live |-> eff(q)]
           D == Live \cup {NoPick}
           Round(i, b) == IF st[ScanIndex(i)] = "Ready" /\ (b = NoPick \/ better(ScanIndex(i), b))
                          THEN ScanIndex(i) ELSE b
<1>1. ScanWP(st, boost, waited) = best[count]
  BY DEF ScanWP
<1>2. /\ count \in Nat \ {0} /\ NoPick \notin Live /\ Live \subseteq Slot
      /\ Visit \in [1..count -> Live] /\ OnCore \in [Live -> Int]
      /\ \A i \in 1..count : Visit[i] = ScanIndex(i)
  BY VisitFacts
<1>3. K \in [Live -> Int] /\ \A q \in Live : K[q] = eff(q)
  <2>1. \A q \in Live : eff(q) \in Int
    <3> SUFFICES ASSUME NEW q \in Live PROVE eff(q) \in Int
      OBVIOUS
    <3>1. prio[q] \in Priorities /\ boost[q] \in Nat /\ waited[q] \in Nat
      BY <1>2 DEF TypeOK
    <3>2. Priorities \subseteq Int
      BY DEF Priorities, Idle, Low, Normal, High
    <3> QED
      BY <3>1, <3>2, EffectiveRange
  <2> HIDE DEF eff
  <2> QED
    BY <2>1
<1>4. ReadyIn(st) \in SUBSET Live /\ \A q \in Live : q \in ReadyIn(st) <=> st[q] = "Ready"
  BY DEF ReadyIn
<1>5. ASSUME NEW x \in Live, NEW b \in Live
      PROVE  better(x, b) <=> (K[x] > K[b] \/ (K[x] = K[b] /\ OnCore[x] > OnCore[b]))
  <2>1. OnCore[x] > OnCore[b] <=> same_cpu(x) /\ ~same_cpu(b)
    BY DEF OnCore
  <2>2. K[x] = eff(x) /\ K[b] = eff(b)
    BY <1>3
  <2> HIDE DEF eff, K
  <2> QED
    BY <2>1, <2>2
<1>6. ASSUME NEW i \in 1..count, NEW b \in D
      PROVE  Round(i, b) = IF Takes(K, OnCore, ReadyIn(st), ScanIndex(i), b)
                           THEN ScanIndex(i) ELSE b
  <2>1. PICK x \in Live : x = ScanIndex(i)
    BY <1>2
  <2>2. CASE b = NoPick
    BY <1>4, <2>1, <2>2 DEF Takes
  <2>3. CASE b # NoPick
    <3>1. better(x, b) <=> (K[x] > K[b] \/ (K[x] = K[b] /\ OnCore[x] > OnCore[b]))
      BY <1>5, <2>3
    <3> HIDE DEF better, K
    <3> QED
      BY <1>4, <2>1, <2>3, <3>1 DEF Takes
  <2> QED
    BY <2>2, <2>3
<1>7. \E f : f = [i \in 0..count |->
                    IF i = 0 THEN NoPick
                    ELSE LET idx == ScanIndex(i) IN
                         IF st[idx] = "Ready" /\ (f[i - 1] = NoPick \/ better(idx, f[i - 1]))
                         THEN idx ELSE f[i - 1]]
  <2> HIDE DEF K
  <2>1. PICK f : ScanRun(K, OnCore, ReadyIn(st), f)
    BY ScanRuns
  <2> HIDE DEF better
  <2>2. /\ f \in [0..count -> D] /\ f[0] = NoPick
        /\ \A i \in 1..count : f[i] = IF Takes(K, OnCore, ReadyIn(st), ScanIndex(i), f[i - 1])
                                      THEN ScanIndex(i) ELSE f[i - 1]
    BY <2>1 DEF ScanRun
  <2>3. ASSUME NEW i \in 1..count PROVE f[i] = Round(i, f[i - 1])
    <3>1. i - 1 \in 0..count
      BY <1>2
    <3>2. PICK b \in D : b = f[i - 1]
      BY <2>2, <3>1
    <3> HIDE DEF D, Round
    <3> QED
      BY <1>6, <2>2, <3>2
  <2>4. \A i \in 0..count : i = 0 \/ i \in 1..count
    BY <1>2
  <2>5. f = [i \in 0..count |-> IF i = 0 THEN NoPick ELSE Round(i, f[i - 1])]
    <3> HIDE DEF D, Round
    <3> QED
      BY <2>2, <2>3, <2>4
  <2> QED
    BY <2>5
<1>8. best = [i \in 0..count |->
                IF i = 0 THEN NoPick
                ELSE LET idx == ScanIndex(i) IN
                     IF st[idx] = "Ready" /\ (best[i - 1] = NoPick \/ better(idx, best[i - 1]))
                     THEN idx ELSE best[i - 1]]
  <2> HIDE DEF better, K, D
  <2> QED
    BY <1>7
<1> HIDE DEF best
<1>9. ScanRun(K, OnCore, ReadyIn(st), best)
  <2> HIDE DEF better, K
  <2>1. 0 \in 0..count /\ \A i \in 1..count : i \in 0..count /\ i # 0
    BY <1>2
  <2>2. /\ best[0] = NoPick /\ best = [i \in 0..count |-> best[i]]
        /\ \A i \in 1..count : best[i] = Round(i, best[i - 1])
    BY <1>8, <2>1
  <2>3. \A i \in 1..count :
          best[i - 1] \in Live \cup {NoPick} =>
            best[i] = IF Takes(K, OnCore, ReadyIn(st), ScanIndex(i), best[i - 1])
                      THEN ScanIndex(i) ELSE best[i - 1]
    <3> HIDE DEF Round
    <3> QED
      BY <1>6, <2>2
  <2> HIDE DEF Round, D
  <2> QED
    BY <2>2, <2>3, ScanUnique
<1>10. BestOf(K, OnCore, Visit, ReadyIn(st), count, best[count])
  <2> HIDE DEF K
  <2> QED
    BY <1>2, <1>3, <1>9, ScanRunFindsBest
<1> HIDE DEF K
<1>11. (best[count] = p) <=>
         /\ p \in ReadyIn(st)
         /\ \A q \in ReadyIn(st) \ {p} :
              \/ K[p] > K[q]
              \/ K[p] = K[q] /\ same_cpu(p) /\ ~same_cpu(q)
              \/ K[p] = K[q] /\ (same_cpu(p) <=> same_cpu(q)) /\ ScanDistance(p) < ScanDistance(q)
  BY <1>3, <1>4, <1>10, ScanIsPick
<1>12. \A q \in ReadyIn(st) \ {p} :
         PreferWP(p, q, boost, waited) <=>
              \/ K[p] > K[q]
              \/ K[p] = K[q] /\ same_cpu(p) /\ ~same_cpu(q)
              \/ K[p] = K[q] /\ (same_cpu(p) <=> same_cpu(q)) /\ ScanDistance(p) < ScanDistance(q)
  <2> SUFFICES ASSUME NEW q \in ReadyIn(st) \ {p}
               PROVE  PreferWP(p, q, boost, waited) <=>
              \/ K[p] > K[q]
              \/ K[p] = K[q] /\ same_cpu(p) /\ ~same_cpu(q)
              \/ K[p] = K[q] /\ (same_cpu(p) <=> same_cpu(q)) /\ ScanDistance(p) < ScanDistance(q)
    OBVIOUS
  <2>1. K[p] = eff(p) /\ K[q] = eff(q)
    BY <1>3, <1>4
  <2>2. (same_cpu(p) = same_cpu(q)) <=> (same_cpu(p) <=> same_cpu(q))
    BY DEF same_cpu
  <2> QED
    BY <2>1, <2>2 DEF PreferWP
<1> QED
  BY <1>1, <1>11, <1>12 DEF PickWP
\* The loop of switch_to_next_cfs ends on the first boosted process of the
\* scan, or with none boosted on the one PickCfs describes.
LEMMA ScanCfsPicks ==
  ASSUME TypeOK, NEW st, NEW p \in Live
  PROVE  PickCfs(p, st, boost, vruntime) <=> (ScanCfs(st, boost, vruntime) = p)
<1> DEFINE better(q, b) == \/ vruntime[q] < vruntime[b]
                           \/ vruntime[q] = vruntime[b] /\ same_cpu(q) /\ ~same_cpu(b)
           best[i \in 0..count] ==
             IF i = 0 THEN NoPick
             ELSE LET idx == ScanIndex(i) IN
                  IF st[idx] = "Ready" /\ (best[i - 1] = NoPick \/ better(idx, best[i - 1]))
                  THEN idx ELSE best[i - 1]
           boosted[i \in 0..count] ==
             IF i = 0 THEN NoPick
             ELSE LET idx == ScanIndex(i) IN
                  IF st[idx] = "Ready" /\ boost[idx] > 0 /\ boosted[i - 1] = NoPick
                  THEN idx ELSE boosted[i - 1]
           K == [q \in Live |-> 0 - vruntime[q]]
           D == Live \cup {NoPick}
           Round(i, b) == IF st[ScanIndex(i)] = "Ready" /\ (b = NoPick \/ better(ScanIndex(i), b))
                          THEN ScanIndex(i) ELSE b
           Zero == [q \in Live |-> 0]
           Rb == {q \in ReadyIn(st) : boost[q] > 0}
           First(i, b) == IF st[ScanIndex(i)] = "Ready" /\ boost[ScanIndex(i)] > 0 /\ b = NoPick
                          THEN ScanIndex(i) ELSE b
<1>1. ScanCfs(st, boost, vruntime) = IF boosted[count] # NoPick THEN boosted[count] ELSE best[count]
  BY DEF ScanCfs
<1>2. /\ count \in Nat \ {0} /\ NoPick \notin Live /\ Live \subseteq Slot
      /\ Visit \in [1..count -> Live] /\ OnCore \in [Live -> Int]
      /\ \A i \in 1..count : Visit[i] = ScanIndex(i)
  BY VisitFacts
<1>3. /\ K \in [Live -> Int] /\ \A q \in Live : K[q] = 0 - vruntime[q]
      /\ \A q \in Live : vruntime[q] \in Int /\ boost[q] \in Nat
  <2>1. \A q \in Live : vruntime[q] \in Int /\ boost[q] \in Nat
    BY <1>2, SchedulerConstants DEF TypeOK
  <2> QED
    BY <2>1
<1>4. ReadyIn(st) \in SUBSET Live /\ \A q \in Live : q \in ReadyIn(st) <=> st[q] = "Ready"
  BY DEF ReadyIn
<1>5. ASSUME NEW x \in Live, NEW b \in Live
      PROVE  better(x, b) <=> (K[x] > K[b] \/ (K[x] = K[b] /\ OnCore[x] > OnCore[b]))
  <2>1. OnCore[x] > OnCore[b] <=> same_cpu(x) /\ ~same_cpu(b)
    BY DEF OnCore
  <2>2. PICK vx \in Int, vb \in Int : vx = vruntime[x] /\ vb = vruntime[b]
    BY <1>3
  <2>3. K[x] = 0 - vx /\ K[b] = 0 - vb
    BY <1>3, <2>2
  <2>4. /\ K[x] > K[b] <=> vx < vb
        /\ K[x] = K[b] <=> vx = vb
    BY <2>3
  <2> HIDE DEF K
  <2> QED
    BY <2>1, <2>2, <2>4
<1> HIDE DEF boosted, Rb, Zero, First
<1>6. ASSUME NEW i \in 1..count, NEW b \in D
      PROVE  Round(i, b) = IF Takes(K, OnCore, ReadyIn(st), ScanIndex(i), b)
                           THEN ScanIndex(i) ELSE b
  <2>1. PICK x \in Live : x = ScanIndex(i)
    BY <1>2
  <2>2. CASE b = NoPick
    BY <1>4, <2>1, <2>2 DEF Takes
  <2>3. CASE b # NoPick
    <3>1. better(x, b) <=> (K[x] > K[b] \/ (K[x] = K[b] /\ OnCore[x] > OnCore[b]))
      BY <1>5, <2>3
    <3> HIDE DEF better, K
    <3> QED
      BY <1>4, <2>1, <2>3, <3>1 DEF Takes
  <2> QED
    BY <2>2, <2>3
<1>7. \E f : f = [i \in 0..count |->
                    IF i = 0 THEN NoPick
                    ELSE LET idx == ScanIndex(i) IN
                         IF st[idx] = "Ready" /\ (f[i - 1] = NoPick \/ better(idx, f[i - 1]))
                         THEN idx ELSE f[i - 1]]
  <2> HIDE DEF K
  <2>1. PICK f : ScanRun(K, OnCore, ReadyIn(st), f)
    BY ScanRuns
  <2> HIDE DEF better
  <2>2. /\ f \in [0..count -> D] /\ f[0] = NoPick
        /\ \A i \in 1..count : f[i] = IF Takes(K, OnCore, ReadyIn(st), ScanIndex(i), f[i - 1])
                                      THEN ScanIndex(i) ELSE f[i - 1]
    BY <2>1 DEF ScanRun
  <2>3. ASSUME NEW i \in 1..count PROVE f[i] = Round(i, f[i - 1])
    <3>1. i - 1 \in 0..count
      BY <1>2
    <3>2. PICK b \in D : b = f[i - 1]
      BY <2>2, <3>1
    <3> HIDE DEF D, Round
    <3> QED
      BY <1>6, <2>2, <3>2
  <2>4. \A i \in 0..count : i = 0 \/ i \in 1..count
    BY <1>2
  <2>5. f = [i \in 0..count |-> IF i = 0 THEN NoPick ELSE Round(i, f[i - 1])]
    <3> HIDE DEF D, Round
    <3> QED
      BY <2>2, <2>3, <2>4
  <2> QED
    BY <2>5
<1>8. best = [i \in 0..count |->
                IF i = 0 THEN NoPick
                ELSE LET idx == ScanIndex(i) IN
                     IF st[idx] = "Ready" /\ (best[i - 1] = NoPick \/ better(idx, best[i - 1]))
                     THEN idx ELSE best[i - 1]]
  <2> HIDE DEF better, K, D
  <2> QED
    BY <1>7
<1> HIDE DEF best
<1>9. ScanRun(K, OnCore, ReadyIn(st), best)
  <2> HIDE DEF better, K
  <2>1. 0 \in 0..count /\ \A i \in 1..count : i \in 0..count /\ i # 0
    BY <1>2
  <2>2. /\ best[0] = NoPick /\ best = [i \in 0..count |-> best[i]]
        /\ \A i \in 1..count : best[i] = Round(i, best[i - 1])
    BY <1>8, <2>1
  <2>3. \A i \in 1..count :
          best[i - 1] \in Live \cup {NoPick} =>
            best[i] = IF Takes(K, OnCore, ReadyIn(st), ScanIndex(i), best[i - 1])
                      THEN ScanIndex(i) ELSE best[i - 1]
    <3> HIDE DEF Round
    <3> QED
      BY <1>6, <2>2
  <2> HIDE DEF Round, D
  <2> QED
    BY <2>2, <2>3, ScanUnique
<1>10. BestOf(K, OnCore, Visit, ReadyIn(st), count, best[count])
  <2> HIDE DEF K
  <2> QED
    BY <1>2, <1>3, <1>9, ScanRunFindsBest
<1> HIDE DEF K, better, Round
<1>11. Zero \in [Live -> Int] /\ (\A q \in Live : Zero[q] = 0)
       /\ Rb \in SUBSET Live /\ \A q \in Live : q \in Rb <=> st[q] = "Ready" /\ boost[q] > 0
  BY <1>4 DEF Zero, Rb
<1>12. ASSUME NEW i \in 1..count, NEW b \in D
       PROVE  First(i, b) = IF Takes(Zero, Zero, Rb, ScanIndex(i), b) THEN ScanIndex(i) ELSE b
  <2>1. PICK x \in Live : x = ScanIndex(i)
    BY <1>2
  <2>2. CASE b = NoPick
    BY <1>11, <2>1, <2>2 DEF Takes, First
  <2>3. CASE b # NoPick
    <3>1. Zero[x] = 0 /\ Zero[b] = 0
      BY <1>11, <2>3
    <3> QED
      BY <2>1, <2>3, <3>1 DEF Takes, First
  <2> QED
    BY <2>2, <2>3
<1>13. \E f : f = [i \in 0..count |->
                    IF i = 0 THEN NoPick
                    ELSE LET idx == ScanIndex(i) IN
                         IF st[idx] = "Ready" /\ boost[idx] > 0 /\ f[i - 1] = NoPick
                         THEN idx ELSE f[i - 1]]
  <2>1. PICK f : ScanRun(Zero, Zero, Rb, f)
    BY ScanRuns
  <2>2. /\ f \in [0..count -> D] /\ f[0] = NoPick
        /\ \A i \in 1..count : f[i] = IF Takes(Zero, Zero, Rb, ScanIndex(i), f[i - 1])
                                      THEN ScanIndex(i) ELSE f[i - 1]
    BY <2>1 DEF ScanRun
  <2>3. ASSUME NEW i \in 1..count PROVE f[i] = First(i, f[i - 1])
    <3>1. i - 1 \in 0..count
      BY <1>2
    <3>2. PICK b \in D : b = f[i - 1]
      BY <2>2, <3>1
    <3> HIDE DEF D, First
    <3> QED
      BY <1>12, <2>2, <3>2
  <2>4. \A i \in 0..count : i = 0 \/ i \in 1..count
    BY <1>2
  <2>5. f = [i \in 0..count |-> IF i = 0 THEN NoPick ELSE First(i, f[i - 1])]
    <3> HIDE DEF D, First
    <3> QED
      BY <2>2, <2>3, <2>4
  <2> QED
    BY <2>5 DEF First
<1>14. boosted = [i \in 0..count |->
                IF i = 0 THEN NoPick
                ELSE LET idx == ScanIndex(i) IN
                     IF st[idx] = "Ready" /\ boost[idx] > 0 /\ boosted[i - 1] = NoPick
                     THEN idx ELSE boosted[i - 1]]
  <2> HIDE DEF D
  <2> QED
    BY <1>13 DEF boosted
<1>15. ScanRun(Zero, Zero, Rb, boosted)
  <2>1. 0 \in 0..count /\ \A i \in 1..count : i \in 0..count /\ i # 0
    BY <1>2
  <2>2. /\ boosted[0] = NoPick /\ boosted = [i \in 0..count |-> boosted[i]]
        /\ \A i \in 1..count : boosted[i] = First(i, boosted[i - 1])
    BY <1>14, <2>1 DEF First
  <2>3. \A i \in 1..count :
          boosted[i - 1] \in Live \cup {NoPick} =>
            boosted[i] = IF Takes(Zero, Zero, Rb, ScanIndex(i), boosted[i - 1])
                      THEN ScanIndex(i) ELSE boosted[i - 1]
    <3> HIDE DEF First
    <3> QED
      BY <1>12, <2>2
  <2> HIDE DEF First, D
  <2> QED
    BY <2>2, <2>3, ScanUnique
<1>16. BestOf(Zero, Zero, Visit, Rb, count, boosted[count])
  BY <1>2, <1>11, <1>15, ScanRunFindsBest
<1>17. /\ \A i \in 1..count : ScanDistance(Visit[i]) = i - 1
       /\ \A q \in Live : \E i \in 1..count : Visit[i] = q
  BY VisitFacts
<1> HIDE DEF D
<1>18. CASE boosted[count] = NoPick
  <2>1. \A q \in ReadyIn(st) : boost[q] = 0
    <3>1. \A i \in 1..count : Visit[i] \notin Rb
      BY <1>2, <1>16, <1>18 DEF BestOf
    <3>2. \A q \in Live : q \notin Rb
      BY <1>17, <3>1
    <3> QED
      BY <1>3, <1>4, <1>11, <3>2
  <2>2. (best[count] = p) <=>
          /\ p \in ReadyIn(st)
          /\ \A q \in ReadyIn(st) \ {p} :
               \/ K[p] > K[q]
               \/ K[p] = K[q] /\ same_cpu(p) /\ ~same_cpu(q)
               \/ K[p] = K[q] /\ (same_cpu(p) <=> same_cpu(q)) /\ ScanDistance(p) < ScanDistance(q)
    BY <1>3, <1>4, <1>10, ScanIsPick
  <2>3. ASSUME p \in ReadyIn(st), NEW q \in ReadyIn(st) \ {p}
        PROVE  PreferCfs(p, q, boost, vruntime) <=>
               \/ K[p] > K[q]
               \/ K[p] = K[q] /\ same_cpu(p) /\ ~same_cpu(q)
               \/ K[p] = K[q] /\ (same_cpu(p) <=> same_cpu(q)) /\ ScanDistance(p) < ScanDistance(q)
    <3>1. PICK vp \in Int, vq \in Int : vp = vruntime[p] /\ vq = vruntime[q]
      BY <1>3, <1>4
    <3>2. K[p] = 0 - vp /\ K[q] = 0 - vq
      BY <1>3, <1>4, <3>1
    <3>3. /\ K[p] > K[q] <=> vp < vq
          /\ K[p] = K[q] <=> vp = vq
      BY <3>2
    <3>4. (same_cpu(p) = same_cpu(q)) <=> (same_cpu(p) <=> same_cpu(q))
      BY DEF same_cpu
    <3>5. boost[p] = 0 /\ boost[q] = 0
      BY <2>1, <2>3
    <3> QED
      BY <3>1, <3>3, <3>4, <3>5 DEF PreferCfs
  <2>4. ScanCfs(st, boost, vruntime) = best[count]
    BY <1>1, <1>18
  <2> QED
    BY <2>2, <2>3, <2>4 DEF PickCfs
<1>19. CASE boosted[count] # NoPick
  <2>1. PICK j \in 1..count : /\ boosted[count] = Visit[j] /\ Visit[j] \in Rb
                              /\ \A i \in 1..count : Visit[i] \in Rb /\ i # j =>
                                   Beats(Zero, Zero, Visit, j, i)
    BY <1>16, <1>19 DEF BestOf
  <2>2. PICK b \in Live : b = Visit[j]
    BY <1>2
  <2>3. b \in Rb /\ b \in ReadyIn(st) /\ boost[b] \in Nat /\ boost[b] > 0
    BY <1>3, <1>4, <1>11, <2>1, <2>2
  <2>4. ASSUME NEW q \in Rb \ {b} PROVE ScanDistance(b) < ScanDistance(q) /\ ~(ScanDistance(q) < ScanDistance(b))
    <3>1. PICK i \in 1..count : Visit[i] = q
      BY <1>11, <1>17
    <3>2. Zero[Visit[i]] = 0 /\ Zero[Visit[j]] = 0
      BY <1>2, <1>11
    <3>3. j < i
      BY <2>1, <2>2, <3>1, <3>2 DEF Beats
    <3>4. ScanDistance(b) = j - 1 /\ ScanDistance(q) = i - 1
      BY <1>17, <2>2, <3>1
    <3> QED
      BY <3>3, <3>4
  <2>5. \A q \in ReadyIn(st) \ {b} : PreferCfs(b, q, boost, vruntime)
    <3> SUFFICES ASSUME NEW q \in ReadyIn(st) \ {b} PROVE PreferCfs(b, q, boost, vruntime)
      OBVIOUS
    <3>1. CASE boost[q] = 0
      BY <2>3, <3>1 DEF PreferCfs
    <3>2. CASE boost[q] # 0
      <4>1. boost[q] > 0
        BY <1>3, <1>4, <3>2
      <4>2. q \in Rb \ {b}
        BY <1>4, <1>11, <4>1
      <4> QED
        BY <2>3, <2>4, <4>1, <4>2 DEF PreferCfs
    <3> QED
      BY <3>1, <3>2
  <2>6. ASSUME p # b, p \in ReadyIn(st), PreferCfs(p, b, boost, vruntime) PROVE FALSE
    <3>1. boost[p] > 0 /\ ScanDistance(p) < ScanDistance(b)
      BY <2>3, <2>6 DEF PreferCfs
    <3>2. p \in Rb \ {b}
      BY <1>4, <1>11, <2>6, <3>1
    <3> QED
      BY <2>4, <3>1, <3>2
  <2>7. ScanCfs(st, boost, vruntime) = b
    BY <1>1, <1>19, <2>1, <2>2
  <2> QED
    BY <2>3, <2>5, <2>6, <2>7 DEF PickCfs
<1> QED
  BY <1>18, <1>19

\* In every state the two loops of the code, which go over the slots and keep
\* the best so far, end on the process that is best by effective priority (or
\* boost and vruntime), then core, then distance from the current slot, for
\* any number of processes and any weights.
THEOREM ScansFindTheBest == Spec => []ScansPickTheBest
<1>1. TypeOK => ScansPickTheBest
  BY ScanWPPicks, ScanCfsPicks DEF ScansPickTheBest
<1> QED
  BY <1>1, TypeCorrect, PTL
=============================================================================
