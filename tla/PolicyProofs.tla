---------------------------- MODULE PolicyProofs ----------------------------
(***************************************************************************)
(* Proofs about the policy engine: Tuning, for every size of the tables,   *)
(* every set of processes and any number of windows and events, and        *)
(* Learner, for every set of volumes and any number of windows.            *)
(***************************************************************************)
EXTENDS Tuning, Learner, FiniteSetTheorems, WellFoundedInduction, TLAPS

Classes == {"High", "Normal", "Low"}

StatType ==
  [pid: Nat, active: BOOLEAN, vol_ema: Permille, alpha_level: AlphaLevel,
   prev_vol_10: Permille, volatility_ema: Volatility, pri_cooldown: Cooldown]

MemType == [pid: Nat, active: BOOLEAN, mmap_calls: Nat, last_mmap: Nat]

TuneShape ==
  /\ stats \in [StatSlots -> StatType]
  /\ yields \in [TunePids -> Nat \X Nat]
  /\ pri \in [TunePids -> Classes]
  /\ mood \in [TunePids -> Moods]
  /\ enabled \in BOOLEAN
  /\ level \in 1 .. 4 /\ profile \in 1 .. 3 /\ slice \in 1 .. 3 /\ bias_ema \in Int
  /\ mem_table \in [MemSlots -> MemType]
  /\ mapped \in [TunePids -> Nat]
  /\ changed \in [TunePids -> 0 .. MaxWindows]
  /\ hogs \in Nat

\* The slots: one for each live process that found room, none for the others.
SlotsSound ==
  /\ tAlive \subseteq born /\ crowded \subseteq born /\ born \subseteq TunePids
  /\ \A i \in StatSlots : stats[i].active => stats[i].pid \in tAlive \ crowded
  /\ \A i, j \in StatSlots : stats[i].active /\ stats[j].active /\ stats[i].pid = stats[j].pid => i = j
  /\ \A p \in tAlive \ crowded : \E i \in StatSlots : stats[i].active /\ stats[i].pid = p

\* The cooldown of a slot and the windows since the last change of class add
\* up to two at least.
CooldownSound ==
  /\ \A i \in StatSlots : stats[i].active => changed[stats[i].pid] + stats[i].pri_cooldown >= 2
  /\ \A p \in TunePids \ born : changed[p] = MaxWindows

\* What the table counts for a process in a window, the process did.
MemSound ==
  \A i \in MemSlots : mem_table[i].active /\ mem_table[i].pid \in TunePids =>
     mem_table[i].mmap_calls - mem_table[i].last_mmap <= mapped[mem_table[i].pid]

\* A surplus of two never gets the average below -1.7.
BiasSound == hogs <= 2 => profile = BASELINE_LEVEL /\ bias_ema >= -17

TuneInv == TuneShape /\ SlotsSound /\ CooldownSound /\ MemSound /\ BiasSound

---------------------------------------------------------------------------

\* The first slot that a search finds is one of those searched for.
LEMMA LeastSlot ==
  ASSUME NEW S \in SUBSET Nat, S # {}
  PROVE  Min(S) \in S
<1>1. IsWellFoundedOn(OpToRel(<, Nat), Nat)
  BY NatLessThanWellFounded
<1>2. PICK x \in S : \A y \in S : ~(<<y, x>> \in OpToRel(<, Nat))
  BY <1>1, WFMin
<1>3. \A y \in S : ~(y < x)
  BY <1>2 DEF OpToRel
<1>4. \A y \in S : x <= y
  BY <1>3
<1> QED
  BY <1>4 DEF Min

\* The larger and the smaller of two numbers.
LEMMA MaxMinPair ==
  /\ \A a, b \in Int : Max({a, b}) = IF a >= b THEN a ELSE b
  /\ \A a, b \in Int : Min({a, b}) = IF a <= b THEN a ELSE b
<1>1. \A a, b \in Int : Max({a, b}) = IF a >= b THEN a ELSE b
  BY DEF Max
<1>2. \A a, b \in Int : Min({a, b}) = IF a <= b THEN a ELSE b
  BY DEF Min
<1> QED
  BY <1>1, <1>2

\* A share in thousandths.
LEMMA ShareRange ==
  ASSUME NEW v \in Nat, NEW f \in Nat, v + f # 0
  PROVE  (v * 1000) \div (v + f) \in Permille
<1>1. ASSUME NEW a \in Nat, NEW b \in Nat \ {0}, a <= 1000 * b
      PROVE  a \div b \in Permille
  BY <1>1 DEF Permille
<1> QED
  BY <1>1

\* An average in tenths stays between the values it is an average of.
LEMMA AverageRange ==
  ASSUME NEW a \in AlphaLevel, NEW x \in Permille, NEW y \in Permille
  PROVE  (a * x + (10 - a) * y) \div 10 \in Permille
<1>1. CASE a = 1
  BY <1>1 DEF Permille
<1>2. CASE a = 2
  BY <1>2 DEF Permille
<1>3. CASE a = 3
  BY <1>3 DEF Permille
<1>4. CASE a = 4
  BY <1>4 DEF Permille
<1>5. CASE a = 5
  BY <1>5 DEF Permille
<1> QED
  BY <1>1, <1>2, <1>3, <1>4, <1>5 DEF AlphaLevel

\* How far two shares are apart, and the average of that, in tenths.
LEMMA VolatilityRange ==
  ASSUME NEW x \in Permille, NEW y \in Permille, NEW v \in Volatility
  PROVE  (3 * AbsDiff(x, y) * 10 + 7 * v) \div 10 \in Volatility
<1>1. AbsDiff(x, y) \in Permille
  BY DEF AbsDiff, Permille
<1>2. ASSUME NEW d \in Permille
      PROVE  (3 * d * 10 + 7 * v) \div 10 \in Volatility
  BY DEF Permille, Volatility
<1> QED
  BY <1>1, <1>2

\* One window of one slot: its owner stays, its averages stay in range, and
\* its cooldown starts with a change of class and else goes down by one at most.
LEMMA OneStat ==
  ASSUME NEW s \in StatType, s.active => s.pid \in TunePids, enabled \in BOOLEAN,
         yields' \in [TunePids -> Nat \X Nat]
  PROVE  /\ TuneStat(s) \in StatType
         /\ TuneStat(s).pid = s.pid /\ TuneStat(s).active = s.active
         /\ s.active /\ Changes(s) => TuneStat(s).pri_cooldown = 2
         /\ s.active /\ ~Changes(s) => TuneStat(s).pri_cooldown + 1 >= s.pri_cooldown
         /\ NewClass(s) \in Classes
<1>0. NewClass(s) \in Classes
  BY DEF NewClass, ClassOf, Classes
<1>1. CASE ~s.active
  BY <1>0, <1>1 DEF TuneStat
<1>f. /\ s.vol_ema \in Permille /\ s.prev_vol_10 \in Permille /\ s.alpha_level \in AlphaLevel
      /\ s.volatility_ema \in Volatility /\ s.pri_cooldown \in Cooldown
  BY DEF StatType
<1>2. CASE s.active
  <2>1. yields'[s.pid][1] \in Nat /\ yields'[s.pid][2] \in Nat
    BY <1>2
  <2>2. VolShare(s) \in Permille
    <3> DEFINE v == yields'[s.pid][1]
               f == yields'[s.pid][2]
    <3>1. VolShare(s) = IF v + f = 0 THEN s.vol_ema ELSE (v * 1000) \div (v + f)
      BY DEF VolShare
    <3> HIDE DEF v, f
    <3>2. v \in Nat /\ f \in Nat
      BY <2>1 DEF v, f
    <3> QED
      BY <1>f, <3>1, <3>2, ShareRange
  <2>3. ALPHA_LEVELS[s.alpha_level] \in AlphaLevel
    BY <1>f DEF ALPHA_LEVELS, AlphaLevel
  <2>4. VolEma(s) \in Permille
    BY <1>f, <2>2, <2>3, AverageRange DEF VolEma
  <2>5. TuneAlpha(s) \in StatType /\ TuneAlpha(s).pid = s.pid /\ TuneAlpha(s).active = s.active
        /\ TuneAlpha(s).pri_cooldown = s.pri_cooldown
    <3> DEFINE ema == (3 * AbsDiff(VolShare(s), s.prev_vol_10) * 10 + 7 * s.volatility_ema) \div 10
               target == IF ema >= 3000 THEN 5 ELSE IF ema <= 500 THEN 1 ELSE BASELINE_LEVEL
               a == OneStep(s.alpha_level, target)
    <3>2. ema \in Volatility
      BY <1>f, <2>2, VolatilityRange
    <3>3. target \in AlphaLevel
      BY DEF BASELINE_LEVEL, AlphaLevel
    <3>4. a \in AlphaLevel
      <4> HIDE DEF target
      <4> QED
        BY <1>f, <3>3 DEF OneStep, AlphaLevel
    <3>5. TuneAlpha(s) = IF yields'[s.pid][1] + yields'[s.pid][2] < 5 THEN s
             ELSE [s EXCEPT !.prev_vol_10 = VolShare(s), !.volatility_ema = ema, !.alpha_level = a]
      BY DEF TuneAlpha
    <3> HIDE DEF ema, a
    <3> QED
      BY <2>2, <3>2, <3>4, <3>5 DEF StatType
  <2>6. Changes(s) \in BOOLEAN /\ (Changes(s) => enabled)
    BY DEF Changes
  <2>7. /\ CooldownAfter(s, Changes(s)) \in Cooldown
        /\ Changes(s) => CooldownAfter(s, Changes(s)) = 2
        /\ ~Changes(s) => CooldownAfter(s, Changes(s)) + 1 >= s.pri_cooldown
    BY <1>f DEF CooldownAfter, PRIORITY_COOLDOWN_WINDOWS, Cooldown
  <2>8. TuneStat(s) = [TuneAlpha(s) EXCEPT !.vol_ema = VolEma(s),
           !.pri_cooldown = IF enabled THEN CooldownAfter(s, Changes(s)) ELSE s.pri_cooldown]
    BY <1>2, <2>5 DEF TuneStat
  <2> DEFINE c == IF enabled THEN CooldownAfter(s, Changes(s)) ELSE s.pri_cooldown
  <2>9. /\ c \in Cooldown /\ (Changes(s) => c = 2)
        /\ (~Changes(s) => c + 1 >= s.pri_cooldown)
    BY <1>f, <2>6, <2>7 DEF Cooldown
  <2>10. TuneStat(s) = [TuneAlpha(s) EXCEPT !.vol_ema = VolEma(s), !.pri_cooldown = c]
    BY <2>8
  <2> HIDE DEF c
  <2>11. /\ TuneStat(s) \in StatType /\ TuneStat(s).pid = s.pid
         /\ TuneStat(s).active = s.active /\ TuneStat(s).pri_cooldown = c
    BY <2>4, <2>5, <2>9, <2>10 DEF StatType
  <2> QED
    BY <1>0, <2>9, <2>11
<1> QED
  BY <1>1, <1>2

---------------------------------------------------------------------------

LEMMA TuneConstants ==
  /\ StatSlots \subseteq Nat /\ IsFiniteSet(StatSlots)
  /\ MemSlots \subseteq Nat /\ MemSlots # {}
  /\ TunePids \subseteq Nat
  /\ EmptyStat \in StatType
  /\ 2 \in 0 .. MaxWindows /\ MaxWindows \in 0 .. MaxWindows
<1>1. StatSlots \subseteq Nat /\ IsFiniteSet(StatSlots)
  BY TuneAssumption, FS_Interval DEF StatSlots
<1>2. MemSlots \subseteq Nat /\ MemSlots # {}
  BY TuneAssumption DEF MemSlots
<1>3. EmptyStat \in StatType
  BY DEF EmptyStat, StatType, Permille, Volatility, AlphaLevel, Cooldown, BASELINE_LEVEL
<1> QED
  BY <1>1, <1>2, <1>3, TuneAssumption

\* A fresh slot for process p.
LEMMA FreshStat ==
  ASSUME NEW p \in Nat, NEW s, s = [EmptyStat EXCEPT !.pid = p, !.active = TRUE]
  PROVE  s \in StatType /\ s.pid = p /\ s.active = TRUE /\ s.pri_cooldown = 0
<1>1. EmptyStat \in StatType /\ EmptyStat.pri_cooldown = 0
  BY TuneConstants DEF EmptyStat
<1> QED
  BY <1>1 DEF StatType

LEMMA InitTune == TuneInit => TuneInv
<1> SUFFICES ASSUME TuneInit PROVE TuneInv
  OBVIOUS
<1> DEFINE n == Cardinality(FirstAlive)
<1>0. /\ tAlive = FirstAlive /\ born = FirstAlive /\ crowded = {}
      /\ enabled = TRUE /\ level = BASELINE_LEVEL /\ profile = BASELINE_LEVEL /\ slice = 3
      /\ bias_ema = 0 /\ hogs = 0
      /\ changed = [p \in TunePids |-> MaxWindows]
  BY DEF TuneInit
<1>1. PICK q \in [1 .. n -> FirstAlive] :
        /\ \A i, j \in 1 .. n : i < j => q[i] < q[j]
        /\ stats = [i \in StatSlots |->
                      IF i \in 1 .. n THEN [EmptyStat EXCEPT !.pid = q[i], !.active = TRUE]
                      ELSE EmptyStat]
  BY DEF TuneInit
<1>2. n \in Nat /\ n <= MAX_PROCS /\ FirstAlive \subseteq Nat
  BY TuneAssumption, FS_CardinalityType
<1>3. \A i, j \in 1 .. n : q[i] = q[j] => i = j
  <2> SUFFICES ASSUME NEW i \in 1 .. n, NEW j \in 1 .. n, q[i] = q[j], i # j PROVE FALSE
    OBVIOUS
  <2> HIDE DEF n
  <2>1. q[i] \in FirstAlive /\ q[j] \in FirstAlive /\ (i < j \/ j < i)
    BY <1>2
  <2>2. q[i] \in Nat /\ q[j] \in Nat
    BY <1>2, <2>1
  <2>3. q[i] < q[j] \/ q[j] < q[i]
    BY <1>1, <2>1
  <2> QED
    BY <2>2, <2>3
<1>4. \A p \in FirstAlive : \E i \in 1 .. n : q[i] = p
  <2>1. q \in Injection(1 .. n, FirstAlive)
    BY <1>1, <1>3 DEF Injection, IsInjective
  <2>2. Cardinality(1 .. n) = n
    BY <1>2, FS_Interval
  <2>3. q \in Surjection(1 .. n, FirstAlive)
    BY <2>1, <2>2, TuneAssumption, FS_Injection
  <2> QED
    BY <2>3 DEF Surjection
<1>5. \A i \in StatSlots : /\ stats[i] \in StatType /\ (stats[i].active <=> i \in 1 .. n)
                           /\ i \in 1 .. n => stats[i].pid = q[i]
  <2> SUFFICES ASSUME NEW i \in StatSlots
               PROVE  /\ stats[i] \in StatType /\ (stats[i].active <=> i \in 1 .. n)
                      /\ i \in 1 .. n => stats[i].pid = q[i]
    OBVIOUS
  <2> HIDE DEF n
  <2>1. CASE i \in 1 .. n
    <3>1. stats[i] = [EmptyStat EXCEPT !.pid = q[i], !.active = TRUE] /\ q[i] \in Nat
      BY <1>1, <1>2, <2>1
    <3> QED
      BY <2>1, <3>1, FreshStat
  <2>2. CASE i \notin 1 .. n
    <3>1. stats[i] = EmptyStat
      BY <1>1, <2>2
    <3>2. EmptyStat.active = FALSE
      BY DEF EmptyStat
    <3> QED
      BY <2>2, <3>1, <3>2, TuneConstants
  <2> QED
    BY <2>1, <2>2
<1>6. TuneShape
  <2>1. stats \in [StatSlots -> StatType]
    BY <1>1, <1>5
  <2>2. mem_table \in [MemSlots -> MemType]
    BY DEF TuneInit, MemEntry, MemType
  <2>3. mood \in [TunePids -> Moods]
    BY DEF TuneInit, Moods
  <2>4. yields \in [TunePids -> Nat \X Nat]
    BY DEF TuneInit
  <2>5. changed \in [TunePids -> 0 .. MaxWindows]
    BY TuneConstants DEF TuneInit
  <2> QED
    <3>1. /\ enabled \in BOOLEAN /\ level \in 1 .. 4 /\ profile \in 1 .. 3 /\ slice \in 1 .. 3
          /\ bias_ema \in Int /\ hogs \in Nat
      BY <1>0 DEF BASELINE_LEVEL
    <3>2. pri \in [TunePids -> Classes] /\ mapped \in [TunePids -> Nat]
      BY DEF TuneInit, Classes
    <3> QED
      BY <2>1, <2>2, <2>3, <2>4, <2>5, <3>1, <3>2 DEF TuneShape
<1> HIDE DEF n
<1>7. SlotsSound
  <2>1. \A i \in 1 .. n : i \in StatSlots
    BY <1>2, TuneAssumption DEF StatSlots
  <2>2. \A i \in StatSlots : stats[i].active => stats[i].pid \in tAlive \ crowded
    BY <1>0, <1>5
  <2>3. \A i, j \in StatSlots :
          stats[i].active /\ stats[j].active /\ stats[i].pid = stats[j].pid => i = j
    BY <1>3, <1>5
  <2>4. \A p \in tAlive \ crowded : \E i \in StatSlots : stats[i].active /\ stats[i].pid = p
    BY <1>0, <1>4, <1>5, <2>1
  <2> QED
    BY <1>0, <2>2, <2>3, <2>4, TuneAssumption DEF SlotsSound
<1>8. CooldownSound
  <2>1. \A i \in StatSlots : stats[i].active => changed[stats[i].pid] = MaxWindows
    BY <1>0, <1>7, TuneAssumption DEF SlotsSound
  <2>2. \A i \in StatSlots : stats[i].pri_cooldown \in Cooldown
    BY <1>5 DEF StatType
  <2>3. \A i \in StatSlots : stats[i].active => changed[stats[i].pid] + stats[i].pri_cooldown >= 2
    BY <2>1, <2>2, TuneAssumption DEF Cooldown
  <2> QED
    BY <1>0, <2>3 DEF CooldownSound
<1>9. MemSound
  BY DEF TuneInit, MemSound, MemEntry
<1>10. BiasSound
  BY <1>0 DEF BiasSound, BASELINE_LEVEL
<1> QED
  BY <1>6, <1>7, <1>8, <1>9, <1>10 DEF TuneInv

---------------------------------------------------------------------------

\* What a window does to the slots.
LEMMA StatsAfter ==
  ASSUME TuneInv, TuneReport
  PROVE  /\ yields' \in [TunePids -> Nat \X Nat]
         /\ stats' \in [StatSlots -> StatType]
         /\ \A i \in StatSlots :
              /\ stats'[i].pid = stats[i].pid /\ (stats'[i].active <=> stats[i].active)
              /\ NewClass(stats[i]) \in Classes
              /\ stats[i].active /\ Changes(stats[i]) => stats'[i].pri_cooldown = 2
              /\ stats[i].active /\ ~Changes(stats[i]) =>
                   stats'[i].pri_cooldown + 1 >= stats[i].pri_cooldown
<1> USE DEF TuneInv
<1>1. yields' \in [TunePids -> Nat \X Nat]
  <2>1. yields' = [p \in TunePids |->
                     IF p \in tAlive THEN <<yields[p][1] + Switches(mood[p])[1],
                                            yields[p][2] + Switches(mood[p])[2]>>
                     ELSE yields[p]]
    BY DEF TuneReport
  <2>2. \A p \in TunePids : Switches(mood[p])[1] \in Nat /\ Switches(mood[p])[2] \in Nat
    BY DEF Switches
  <2>3. \A p \in TunePids : yields[p] \in Nat \X Nat
    BY DEF TuneShape
  <2> QED
    BY <2>1, <2>2, <2>3
<1>2. stats' = [i \in StatSlots |-> TuneStat(stats[i])]
  BY DEF TuneReport
<1>3. ASSUME NEW i \in StatSlots
      PROVE  stats[i] \in StatType /\ (stats[i].active => stats[i].pid \in TunePids)
  BY DEF TuneShape, SlotsSound
<1>4. enabled \in BOOLEAN
  BY DEF TuneShape
<1>5. ASSUME NEW i \in StatSlots
      PROVE  /\ TuneStat(stats[i]) \in StatType
             /\ TuneStat(stats[i]).pid = stats[i].pid /\ TuneStat(stats[i]).active = stats[i].active
             /\ stats[i].active /\ Changes(stats[i]) => TuneStat(stats[i]).pri_cooldown = 2
             /\ stats[i].active /\ ~Changes(stats[i]) =>
                  TuneStat(stats[i]).pri_cooldown + 1 >= stats[i].pri_cooldown
             /\ NewClass(stats[i]) \in Classes
  BY <1>1, <1>3, <1>4, OneStat
<1> QED
  BY <1>1, <1>2, <1>5

LEMMA ReportSafe ==
  ASSUME TuneInv, TuneReport
  PROVE  TuneInv'
<1> USE DEF TuneInv
<1>s. /\ yields' \in [TunePids -> Nat \X Nat]
      /\ stats' \in [StatSlots -> StatType]
      /\ \A i \in StatSlots :
           /\ stats'[i].pid = stats[i].pid /\ (stats'[i].active <=> stats[i].active)
           /\ NewClass(stats[i]) \in Classes
           /\ stats[i].active /\ Changes(stats[i]) => stats'[i].pri_cooldown = 2
           /\ stats[i].active /\ ~Changes(stats[i]) =>
                stats'[i].pri_cooldown + 1 >= stats[i].pri_cooldown
  BY StatsAfter
<1>u. /\ UNCHANGED <<mood, tAlive, enabled, born, crowded>>
      /\ mapped' = [p \in TunePids |-> 0]
      /\ changed' = [p \in TunePids |-> IF p \in Reclassified THEN 0
                                        ELSE Min({changed[p] + 1, MaxWindows})]
      /\ hogs' = Max({hogs, Classified("Low") - Classified("High")})
  BY DEF TuneReport
<1>c. Classified("Low") \in Nat /\ Classified("High") \in Nat
  BY TuneConstants, FS_Subset, FS_CardinalityType DEF Classified
<1>h. /\ hogs' \in Nat /\ hogs' >= hogs /\ hogs' >= Classified("Low") - Classified("High")
  <2> DEFINE surplus == Classified("Low") - Classified("High")
  <2>1. surplus \in Int /\ hogs \in Nat
    BY <1>c DEF TuneShape
  <2>2. hogs' = Max({hogs, surplus})
    BY <1>u
  <2> HIDE DEF surplus
  <2>3. hogs' = IF hogs >= surplus THEN hogs ELSE surplus
    BY <2>1, <2>2, MaxMinPair
  <2>4. hogs' \in Nat /\ hogs' >= hogs /\ hogs' >= surplus
    BY <2>1, <2>3
  <2> QED
    BY <2>4 DEF surplus
<1>m. /\ mem_table' \in [MemSlots -> MemType]
      /\ \A i \in MemSlots : mem_table'[i].mmap_calls = mem_table'[i].last_mmap
  <2>1. mem_table' = [i \in MemSlots |-> [mem_table[i] EXCEPT !.last_mmap = mem_table[i].mmap_calls]]
    BY DEF TuneReport, SettleMem
  <2>2. \A i \in MemSlots : mem_table[i] \in MemType
    BY DEF TuneShape
  <2> QED
    BY <2>1, <2>2 DEF MemType
<1>d. /\ changed' \in [TunePids -> 0 .. MaxWindows]
      /\ \A p \in TunePids \ Reclassified :
            changed'[p] = IF changed[p] + 1 <= MaxWindows THEN changed[p] + 1 ELSE MaxWindows
  <2>1. \A p \in TunePids : changed[p] \in 0 .. MaxWindows
    BY DEF TuneShape
  <2>2. \A p \in TunePids : Min({changed[p] + 1, MaxWindows})
                               = IF changed[p] + 1 <= MaxWindows THEN changed[p] + 1 ELSE MaxWindows
    BY <2>1, TuneAssumption, MaxMinPair
  <2> QED
    BY <1>u, <2>1, <2>2, TuneAssumption
<1>p. pri' \in [TunePids -> Classes]
  <2>1. ASSUME NEW p \in TunePids, p \in Reclassified
        PROVE  NewClass(stats[Min(find_slot(stats, p))]) \in Classes
    BY DEF NewClass, ClassOf, Classes
  <2> QED
    BY <2>1 DEF TuneReport, TuneShape, Classes
<1>b. bias_ema' \in Int /\ profile' \in 1 .. 3
      /\ (hogs' <= 2 => profile' = BASELINE_LEVEL /\ bias_ema' >= -17)
  <2> DEFINE x == Classified("High") - Classified("Low")
             ema == Tenth(3 * x * 10 + 7 * bias_ema)
             sampled == Classified("High") + Classified("Low") >= 2
  <2>1. /\ bias_ema' = IF enabled /\ sampled THEN ema ELSE bias_ema
        /\ profile' = IF ~enabled THEN BASELINE_LEVEL
                      ELSE IF sampled THEN OneStep(profile, BiasTarget(ema)) ELSE profile
    BY DEF TuneReport, TuneProfile
  <2>2. x \in Int /\ bias_ema \in Int /\ profile \in 1 .. 3
    BY <1>c DEF TuneShape
  <2>3. ema \in Int
    <3> HIDE DEF x
    <3> QED
      BY <2>2 DEF Tenth
  <2>4. BiasTarget(ema) \in {1, 3} /\ (ema >= -17 => BiasTarget(ema) = 3)
    <3> HIDE DEF ema
    <3> QED
      BY <2>3 DEF BiasTarget, BASELINE_LEVEL
  <2>5. bias_ema' \in Int /\ profile' \in 1 .. 3
    <3> HIDE DEF ema, sampled
    <3> QED
      BY <2>1, <2>2, <2>3, <2>4 DEF OneStep, BASELINE_LEVEL
  <2>6. ASSUME hogs' <= 2 PROVE profile' = BASELINE_LEVEL /\ bias_ema' >= -17
    <3>1. x >= -2 /\ hogs <= 2
      BY <1>c, <1>h, <2>6 DEF TuneShape
    <3>2. profile = BASELINE_LEVEL /\ bias_ema >= -17
      BY <3>1 DEF BiasSound
    <3>3. ema >= -17
      <4> HIDE DEF x
      <4> QED
        BY <2>2, <3>1, <3>2 DEF Tenth
    <3> HIDE DEF ema, sampled
    <3> QED
      BY <2>1, <2>4, <3>2, <3>3 DEF OneStep, BASELINE_LEVEL
  <2> QED
    BY <2>5, <2>6
<1>l. level' \in 1 .. 4
  <2> DEFINE few == SwitchCount < 5
             ema == (3 * ((SwitchCount * 10) \div REPORT_INTERVAL_LEVELS[level]) + 7 * rate_ema) \div 10
             target == IF ema >= 15 THEN 1 ELSE IF ema <= 3 THEN 4 ELSE BASELINE_LEVEL
  <2>1. level' = IF ~enabled THEN BASELINE_LEVEL ELSE IF few THEN level ELSE OneStep(level, target)
    BY DEF TuneReport, TuneInterval
  <2>2. target \in 1 .. 4 /\ level \in 1 .. 4
    BY DEF BASELINE_LEVEL, TuneShape
  <2> HIDE DEF few, target
  <2> QED
    BY <2>1, <2>2 DEF OneStep, BASELINE_LEVEL
<1>t. slice' \in 1 .. 3
  <2> DEFINE shares == {RunShare(stats[i].pid) : i \in {j \in StatSlots : stats[j].active}}
             busiest == IF shares = {} THEN 0 ELSE Max(shares)
             raw == IF busiest >= 70 THEN 1 ELSE IF busiest >= 40 THEN 2 ELSE 3
             lo == TIME_SLICE_RANGE_LEVELS[profile'][1]
             hi == TIME_SLICE_RANGE_LEVELS[profile'][2]
  <2>1. slice' = IF enabled THEN Min({Max({raw, lo}), hi}) ELSE 3
    BY DEF TuneReport, TuneSlice
  <2>2. raw \in 1 .. 3
    OBVIOUS
  <2>3. lo \in 1 .. 2 /\ hi \in 3 .. 4
    BY <1>b DEF TIME_SLICE_RANGE_LEVELS
  <2> HIDE DEF raw, lo, hi
  <2>4. Max({raw, lo}) \in 1 .. 3
    BY <2>2, <2>3, MaxMinPair
  <2>5. Min({Max({raw, lo}), hi}) \in 1 .. 3
    BY <2>3, <2>4, MaxMinPair
  <2> QED
    BY <2>1, <2>5
<1>1. TuneShape'
  BY <1>s, <1>u, <1>h, <1>m, <1>d, <1>p, <1>b, <1>l, <1>t DEF TuneShape
<1>2. SlotsSound'
  BY <1>s, <1>u DEF SlotsSound
<1>3. CooldownSound'
  <2>1. ASSUME NEW i \in StatSlots, stats'[i].active
        PROVE  changed'[stats'[i].pid] + stats'[i].pri_cooldown >= 2
    <3>1. /\ stats[i].active /\ stats'[i].pid = stats[i].pid /\ stats[i].pid \in TunePids
          /\ changed[stats[i].pid] + stats[i].pri_cooldown >= 2
          /\ stats'[i].pri_cooldown \in 0 .. 2 /\ stats[i].pri_cooldown \in 0 .. 2
      BY <1>s, <2>1 DEF SlotsSound, CooldownSound, TuneShape, StatType, Cooldown
    <3>2. changed[stats[i].pid] \in 0 .. MaxWindows /\ changed'[stats[i].pid] \in 0 .. MaxWindows
      BY <1>d, <3>1 DEF TuneShape
    <3>3. CASE Changes(stats[i])
      BY <1>s, <3>1, <3>2, <3>3
    <3>4. CASE ~Changes(stats[i])
      <4>1. stats[i].pid \notin Reclassified
        <5> SUFFICES ASSUME NEW j \in StatSlots, Changes(stats[j]), stats[j].pid = stats[i].pid
                     PROVE  FALSE
          BY DEF Reclassified
        <5>1. stats[j].active
          BY DEF Changes
        <5> QED
          BY <3>1, <3>4, <5>1 DEF SlotsSound
      <4>2. stats'[i].pri_cooldown + 1 >= stats[i].pri_cooldown
        BY <1>s, <3>1, <3>4
      <4>3. changed'[stats[i].pid] = IF changed[stats[i].pid] + 1 <= MaxWindows
                                     THEN changed[stats[i].pid] + 1 ELSE MaxWindows
        BY <1>d, <3>1, <4>1
      <4>4. ASSUME NEW a \in 0 .. MaxWindows, NEW c \in 0 .. 2, NEW d \in 0 .. 2,
                   a + c >= 2, d + 1 >= c
            PROVE  (IF a + 1 <= MaxWindows THEN a + 1 ELSE MaxWindows) + d >= 2
        BY <4>4, TuneAssumption
      <4> QED
        BY <3>1, <3>2, <4>2, <4>3, <4>4
    <3> QED
      BY <3>3, <3>4
  <2>2. ASSUME NEW p \in TunePids \ born
        PROVE  changed'[p] = MaxWindows
    <3>1. p \notin Reclassified
      BY DEF Reclassified, Changes, SlotsSound
    <3> QED
      BY <1>d, <3>1, TuneAssumption DEF CooldownSound
  <2> QED
    BY <1>u, <2>1, <2>2 DEF CooldownSound
<1>4. MemSound'
  BY <1>u, <1>m DEF MemSound, MemType
<1>5. BiasSound'
  BY <1>b DEF BiasSound
<1> QED
  BY <1>1, <1>2, <1>3, <1>4, <1>5

LEMMA SpawnSafe ==
  ASSUME TuneInv, NEW p \in TunePids, Spawn(p)
  PROVE  TuneInv'
<1> USE DEF TuneInv
<1>u. /\ p \notin born /\ born' = born \cup {p} /\ tAlive' = tAlive \cup {p}
      /\ stats' = register(stats, p)
      /\ crowded' = IF FreeStats(stats) = {} THEN crowded \cup {p} ELSE crowded
      /\ UNCHANGED <<yields, pri, mood, enabled, level, profile, bias_ema, slice,
                     mem_table, changed, mapped, hogs, pushed>>
  BY DEF Spawn
<1>1. \A i \in StatSlots : stats[i].active => stats[i].pid # p
  BY <1>u DEF SlotsSound
<1>2. find_slot(stats, p) = {}
  BY <1>1 DEF find_slot
<1>3. p \in Nat
  BY TuneConstants
<1>p. p \notin tAlive /\ p \notin crowded /\ changed[p] = MaxWindows
  BY <1>u DEF SlotsSound, CooldownSound
<1>a. CASE FreeStats(stats) = {}
  <2>1. stats' = stats /\ crowded' = crowded \cup {p}
    BY <1>a, <1>u DEF register
  <2>2. TuneShape'
    BY <1>u, <2>1 DEF TuneShape
  <2>3. SlotsSound'
    BY <1>u, <1>1, <2>1 DEF SlotsSound
  <2>4. CooldownSound' /\ MemSound' /\ BiasSound'
    BY <1>u, <2>1 DEF CooldownSound, MemSound, BiasSound
  <2> QED
    BY <2>2, <2>3, <2>4
<1>b. CASE FreeStats(stats) # {}
  <2> DEFINE k == Min(FreeStats(stats))
             fresh == [EmptyStat EXCEPT !.pid = p, !.active = TRUE]
  <2>1. k \in StatSlots /\ ~stats[k].active
    <3>1. k \in FreeStats(stats)
      BY <1>b, LeastSlot, TuneConstants DEF FreeStats
    <3> QED
      BY <3>1 DEF FreeStats
  <2>2. fresh \in StatType /\ fresh.pid = p /\ fresh.active = TRUE /\ fresh.pri_cooldown = 0
    BY <1>3, FreshStat
  <2>3. stats' = [stats EXCEPT ![k] = fresh] /\ crowded' = crowded
    BY <1>b, <1>u, <1>2 DEF register
  <2> HIDE DEF k, fresh
  <2>4. stats' \in [StatSlots -> StatType]
    BY <2>2, <2>3 DEF TuneShape
  <2>5. stats'[k] = fresh /\ \A i \in StatSlots : i # k => stats'[i] = stats[i]
    BY <2>1, <2>3 DEF TuneShape
  <2>6. TuneShape'
    BY <1>u, <2>4 DEF TuneShape
  <2>7. SlotsSound'
    <3>1. \A i \in StatSlots : stats'[i].active => stats'[i].pid \in tAlive' \ crowded'
      BY <1>u, <1>p, <2>2, <2>3, <2>5 DEF SlotsSound
    <3>2. \A i, j \in StatSlots :
            stats'[i].active /\ stats'[j].active /\ stats'[i].pid = stats'[j].pid => i = j
      BY <1>1, <2>2, <2>5 DEF SlotsSound
    <3>3. \A q \in tAlive' \ crowded' : \E i \in StatSlots : stats'[i].active /\ stats'[i].pid = q
      BY <1>u, <2>1, <2>2, <2>3, <2>5 DEF SlotsSound
    <3> QED
      BY <1>u, <2>3, <3>1, <3>2, <3>3 DEF SlotsSound
  <2>8. CooldownSound'
    <3>1. ASSUME NEW i \in StatSlots, stats'[i].active
          PROVE  changed[stats'[i].pid] + stats'[i].pri_cooldown >= 2
      <4>1. CASE i = k
        BY <1>p, <2>2, <2>5, <4>1, TuneAssumption
      <4>2. CASE i # k
        BY <2>5, <3>1, <4>2 DEF CooldownSound
      <4> QED
        BY <4>1, <4>2
    <3> QED
      BY <1>u, <3>1 DEF CooldownSound
  <2>9. MemSound' /\ BiasSound'
    BY <1>u DEF MemSound, BiasSound
  <2> QED
    BY <2>6, <2>7, <2>8, <2>9
<1> QED
  BY <1>a, <1>b

LEMMA KillSafe ==
  ASSUME TuneInv, NEW p \in TunePids, Kill(p)
  PROVE  TuneInv'
<1> USE DEF TuneInv
<1>u. /\ p \in tAlive /\ tAlive' = tAlive \ {p} /\ stats' = unregister(stats, p)
      /\ UNCHANGED <<yields, pri, mood, enabled, level, profile, bias_ema, slice,
                     mem_table, born, changed, crowded, mapped, hogs, pushed>>
  BY DEF Kill
<1>a. CASE find_slot(stats, p) = {}
  <2>1. stats' = stats /\ \A i \in StatSlots : stats[i].active => stats[i].pid # p
    BY <1>a, <1>u DEF unregister, find_slot
  <2>2. TuneShape'
    BY <1>u, <2>1 DEF TuneShape
  <2>3. SlotsSound'
    BY <1>u, <2>1 DEF SlotsSound
  <2>4. CooldownSound' /\ MemSound' /\ BiasSound'
    BY <1>u, <2>1 DEF CooldownSound, MemSound, BiasSound
  <2> QED
    BY <2>2, <2>3, <2>4
<1>b. CASE find_slot(stats, p) # {}
  <2> DEFINE k == Min(find_slot(stats, p))
  <2>1. k \in StatSlots /\ stats[k].active /\ stats[k].pid = p
    <3>1. k \in find_slot(stats, p)
      BY <1>b, LeastSlot, TuneConstants DEF find_slot
    <3> QED
      BY <3>1 DEF find_slot
  <2>2. stats' = [stats EXCEPT ![k] = [stats[k] EXCEPT !.active = FALSE]]
    BY <1>b, <1>u DEF unregister
  <2> HIDE DEF k
  <2>3. /\ stats' \in [StatSlots -> StatType] /\ stats'[k].active = FALSE
        /\ \A i \in StatSlots : i # k => stats'[i] = stats[i]
    BY <2>1, <2>2 DEF TuneShape, StatType
  <2>4. TuneShape'
    BY <1>u, <2>3 DEF TuneShape
  <2>5. SlotsSound'
    BY <1>u, <2>1, <2>3 DEF SlotsSound
  <2>6. CooldownSound' /\ MemSound' /\ BiasSound'
    BY <1>u, <2>3 DEF CooldownSound, MemSound, BiasSound
  <2> QED
    BY <2>4, <2>5, <2>6
<1> QED
  BY <1>a, <1>b

\* Steps that touch neither slots nor tables.
LEMMA PlainSafe ==
  ASSUME TuneInv, mood' \in [TunePids -> Moods], enabled' \in BOOLEAN,
         UNCHANGED <<stats, yields, pri, tAlive, level, profile, bias_ema, slice, mem_table,
                     born, changed, crowded, mapped, hogs, pushed>>
  PROVE  TuneInv'
<1> USE DEF TuneInv
<1>1. TuneShape'
  BY DEF TuneShape
<1>2. SlotsSound'
  BY DEF SlotsSound
<1>3. CooldownSound' /\ MemSound' /\ BiasSound'
  BY DEF CooldownSound, MemSound, BiasSound
<1> QED
  BY <1>1, <1>2, <1>3

\* A step that gives one slot of mem_table a new entry of process p, which
\* counts no more calls than p has made in this window.
LEMMA MemStep ==
  ASSUME TuneInv, NEW p \in TunePids, NEW n \in Nat, NEW k, NEW e \in MemType,
         mem_table' = [mem_table EXCEPT ![k] = e], e.pid = p,
         e.mmap_calls - e.last_mmap <= mapped[p] + n,
         mapped' = [mapped EXCEPT ![p] = @ + n],
         UNCHANGED <<stats, yields, pri, mood, tAlive, enabled, level, profile, bias_ema, slice,
                     born, changed, crowded, hogs>>
  PROVE  TuneInv'
<1> USE DEF TuneInv
<1>1. TuneShape'
  <2>1. mem_table' \in [MemSlots -> MemType]
    BY Zenon DEF TuneShape
  <2>2. mapped' \in [TunePids -> Nat]
    BY DEF TuneShape
  <2> QED
    BY <2>1, <2>2 DEF TuneShape
<1>2. SlotsSound'
  BY DEF SlotsSound
<1>3. CooldownSound' /\ BiasSound'
  BY DEF CooldownSound, BiasSound
<1>4. MemSound'
  <2>1. ASSUME NEW i \in MemSlots, mem_table'[i].active, mem_table'[i].pid \in TunePids
        PROVE  mem_table'[i].mmap_calls - mem_table'[i].last_mmap <= mapped'[mem_table'[i].pid]
    <3>1. \A q \in TunePids : mapped[q] \in Nat /\ mapped'[q] \in Nat /\ mapped'[q] >= mapped[q]
      BY DEF TuneShape
    <3>2. mapped'[p] = mapped[p] + n
      BY DEF TuneShape
    <3>3. CASE i = k
      BY <3>2, <3>3 DEF TuneShape
    <3>4. CASE i # k
      <4>1. mem_table'[i] = mem_table[i] /\ mem_table[i] \in MemType
        BY <3>4 DEF TuneShape
      <4>2. mem_table[i].mmap_calls \in Nat /\ mem_table[i].last_mmap \in Nat
        BY <4>1 DEF MemType
      <4>3. mem_table[i].mmap_calls - mem_table[i].last_mmap <= mapped[mem_table[i].pid]
        BY <2>1, <4>1 DEF MemSound
      <4> QED
        BY <2>1, <3>1, <4>1, <4>2, <4>3
    <3> QED
      BY <3>3, <3>4
  <2> QED
    BY <2>1 DEF MemSound
<1> QED
  BY <1>1, <1>2, <1>3, <1>4

LEMMA MmapSafe ==
  ASSUME TuneInv, NEW p \in TunePids, NEW n \in Bursts, mmap(p, n)
  PROVE  TuneInv'
<1>u. /\ mem_table' = observe_mmap(p, n)
      /\ mapped' = [mapped EXCEPT ![p] = @ + n]
      /\ UNCHANGED <<stats, yields, pri, mood, tAlive, enabled, level, profile, bias_ema, slice,
                     born, changed, crowded, hogs>>
  BY DEF mmap
<1>n. n \in Nat /\ p \in Nat /\ mapped[p] \in Nat
  BY TuneAssumption DEF TuneInv, TuneShape
<1>a. CASE MemOf(p) # {}
  <2> DEFINE k == Min(MemOf(p))
             e == [mem_table[k] EXCEPT !.mmap_calls = @ + n]
  <2>1. k \in MemSlots /\ mem_table[k].active /\ mem_table[k].pid = p
    <3>1. k \in MemOf(p)
      BY <1>a, LeastSlot, TuneConstants DEF MemOf
    <3> QED
      BY <3>1 DEF MemOf
  <2>2. mem_table' = [mem_table EXCEPT ![k] = e]
    BY <1>a, <1>u DEF observe_mmap
  <2>3. mem_table[k] \in MemType /\ mem_table[k].mmap_calls - mem_table[k].last_mmap <= mapped[p]
    BY <2>1 DEF TuneInv, TuneShape, MemSound
  <2> HIDE DEF k
  <2>4. e \in MemType /\ e.pid = p /\ e.mmap_calls = mem_table[k].mmap_calls + n
        /\ e.last_mmap = mem_table[k].last_mmap
    BY <1>n, <2>1, <2>3 DEF MemType
  <2>5. mem_table[k].mmap_calls \in Nat /\ mem_table[k].last_mmap \in Nat
    BY <2>3 DEF MemType
  <2> HIDE DEF e
  <2>6. e.mmap_calls - e.last_mmap <= mapped[p] + n
    BY <1>n, <2>3, <2>4, <2>5
  <2> QED
    BY <1>n, <1>u, <2>2, <2>4, <2>6, MemStep
<1>b. CASE MemOf(p) = {}
  <2>1. PICK k : mem_table' = [mem_table EXCEPT ![k] = MemEntry(p, n)]
    BY <1>b, <1>u DEF observe_mmap
  <2> DEFINE e == MemEntry(p, n)
  <2>2. e \in MemType /\ e.pid = p /\ e.mmap_calls - e.last_mmap <= mapped[p] + n
    BY <1>n DEF MemEntry, MemType
  <2>3. mem_table' = [mem_table EXCEPT ![k] = e]
    BY <2>1
  <2> HIDE DEF e
  <2> QED
    BY <1>n, <1>u, <2>2, <2>3, MemStep
<1> QED
  BY <1>a, <1>b

LEMMA FaultSafe ==
  ASSUME TuneInv, NEW p \in TunePids, page_fault(p)
  PROVE  TuneInv'
<1>u. /\ mem_table' = observe_page_fault(p)
      /\ UNCHANGED <<stats, yields, pri, mood, tAlive, enabled, level, profile, bias_ema, slice,
                     born, changed, crowded, mapped, hogs, pushed>>
  BY DEF page_fault
<1>n. p \in Nat /\ mapped[p] \in Nat /\ mood \in [TunePids -> Moods] /\ enabled \in BOOLEAN
  BY TuneAssumption DEF TuneInv, TuneShape
<1>a. CASE mem_table' = mem_table
  BY <1>a, <1>u, <1>n, PlainSafe
<1>b. CASE \E k : mem_table' = [mem_table EXCEPT ![k] = MemEntry(p, 0)]
  <2>1. PICK k : mem_table' = [mem_table EXCEPT ![k] = MemEntry(p, 0)]
    BY <1>b
  <2> DEFINE e == MemEntry(p, 0)
  <2>2. e \in MemType /\ e.pid = p /\ e.mmap_calls - e.last_mmap <= mapped[p] + 0
    BY <1>n DEF MemEntry, MemType
  <2>3. mem_table' = [mem_table EXCEPT ![k] = e]
    BY <2>1
  <2>4. mapped' = [mapped EXCEPT ![p] = @ + 0]
    BY <1>n, <1>u DEF TuneInv, TuneShape
  <2> HIDE DEF e
  <2> QED
    BY <1>u, <2>2, <2>3, <2>4, MemStep
<1> QED
  BY <1>a, <1>b, <1>u DEF observe_page_fault

LEMMA NextTune == TuneInv /\ [TuneNext]_tuneVars => TuneInv'
<1> SUFFICES ASSUME TuneInv, [TuneNext]_tuneVars PROVE TuneInv'
  OBVIOUS
<1>0. mood \in [TunePids -> Moods] /\ enabled \in BOOLEAN
  BY DEF TuneInv, TuneShape
<1>1. CASE TuneReport
  BY <1>1, ReportSafe
<1>2. ASSUME NEW p \in TunePids, Spawn(p) \/ Kill(p) \/ page_fault(p) PROVE TuneInv'
  BY <1>2, SpawnSafe, KillSafe, FaultSafe
<1>3. ASSUME NEW p \in TunePids, NEW m \in Moods, Behave(p, m) PROVE TuneInv'
  BY <1>0, <1>3, PlainSafe DEF Behave
<1>4. ASSUME NEW p \in TunePids, NEW n \in Bursts, mmap(p, n) PROVE TuneInv'
  BY <1>4, MmapSafe
<1>5. ASSUME NEW on \in BOOLEAN, set_enabled(on) PROVE TuneInv'
  BY <1>0, <1>5, PlainSafe DEF set_enabled
<1>6. ASSUME NEW l \in Loads, ChangeLoad(l) PROVE TuneInv'
  BY <1>0, <1>6, PlainSafe DEF ChangeLoad
<1>7. CASE UNCHANGED tuneVars
  BY <1>0, <1>7, PlainSafe DEF tuneVars
<1> QED
  BY <1>1, <1>2, <1>3, <1>4, <1>5, <1>6, <1>7 DEF TuneNext

\* The inductive invariant of the tuning.
THEOREM TuneInvariant == TuneSpec => []TuneInv
BY InitTune, NextTune, PTL DEF TuneSpec

\* WatchesTheLiving for every size of stats: a slot in use belongs to a live
\* process, no process has two slots, and only one that register found no
\* room for has none.
THEOREM SlotsFollowTheLiving == TuneSpec => []WatchesTheLiving
<1>1. TuneInv => WatchesTheLiving
  <2> SUFFICES ASSUME TuneInv PROVE WatchesTheLiving
    OBVIOUS
  <2> USE DEF TuneInv
  <2>1. \A i \in StatSlots : stats[i].active => stats[i].pid \in tAlive
    BY DEF SlotsSound
  <2>2. ASSUME NEW p \in tAlive, p \in crowded PROVE Cardinality(find_slot(stats, p)) = 0
    <3>1. find_slot(stats, p) = {}
      BY <2>2 DEF SlotsSound, find_slot
    <3> QED
      BY <3>1, FS_EmptySet
  <2>3. ASSUME NEW p \in tAlive, p \notin crowded PROVE Cardinality(find_slot(stats, p)) = 1
    <3>1. PICK i \in StatSlots : stats[i].active /\ stats[i].pid = p
      BY <2>3 DEF SlotsSound
    <3>2. find_slot(stats, p) = {i}
      BY <3>1 DEF SlotsSound, find_slot
    <3> QED
      BY <3>2, FS_Singleton
  <2> QED
    BY <2>1, <2>2, <2>3 DEF WatchesTheLiving
<1> QED
  BY <1>1, TuneInvariant, PTL

\* The tables keep the ranges the code's arithmetic gives them (TuneTypeOK).
THEOREM TuneTypes == TuneSpec => []TuneTypeOK
<1>1. TuneInv => TuneTypeOK
  <2> SUFFICES ASSUME TuneInv PROVE TuneTypeOK
    OBVIOUS
  <2>1. ASSUME NEW i \in StatSlots
        PROVE  /\ stats[i].vol_ema \in Permille /\ stats[i].alpha_level \in AlphaLevel
               /\ stats[i].pri_cooldown \in Cooldown /\ stats[i].volatility_ema \in Volatility
    BY DEF TuneInv, TuneShape, StatType
  <2>2. /\ level \in 1 .. 4 /\ profile \in 1 .. 3 /\ slice \in 1 .. 3
        /\ pri \in [TunePids -> {"High", "Normal", "Low"}]
    BY DEF TuneInv, TuneShape, Classes
  <2> QED
    BY <2>1, <2>2, Zenon DEF TuneTypeOK
<1> QED
  BY <1>1, TuneInvariant, PTL

\* BuildNeedsThree for every number of processes and windows: whatever the
\* loads, the truncated average of at most two more hogs than yielders never
\* takes the scheduler out of its baseline profile.
THEOREM ProfileNeedsThree == TuneSpec => []BuildNeedsThree
<1>1. TuneInv => BuildNeedsThree
  BY DEF TuneInv, TuneShape, BiasSound, BuildNeedsThree
<1> QED
  BY <1>1, TuneInvariant, PTL

\* PriorityMovesWithCause for every instance: a class lowers a priority only
\* when its cooldown is over; what raises it is the class, PIN_PUSH of a hot
\* pair, or mem_table, and that only for calls made in the same window.
THEOREM PrioritiesMoveWithCause == TuneSpec => PriorityMovesWithCause
<1> DEFINE P == \A p \in TunePids :
                  /\ Rank(pri'[p]) < Rank(pri[p]) => changed[p] >= 2
                  /\ Rank(pri'[p]) > Rank(pri[p]) =>
                       \/ mapped[p] >= MEM_HOT_THRESHOLD
                       \/ p \in Reclassified
                       \/ p \in pushed'
<1>1. TuneInv /\ [TuneNext]_tuneVars => [P]_tuneVars
  <2> SUFFICES ASSUME TuneInv, [TuneNext]_tuneVars, NEW p \in TunePids, pri'[p] # pri[p]
               PROVE  /\ Rank(pri'[p]) < Rank(pri[p]) => changed[p] >= 2
                      /\ Rank(pri'[p]) > Rank(pri[p]) =>
                           \/ mapped[p] >= MEM_HOT_THRESHOLD
                           \/ p \in Reclassified
                           \/ p \in pushed'
    <3>1. \A p \in TunePids : ~(Rank(pri[p]) < Rank(pri[p]))
      BY DEF Rank
    <3> QED
      BY <3>1
  <2> USE DEF TuneInv
  <2>1. TuneReport
    BY DEF TuneNext, tuneVars, Spawn, Kill, page_fault, Behave, mmap, set_enabled, ChangeLoad
  <2>2. /\ (p \in MemHot /\ enabled) \/ p \in pushed' => pri'[p] = "High"
        /\ (p \in MemHot /\ enabled) \/ p \in pushed' \/ p \in Reclassified
    BY <2>1 DEF TuneReport
  <2>3. pri[p] \in Classes /\ mapped[p] \in Nat /\ changed[p] \in Nat
    BY DEF TuneShape
  <2>4. ASSUME p \in MemHot PROVE mapped[p] >= MEM_HOT_THRESHOLD
    <3>1. PICK j \in MemSlots : /\ mem_table[j].active /\ mem_table[j].pid = p
                                /\ mem_table[j].mmap_calls - mem_table[j].last_mmap >= MEM_HOT_THRESHOLD
      BY <2>4 DEF MemHot
    <3>2. mem_table[j].mmap_calls - mem_table[j].last_mmap <= mapped[p]
      BY <3>1 DEF MemSound
    <3>3. mem_table[j].mmap_calls \in Nat /\ mem_table[j].last_mmap \in Nat
      BY DEF TuneShape, MemType
    <3> QED
      BY <2>3, <3>1, <3>2, <3>3 DEF MEM_HOT_THRESHOLD
  <2>5. ASSUME p \in Reclassified PROVE changed[p] >= 2
    <3>1. PICK j \in StatSlots : Changes(stats[j]) /\ stats[j].pid = p
      BY <2>5 DEF Reclassified
    <3>2. stats[j].active /\ stats[j].pri_cooldown = 0
      BY <3>1 DEF Changes
    <3> QED
      BY <2>3, <3>1, <3>2 DEF CooldownSound
  <2>6. CASE (p \in MemHot /\ enabled) \/ p \in pushed'
    BY <2>2, <2>3, <2>4, <2>6 DEF Rank, Classes
  <2>7. CASE ~((p \in MemHot /\ enabled) \/ p \in pushed')
    BY <2>2, <2>5, <2>7
  <2> QED
    BY <2>6, <2>7
<1> QED
  BY <1>1, TuneInvariant, PTL DEF TuneSpec, PriorityMovesWithCause
---------------------------------------------------------------------------
(* Learner: one pair.                                                      *)

AlphaRange == 1 .. 500
BetaRange == 4 .. 500
ColdRange == 0 .. 1
PairType ==
  [active: BOOLEAN, last_count: Nat, cold: ColdRange, rate_ema: Nat, alpha: AlphaRange,
   beta: BetaRange, delta_prev: Nat, action: Actions]

LearnShape ==
  /\ pair \in PairType
  /\ total \in Nat /\ pair.last_count <= total
  /\ open \in BOOLEAN /\ cooling \in 0 .. CoolWindows
  /\ talked \in Nat /\ steady \in Nat

\* The counters after so many windows with messages, of which so many steady
\* ones were the last: alpha gains at most five and, in a steady window, at
\* least two; beta leaves its floor only with a cold window.
Counted(e, t, k) ==
  /\ e.alpha <= 1 + 5 * t
  /\ e.alpha >= 1 + 2 * (IF k <= 5 THEN k ELSE 5)
  /\ e.beta <= 4 + e.cold
  /\ k >= 1 => e.cold = 0

LearnInv ==
  /\ LearnShape
  /\ open => pair.active
  /\ pair.active => Counted(pair, talked, steady)
  /\ ~pair.active => talked = 0 /\ steady = 0
  /\ SteadyGetsChannel

\* BayesScore above the limit takes an alpha of ten, and an alpha of eleven
\* with beta at its floor is above it.
LEMMA ScoreNeedsAlpha ==
  ASSUME NEW e \in PairType
  PROVE  /\ BayesScore(e) >= 650 => e.alpha >= 10
         /\ e.alpha >= 11 /\ e.beta = 4 => BayesScore(e) >= 650
<1>1. e.alpha \in 1 .. 500 /\ e.beta \in 4 .. 500
  BY DEF PairType, AlphaRange, BetaRange
<1>2. PICK a \in 1 .. 500, b \in 4 .. 500 : a = e.alpha /\ b = e.beta
  BY <1>1
<1> DEFINE n == a * 1000
           d == a + b + 1
<1>3. BayesScore(e) = n \div d
  BY <1>2 DEF BayesScore
<1>4. n \in Nat /\ d \in Nat \ {0}
  OBVIOUS
<1>5. /\ n >= 650 * d => a >= 10
      /\ a >= 11 /\ b = 4 => n >= 650 * d
  OBVIOUS
<1> HIDE DEF n, d
<1>6. n \div d >= 650 => n >= 650 * d
  BY <1>4
<1>7. n >= 650 * d => n \div d >= 650
  BY <1>4
<1>8. PICK q : q = n \div d
  OBVIOUS
<1>9. (q >= 650 => a >= 10) /\ (a >= 11 /\ b = 4 => q >= 650)
  BY <1>5, <1>6, <1>7, <1>8
<1> QED
  BY <1>2, <1>3, <1>8, <1>9

\* After five steady windows the pair is hot, whatever the learner did last.
LEMMA SteadyIsHot ==
  ASSUME NEW e \in PairType, e.alpha >= 11, e.beta = 4, e.cold = 0
  PROVE  is_hot(e)
<1>1. e.alpha \in 1 .. 500
  BY DEF PairType, AlphaRange
<1>2. BayesScore(e) >= 650
  BY ScoreNeedsAlpha
<1>3. Threshold(e) \in {220, 300, 380}
  BY DEF Threshold
<1>4. ASSUME NEW rate
      PROVE  /\ Tree1(e, rate) = 200 /\ Tree2(e, rate) \in {160, 60}
             /\ Tree3(e, rate) \in {120, 40} /\ Tree4(e) = 100
  BY <1>1 DEF Tree1, Tree2, Tree3, Tree4
<1>5. ml2_gbdt(e) >= 400
  <2> DEFINE rate == e.rate_ema \div 10
  <2>1. ml2_gbdt(e) = Tree1(e, rate) + Tree2(e, rate) + Tree3(e, rate) + Tree4(e)
    BY DEF ml2_gbdt
  <2> HIDE DEF rate
  <2> QED
    BY <1>4, <2>1
<1>6. ml2_gbdt(e) \in Int
  <2> DEFINE rate == e.rate_ema \div 10
  <2>1. ml2_gbdt(e) = Tree1(e, rate) + Tree2(e, rate) + Tree3(e, rate) + Tree4(e)
    BY DEF ml2_gbdt
  <2> HIDE DEF rate
  <2> QED
    BY <1>4, <2>1
<1>7. ml2_gbdt(e) >= Threshold(e)
  BY <1>3, <1>5, <1>6
<1> QED
  BY <1>2, <1>7 DEF is_hot

\* A window that does not evict the pair.
LEMMA CountersAfter ==
  ASSUME NEW e \in PairType, NEW delta \in Nat, NEW t \in Nat, NEW k \in Nat,
         Counted(e, t, k), NEW cold, cold = (IF delta < 5 THEN e.cold + 1 ELSE 0), cold < 2
  PROVE  /\ cold \in ColdRange /\ Alpha(e, delta) \in AlphaRange /\ Beta(e, delta) \in BetaRange
         /\ Alpha(e, delta) <= 1 + 5 * (t + (IF delta > 0 THEN 1 ELSE 0))
         /\ delta >= 5 => Alpha(e, delta) >= 1 + 2 * (IF k + 1 <= 5 THEN k + 1 ELSE 5)
         /\ Beta(e, delta) <= 4 + cold
<1>1. e.alpha \in 1 .. 500 /\ e.beta \in 4 .. 500 /\ e.cold \in 0 .. 1
  BY DEF PairType, AlphaRange, BetaRange, ColdRange
<1>2. Gain(delta) \in 2 .. 5
  BY DEF Gain, Larger, Smaller
<1>3. cold \in 0 .. 1 /\ (cold = 1 => delta < 5 /\ e.cold = 0)
  BY <1>1
<1>4. /\ Alpha(e, delta) \in 1 .. 500
      /\ Alpha(e, delta) <= 1 + 5 * (t + (IF delta > 0 THEN 1 ELSE 0))
      /\ delta >= 5 => Alpha(e, delta) >= 1 + 2 * (IF k + 1 <= 5 THEN k + 1 ELSE 5)
  <2>1. PICK a \in 1 .. 500, g \in 2 .. 5 : a = e.alpha /\ g = Gain(delta)
    BY <1>1, <1>2
  <2>2. a <= 1 + 5 * t /\ a >= 1 + 2 * (IF k <= 5 THEN k ELSE 5)
    BY <2>1 DEF Counted
  <2>3. CASE delta > 0
    <3>1. Alpha(e, delta) = IF a + g <= 500 THEN a + g ELSE 500
      BY <2>1, <2>3 DEF Alpha, Smaller
    <3> QED
      BY <2>2, <2>3, <3>1
  <2>4. CASE delta = 0
    <3>1. Alpha(e, delta) = IF a - 3 >= 1 THEN a - 3 ELSE 1
      BY <2>1, <2>4 DEF Alpha, Larger
    <3> QED
      BY <2>2, <2>4, <3>1
  <2> QED
    BY <2>3, <2>4
<1>5. Beta(e, delta) \in 4 .. 500 /\ Beta(e, delta) <= 4 + cold
  BY <1>1, <1>3 DEF Beta, Larger, Smaller, Counted
<1> QED
  BY <1>3, <1>4, <1>5 DEF AlphaRange, BetaRange, ColdRange

LEMMA FreshCounted == Fresh \in PairType /\ Counted(Fresh, 0, 0)
<1>1. Fresh \in PairType
  BY DEF Fresh, PairType, AlphaRange, BetaRange, ColdRange, Actions
<1>2. Fresh.alpha = 1 /\ Fresh.beta = 4 /\ Fresh.cold = 0
  BY DEF Fresh
<1> QED
  BY <1>1, <1>2 DEF Counted

LEMMA InitLearn == LearnInit => LearnInv
<1> SUFFICES ASSUME LearnInit PROVE LearnInv
  OBVIOUS
<1>1. /\ pair = [Fresh EXCEPT !.active = FALSE] /\ total = 0 /\ open = FALSE /\ cooling = 0
      /\ talked = 0 /\ steady = 0
  BY DEF LearnInit
<1>2. pair \in PairType /\ pair.last_count = 0 /\ pair.active = FALSE
  BY <1>1, FreshCounted DEF PairType, Fresh
<1>3. cooling \in 0 .. CoolWindows /\ ~(steady >= 6) /\ pair.last_count <= total
  BY <1>1, <1>2, LearnAssumption
<1>4. LearnShape
  BY <1>1, <1>2, <1>3 DEF LearnShape
<1> QED
  BY <1>1, <1>2, <1>3, <1>4 DEF LearnInv, SteadyGetsChannel

LEMMA ReportLearn ==
  ASSUME LearnInv, NEW d \in Deltas, NEW s \in BOOLEAN, NEW a \in Actions,
         NEW o \in BOOLEAN, total' = total + d, Report(d, s, a, o)
  PROVE  LearnInv' /\ (open' /\ ~open => talked >= 2)
<1>1. /\ pair \in PairType /\ total \in Nat /\ pair.last_count <= total
      /\ open \in BOOLEAN /\ cooling \in 0 .. CoolWindows /\ talked \in Nat /\ steady \in Nat
      /\ d \in Nat /\ CoolWindows \in Nat
  BY LearnAssumption DEF LearnInv, LearnShape
<1>2. PICK e : e = IF pair.active THEN pair ELSE Fresh
  OBVIOUS
<1>3. e \in PairType /\ Counted(e, talked, steady)
  BY <1>1, <1>2, FreshCounted DEF LearnInv
<1>4. e.last_count \in Nat /\ e.last_count <= total
  BY <1>1, <1>2, <1>3 DEF Fresh, PairType
<1>5. PICK delta \in Nat : delta = total + d - e.last_count
  BY <1>1, <1>4
<1>6. PICK cool \in 0 .. CoolWindows : cool = IF cooling > 0 THEN cooling - 1 ELSE 0
  BY <1>1
<1>7. PICK cold : cold = IF delta < 5 THEN e.cold + 1 ELSE 0
  OBVIOUS
<1>8. CASE RateSpike(e, delta) \/ s \/ cold >= 2
  <2>1. Evict
    BY <1>2, <1>5, <1>7, <1>8 DEF Report
  <2>2. /\ pair' = [pair EXCEPT !.active = FALSE]
        /\ open' = FALSE /\ cooling' = CoolWindows /\ talked' = 0 /\ steady' = 0
        /\ offered' = FALSE
    BY <2>1 DEF Evict
  <2>3. pair' \in PairType /\ pair'.active = FALSE /\ pair'.last_count = pair.last_count
    BY <1>1, <2>2 DEF PairType
  <2>4. total' \in Nat /\ pair'.last_count <= total'
    <3>1. pair.last_count \in Nat
      BY <1>1 DEF PairType
    <3> QED
      BY <1>1, <2>3, <3>1
  <2>5. cooling' \in 0 .. CoolWindows /\ ~(steady' >= 6)
    BY <1>1, <2>2
  <2>6. LearnShape'
    BY <2>2, <2>3, <2>4, <2>5 DEF LearnShape
  <2> QED
    BY <2>2, <2>3, <2>5, <2>6 DEF LearnInv, SteadyGetsChannel
<1>9. CASE ~(RateSpike(e, delta) \/ s \/ cold >= 2)
  <2>1. /\ pair' = [e EXCEPT !.last_count = total + d, !.cold = cold,
                         !.rate_ema = (30 * delta + 7 * @) \div 10,
                         !.alpha = Alpha(e, delta), !.beta = Beta(e, delta),
                         !.delta_prev = delta, !.action = a]
        /\ open' = (open \/ (pair.active /\ o /\ is_hot(e) /\ cool = 0))
        /\ cooling' = cool
        /\ talked' = talked + (IF delta > 0 THEN 1 ELSE 0)
        /\ steady' = IF delta < 5 THEN 0 ELSE steady + 1
        /\ offered' = o
    BY <1>2, <1>5, <1>6, <1>7, <1>9 DEF Report
  <2>2. cold < 2 /\ cold \in ColdRange
    <3>1. e.cold \in 0 .. 1
      BY <1>3 DEF PairType, ColdRange
    <3> QED
      BY <1>7, <1>9, <3>1 DEF ColdRange
  <2>3. /\ Alpha(e, delta) \in AlphaRange /\ Beta(e, delta) \in BetaRange
        /\ Alpha(e, delta) <= 1 + 5 * (talked + (IF delta > 0 THEN 1 ELSE 0))
        /\ delta >= 5 => Alpha(e, delta) >= 1 + 2 * (IF steady + 1 <= 5 THEN steady + 1 ELSE 5)
        /\ Beta(e, delta) <= 4 + cold
    BY <1>1, <1>3, <1>7, <2>2, CountersAfter
  <2>4. PICK r \in Nat : r = (30 * delta + 7 * e.rate_ema) \div 10
    <3>1. e.rate_ema \in Nat
      BY <1>3 DEF PairType
    <3>2. ASSUME NEW n \in Nat PROVE n \div 10 \in Nat
      OBVIOUS
    <3>3. 30 * delta + 7 * e.rate_ema \in Nat
      BY <3>1
    <3> QED
      BY <3>2, <3>3
  <2>5. PICK al, be : al = Alpha(e, delta) /\ be = Beta(e, delta)
    OBVIOUS
  <2>6. PICK tt \in Nat : tt = total + d
    BY <1>1
  <2>7. pair' = [e EXCEPT !.last_count = tt, !.cold = cold, !.rate_ema = r, !.alpha = al,
                     !.beta = be, !.delta_prev = delta, !.action = a]
    BY <2>1, <2>4, <2>5, <2>6
  <2>8. /\ pair' \in PairType /\ pair'.active = e.active /\ pair'.last_count = tt
        /\ pair'.cold = cold /\ pair'.alpha = al /\ pair'.beta = be
    BY <1>3, <2>2, <2>3, <2>5, <2>7 DEF PairType
  <2>9. e.active
    BY <1>2 DEF Fresh
  <2>10. LearnShape'
    BY <1>1, <2>1, <2>6, <2>8 DEF LearnShape
  <2>11. al \in 1 .. 500 /\ be \in 4 .. 500 /\ cold \in 0 .. 1
    BY <2>2, <2>3, <2>5 DEF AlphaRange, BetaRange, ColdRange
  <2>12. Counted(pair, talked, steady)'
    <3>1. al <= 1 + 5 * talked'
      BY <2>1, <2>3, <2>5
    <3>2. al >= 1 + 2 * (IF steady' <= 5 THEN steady' ELSE 5)
      BY <1>1, <2>1, <2>3, <2>5, <2>11
    <3>3. be <= 4 + cold
      BY <2>3, <2>5
    <3>4. steady' >= 1 => cold = 0
      BY <1>7, <2>1
    <3> QED
      BY <2>8, <3>1, <3>2, <3>3, <3>4 DEF Counted
  <2>13. SteadyGetsChannel'
    <3> SUFFICES ASSUME steady' >= 6, offered', ~open' PROVE cooling' > 0
      BY DEF SteadyGetsChannel
    <3>1. steady >= 5
      BY <1>1, <2>1
    <3>2. pair.active /\ e = pair
      BY <1>2, <3>1 DEF LearnInv
    <3>3. /\ e.alpha \in 1 .. 500 /\ e.beta \in 4 .. 500
          /\ e.alpha >= 1 + 2 * (IF steady <= 5 THEN steady ELSE 5)
          /\ e.beta <= 4 + e.cold /\ e.cold = 0
      BY <1>1, <1>3, <3>1 DEF Counted, PairType, AlphaRange, BetaRange
    <3>4. e.alpha >= 11 /\ e.beta = 4
      BY <1>1, <3>1, <3>3
    <3>5. is_hot(e)
      BY <1>3, <3>3, <3>4, SteadyIsHot
    <3>6. cool # 0
      BY <2>1, <3>2, <3>5, Zenon
    <3>7. cooling' = cool
      BY <2>1
    <3> QED
      BY <1>1, <1>6, <3>6, <3>7
  <2>14. open' /\ ~open => talked >= 2
    <3> SUFFICES ASSUME open', ~open PROVE talked >= 2
      OBVIOUS
    <3>1. is_hot(e)
      BY <2>1
    <3>2. e.alpha >= 10
      BY <1>3, <3>1, ScoreNeedsAlpha DEF is_hot
    <3>3. e.alpha <= 1 + 5 * talked /\ e.alpha \in 1 .. 500
      BY <1>3 DEF Counted, PairType, AlphaRange
    <3> QED
      BY <1>1, <3>2, <3>3
  <2>15. pair'.active
    BY <2>8, <2>9
  <2> QED
    BY <2>10, <2>12, <2>13, <2>14, <2>15 DEF LearnInv
<1> QED
  BY <1>8, <1>9

LEMMA LearnStep ==
  ASSUME LearnInv, [LearnNext]_learnVars
  PROVE  LearnInv' /\ (open' /\ ~open => talked >= 2)
<1>1. CASE UNCHANGED learnVars
  BY <1>1 DEF learnVars, LearnInv, LearnShape, Counted, SteadyGetsChannel
<1>2. ASSUME NEW d \in Deltas, NEW s \in BOOLEAN, NEW a \in Actions, NEW o \in BOOLEAN,
             ReportWindow(d, s, a, o)
      PROVE  LearnInv' /\ (open' /\ ~open => talked >= 2)
  <2>1. total' = total + d
    BY <1>2 DEF ReportWindow
  <2>2. CASE Report(d, s, a, o)
    BY <2>1, <2>2, ReportLearn
  <2>3. CASE /\ ~pair.active /\ d = 0
             /\ cooling' = IF cooling > 0 THEN cooling - 1 ELSE 0
             /\ UNCHANGED <<pair, open, talked, steady, offered>>
    <3>1. total \in Nat /\ cooling \in 0 .. CoolWindows /\ CoolWindows \in Nat /\ steady = 0
      BY <2>3, LearnAssumption DEF LearnInv, LearnShape
    <3>2. total' = total /\ cooling' \in 0 .. CoolWindows
      BY <2>1, <2>3, <3>1
    <3> QED
      BY <2>3, <3>1, <3>2 DEF LearnInv, LearnShape, SteadyGetsChannel
  <2> QED
    BY <1>2, <2>2, <2>3 DEF ReportWindow
<1> QED
  BY <1>1, <1>2 DEF LearnNext

\* The counters, the cold windows and the channel of a pair (Policy's
\* ipc_table) agree with the windows it was watched for: the clamps of
\* adapt_and_report hold, and a channel goes with the pair that had it.
THEOREM LearnInvariant == LearnSpec => [](LearnInv /\ LearnTypeOK)
<1>1. LearnInv => LearnTypeOK
  <2> SUFFICES ASSUME LearnInv PROVE LearnTypeOK
    OBVIOUS
  <2> QED
    BY DEF LearnInv, LearnShape, LearnTypeOK, PairType, AlphaRange, BetaRange, ColdRange
<1> QED
  BY <1>1, InitLearn, LearnStep, PTL DEF LearnSpec

\* A pair that keeps talking gets its channel (adapt_and_report): whatever
\* volumes its windows carry and whatever the reinforcement learner tries, from
\* the sixth steady window on the first report that may open one for it (it
\* ranks among the three best, the engine is on, the window's channels are not
\* used up) leaves it with a channel or cooling down.
THEOREM SteadyPairsAreServed == LearnSpec => []SteadyGetsChannel
<1>1. LearnInv => SteadyGetsChannel
  BY DEF LearnInv
<1> QED
  BY <1>1, InitLearn, LearnStep, PTL DEF LearnSpec

\* No single window, however full, opens a channel (adapt_and_report).
THEOREM ChannelsAreEarned == LearnSpec => HotIsEarned
<1>1. ASSUME LearnInv, [LearnNext]_learnVars PROVE [open' /\ ~open => talked >= 2]_learnVars
  BY <1>1, LearnStep
<1> QED
  BY <1>1, InitLearn, LearnStep, PTL DEF LearnSpec, HotIsEarned
=============================================================================
