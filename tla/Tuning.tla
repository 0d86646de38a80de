------------------------------- MODULE Tuning --------------------------------
(***************************************************************************)
(* How the policy engine (policy/mod.rs) tunes the scheduler at the end of *)
(* a report window: the priority of every process from the share of its    *)
(* switches that were voluntary or from how often it maps memory, the      *)
(* length of the next window, how fast the averages follow, the workload   *)
(* profile and the time slice.                                             *)
(*                                                                         *)
(* A process behaves in one of a few ways during a window; a window is one *)
(* step.  The arithmetic is the code's: averages in tenths, division that  *)
(* truncates, shares in thousandths.                                       *)
(***************************************************************************)
EXTENDS Integers, Sequences, FiniteSets, FiniteSetsExt

CONSTANTS MAX_PROCS,    \* slots of stats
          MAX_MEM_ENTRIES, \* slots of mem_table
          Bursts,       \* mmap calls a process makes in a row
          PushSets,     \* processes of the hot pairs whose action is PIN_PUSH in a window
          TunePids,     \* processes, dead ones included
          FirstAlive,   \* those that exist at the start
          Loads,        \* context switches per hundred ticks
          MaxWindows,   \* bound: report windows
          MaxEvents     \* bound: spawns, kills, changes of behaviour, toggles and pushes

ASSUME TuneAssumption ==
    /\ MAX_PROCS \in Nat \ {0} /\ MAX_MEM_ENTRIES \in Nat \ {0} /\ Bursts \subseteq Nat \ {0}
    /\ PushSets \subseteq SUBSET TunePids /\ {} \in PushSets
    /\ FirstAlive \subseteq TunePids
    /\ IsFiniteSet(FirstAlive) /\ Cardinality(FirstAlive) <= MAX_PROCS
    /\ TunePids \subseteq Nat /\ Loads \subseteq Nat
    /\ MaxWindows \in Nat \ {0, 1} /\ MaxEvents \in Nat

VARIABLES stats,     \* the slots: [pid, active, vol_ema, ..., pri_cooldown]
          yields,    \* pid -> <<voluntary_yields, forced_preempts>>, since birth
          pri,       \* pid -> priority
          mood,      \* how a process behaves: "io", "cpu", "mixed" or "idle"
          tAlive,    \* processes not killed
          enabled,   \* POLICY_ENABLED
          level,     \* report_interval_level
          rate_ema,  \* switch_rate_ema
          profile,   \* workload_profile_level
          bias_ema,  \* workload_bias_ema
          slice,     \* TIME_SLICE
          load,      \* context switches per hundred ticks
          mem_table, \* the slots: [pid, active, mmap_calls, last_mmap]
          windows, events,
          \* history
          born,      \* pids handed out: next_pid only grows
          changed,   \* pid -> windows since its class changed its priority
          crowded,   \* pids for which register found no slot
          mapped,    \* pid -> its mmap calls in this window
          hogs,      \* the largest surplus of Low over High processes of a window
          pushed     \* the processes PIN_PUSH raised in the last window

tuneVars == <<stats, yields, pri, mood, tAlive, enabled, level, rate_ema, profile,
              bias_ema, slice, load, mem_table, windows, events, born, changed, crowded, mapped,
              hogs, pushed>>

StatSlots == 1 .. MAX_PROCS
Moods == {"io", "cpu", "mixed", "idle"}
Rank(c) == CASE c = "High" -> 3 [] c = "Normal" -> 2 [] OTHER -> 1
Tenth(x) == IF x >= 0 THEN x \div 10 ELSE -((-x) \div 10)
AbsDiff(x, y) == IF x >= y THEN x - y ELSE y - x

REPORT_INTERVAL_LEVELS == <<8, 18, 36, 72>>
ALPHA_LEVELS == <<1, 2, 3, 4, 5>>
TIME_SLICE_RANGE_LEVELS == <<<<2, 3>>, <<1, 3>>, <<1, 4>>>>
BASELINE_LEVEL == 3              \* 36 ticks, alpha 0.3 and Game: third of their ladders
PRIORITY_COOLDOWN_WINDOWS == 3
MEM_HOT_THRESHOLD == 10

\* What a window of each behaviour adds to a process's switch counters.
Switches(m) == CASE m = "io" -> <<4, 0>> [] m = "cpu" -> <<0, 4>>
                 [] m = "mixed" -> <<2, 2>> [] OTHER -> <<0, 0>>

\* The share of the window a process runs: those that only compute share what
\* the others leave.
RunShare(p) ==
    LET busy == {q \in tAlive : mood[q] = "cpu"}
    IN CASE mood[p] = "cpu" -> 80 \div Cardinality(busy) [] mood[p] = "mixed" -> 15
         [] mood[p] = "io" -> 5 [] OTHER -> 0

----------------------------------------------------------------------------
(* Slots.                                                                   *)

EmptyStat == [pid |-> 0, active |-> FALSE, vol_ema |-> 500, alpha_level |-> BASELINE_LEVEL,
              prev_vol_10 |-> 500, volatility_ema |-> 0, pri_cooldown |-> 0]
find_slot(t, p) == {i \in StatSlots : t[i].active /\ t[i].pid = p}
FreeStats(t) == {i \in StatSlots : ~t[i].active}

\* A full table leaves the process out for good.
register(t, p) ==
    IF find_slot(t, p) # {} \/ FreeStats(t) = {} THEN t
    ELSE [t EXCEPT ![Min(FreeStats(t))] = [EmptyStat EXCEPT !.pid = p, !.active = TRUE]]

\* A plausible bug, once in this code: a dead process keeps its slot.
unregister_Never(t, p) == t

unregister(t, p) ==
    IF find_slot(t, p) = {} THEN t ELSE [t EXCEPT ![Min(find_slot(t, p))].active = FALSE]

----------------------------------------------------------------------------
(* Memory pressure.  Page faults only claim a slot: nothing reads their     *)
(* number but the report.                                                   *)

MemSlots == 1 .. MAX_MEM_ENTRIES
MemOf(p) == {i \in MemSlots : mem_table[i].active /\ mem_table[i].pid = p}
FreeMem == {i \in MemSlots : ~mem_table[i].active}
MemEntry(p, n) == [pid |-> p, active |-> TRUE, mmap_calls |-> n, last_mmap |-> 0]

\* n calls in a row: the process's own slot, a free one, or the one with the
\* fewest calls.
observe_mmap(p, n) ==
    LET fewest == {i \in MemSlots : \A j \in MemSlots :
                      mem_table[i].mmap_calls <= mem_table[j].mmap_calls}
    IN IF MemOf(p) # {} THEN [mem_table EXCEPT ![Min(MemOf(p))].mmap_calls = @ + n]
       ELSE [mem_table EXCEPT ![Min(IF FreeMem # {} THEN FreeMem ELSE fewest)] = MemEntry(p, n)]

\* A fault in a full table is not counted.
observe_page_fault(p) ==
    IF MemOf(p) # {} \/ FreeMem = {} THEN mem_table
    ELSE [mem_table EXCEPT ![Min(FreeMem)] = MemEntry(p, 0)]

\* Boosted past the cooldown, whether or not the process still lives.
MemHot == {mem_table[i].pid : i \in {j \in MemSlots :
              /\ mem_table[j].active
              /\ mem_table[j].mmap_calls - mem_table[j].last_mmap >= MEM_HOT_THRESHOLD}}
SettleMem == [i \in MemSlots |-> [mem_table[i] EXCEPT !.last_mmap = mem_table[i].mmap_calls]]

----------------------------------------------------------------------------
(* One window.                                                              *)

\* One step of a ladder towards the target.
OneStep(cur, target) ==
    IF target > cur THEN cur + 1 ELSE IF target < cur THEN cur - 1 ELSE cur

\* ST-1.  Too few switches leave the average and the level alone.
SwitchCount == (load * REPORT_INTERVAL_LEVELS[level]) \div 100
TuneInterval ==
    LET few == SwitchCount < 5
        ema == (3 * ((SwitchCount * 10) \div REPORT_INTERVAL_LEVELS[level]) + 7 * rate_ema) \div 10
        target == IF ema >= 15 THEN 1 ELSE IF ema <= 3 THEN 4 ELSE BASELINE_LEVEL
    IN /\ rate_ema' = IF enabled /\ ~few THEN ema ELSE rate_ema
       /\ level' = IF ~enabled THEN BASELINE_LEVEL
                   ELSE IF few THEN level ELSE OneStep(level, target)

\* The counters are totals since birth: the share is that of a lifetime.
VolShare(s) ==
    LET v == yields'[s.pid][1] f == yields'[s.pid][2]
    IN IF v + f = 0 THEN s.vol_ema ELSE (v * 1000) \div (v + f)

VolEma(s) == LET a == ALPHA_LEVELS[s.alpha_level]
             IN (a * VolShare(s) + (10 - a) * s.vol_ema) \div 10

\* ST-2.
TuneAlpha(s) ==
    LET cur == VolShare(s)
        ema == (3 * AbsDiff(cur, s.prev_vol_10) * 10 + 7 * s.volatility_ema) \div 10
        target == IF ema >= 3000 THEN 5 ELSE IF ema <= 500 THEN 1 ELSE BASELINE_LEVEL
    IN IF yields'[s.pid][1] + yields'[s.pid][2] < 5 THEN s
       ELSE [s EXCEPT !.prev_vol_10 = cur, !.volatility_ema = ema,
                      !.alpha_level = OneStep(s.alpha_level, target)]

ClassOf(ema) == IF ema >= 600 THEN "High" ELSE IF ema <= 200 THEN "Low" ELSE "Normal"
NewClass(s) == ClassOf(VolEma(s))

\* A plausible bug: a change forgets to start the cooldown.
CooldownAfter_NotSet(s, changes) == IF s.pri_cooldown > 0 THEN s.pri_cooldown - 1 ELSE 0

\* The cooldown a change starts is already counted down in its own window.
CooldownAfter(s, changes) ==
    LET c == IF changes THEN PRIORITY_COOLDOWN_WINDOWS ELSE s.pri_cooldown
    IN IF c > 0 THEN c - 1 ELSE 0

Changes(s) == s.active /\ enabled /\ pri[s.pid] # NewClass(s) /\ s.pri_cooldown = 0
Reclassified == {stats[i].pid : i \in {j \in StatSlots : Changes(stats[j])}}

TuneStat(s) ==
    IF ~s.active THEN s
    ELSE [TuneAlpha(s) EXCEPT !.vol_ema = VolEma(s),
                              !.pri_cooldown = IF enabled THEN CooldownAfter(s, Changes(s)) ELSE @]

Classified(c) == Cardinality({i \in StatSlots : stats[i].active /\ NewClass(stats[i]) = c})

\* A plausible bug: the threshold is not scaled like the average.
BiasTarget_Unscaled(ema) == IF ema <= -2 THEN 1 ELSE BASELINE_LEVEL

\* Baseline and Game are the same level.
BiasTarget(ema) == IF ema <= -20 THEN 1 ELSE BASELINE_LEVEL

\* ST-4.
TuneProfile ==
    LET high == Classified("High") low == Classified("Low")
        ema == Tenth(3 * (high - low) * 10 + 7 * bias_ema)
        sampled == high + low >= 2
    IN /\ bias_ema' = IF enabled /\ sampled THEN ema ELSE bias_ema
       /\ profile' = IF ~enabled THEN BASELINE_LEVEL
                     ELSE IF sampled THEN OneStep(profile, BiasTarget(ema)) ELSE profile

\* ST-3, with the profile of this window.
TuneSlice ==
    LET shares == {RunShare(stats[i].pid) : i \in {j \in StatSlots : stats[j].active}}
        busiest == IF shares = {} THEN 0 ELSE Max(shares)
        raw == IF busiest >= 70 THEN 1 ELSE IF busiest >= 40 THEN 2 ELSE 3
        range == TIME_SLICE_RANGE_LEVELS[profile']
    IN slice' = IF enabled THEN Min({Max({raw, range[1]}), range[2]}) ELSE 3

\* The classes come first, then the hot pairs whose action is PIN_PUSH (which
\* ones is the Learner's business: any set of PushSets), then the memory table.
TuneReport ==
    /\ windows < MaxWindows /\ windows' = windows + 1
    /\ yields' = [p \in TunePids |->
                     IF p \in tAlive THEN <<yields[p][1] + Switches(mood[p])[1],
                                            yields[p][2] + Switches(mood[p])[2]>>
                     ELSE yields[p]]
    /\ TuneInterval
    /\ stats' = [i \in StatSlots |-> TuneStat(stats[i])]
    /\ pushed' \in IF enabled /\ events < MaxEvents THEN PushSets ELSE {{}}
    /\ events' = events + (IF pushed' = {} THEN 0 ELSE 1)
    /\ pri' = [p \in TunePids |->
                  IF (p \in MemHot /\ enabled) \/ p \in pushed' THEN "High"
                  ELSE IF p \in Reclassified THEN NewClass(stats[Min(find_slot(stats, p))])
                  ELSE pri[p]]
    /\ mem_table' = SettleMem /\ mapped' = [p \in TunePids |-> 0]
    /\ TuneProfile /\ TuneSlice
    /\ changed' = [p \in TunePids |-> IF p \in Reclassified THEN 0
                                      ELSE Min({changed[p] + 1, MaxWindows})]
    /\ hogs' = Max({hogs, Classified("Low") - Classified("High")})
    /\ UNCHANGED <<mood, tAlive, enabled, load, born, crowded>>

----------------------------------------------------------------------------
(* What happens between windows.                                            *)

Event == events < MaxEvents /\ events' = events + 1

Spawn(p) ==
    /\ Event /\ p \notin born /\ born' = born \cup {p}
    /\ tAlive' = tAlive \cup {p}
    /\ stats' = register(stats, p)
    /\ crowded' = IF FreeStats(stats) = {} THEN crowded \cup {p} ELSE crowded
    /\ UNCHANGED <<yields, pri, mood, enabled, level, rate_ema, profile, bias_ema, slice,
                   load, mem_table, windows, changed, mapped, hogs, pushed>>

Kill(p) ==
    /\ Event /\ p \in tAlive /\ tAlive' = tAlive \ {p}
    /\ stats' = unregister(stats, p)
    /\ UNCHANGED <<yields, pri, mood, enabled, level, rate_ema, profile, bias_ema, slice,
                   load, mem_table, windows, born, changed, crowded, mapped, hogs, pushed>>

Behave(p, m) ==
    /\ Event /\ p \in tAlive /\ mood[p] # m /\ mood' = [mood EXCEPT ![p] = m]
    /\ UNCHANGED <<stats, yields, pri, tAlive, enabled, level, rate_ema, profile, bias_ema,
                   slice, load, mem_table, windows, born, changed, crowded, mapped, hogs, pushed>>

set_enabled(on) ==
    /\ Event /\ enabled # on /\ enabled' = on
    /\ UNCHANGED <<stats, yields, pri, mood, tAlive, level, rate_ema, profile, bias_ema, slice,
                   load, mem_table, windows, born, changed, crowded, mapped, hogs, pushed>>

ChangeLoad(l) ==
    /\ Event /\ load # l /\ load' = l
    /\ UNCHANGED <<stats, yields, pri, mood, tAlive, enabled, level, rate_ema, profile,
                   bias_ema, slice, mem_table, windows, born, changed, crowded, mapped, hogs, pushed>>

mmap(p, n) ==
    /\ Event /\ p \in tAlive
    /\ mem_table' = observe_mmap(p, n)
    /\ mapped' = [mapped EXCEPT ![p] = @ + n]
    /\ UNCHANGED <<stats, yields, pri, mood, tAlive, enabled, level, rate_ema, profile,
                   bias_ema, slice, load, windows, born, changed, crowded, hogs, pushed>>

page_fault(p) ==
    /\ Event /\ p \in tAlive
    /\ mem_table' = observe_page_fault(p)
    /\ UNCHANGED <<stats, yields, pri, mood, tAlive, enabled, level, rate_ema, profile,
                   bias_ema, slice, load, windows, born, changed, crowded, mapped, hogs, pushed>>

TuneInit ==
    /\ tAlive = FirstAlive /\ born = FirstAlive
    /\ \E q \in [1 .. Cardinality(FirstAlive) -> FirstAlive] :
          /\ \A i, j \in DOMAIN q : i < j => q[i] < q[j]
          /\ stats = [i \in StatSlots |->
                         IF i \in DOMAIN q THEN [EmptyStat EXCEPT !.pid = q[i], !.active = TRUE]
                         ELSE EmptyStat]
    /\ yields = [p \in TunePids |-> <<0, 0>>]
    /\ pri = [p \in TunePids |-> "Normal"]
    /\ mood \in {[p \in TunePids |-> IF p < n THEN "io" ELSE "cpu"] : n \in TunePids}
    /\ enabled = TRUE
    /\ level = BASELINE_LEVEL /\ rate_ema = 0 /\ profile = BASELINE_LEVEL /\ bias_ema = 0
    /\ mem_table = [i \in MemSlots |-> [MemEntry(0, 0) EXCEPT !.active = FALSE]]
    /\ mapped = [p \in TunePids |-> 0]
    /\ slice = 3 /\ load \in Loads /\ windows = 0 /\ events = 0
    /\ changed = [p \in TunePids |-> MaxWindows] /\ crowded = {} /\ hogs = 0 /\ pushed = {}

TuneNext ==
    \/ TuneReport
    \/ \E p \in TunePids : Spawn(p) \/ Kill(p) \/ page_fault(p)
    \/ \E p \in TunePids, m \in Moods : Behave(p, m)
    \/ \E p \in TunePids, n \in Bursts : mmap(p, n)
    \/ \E on \in BOOLEAN : set_enabled(on)
    \/ \E l \in Loads : ChangeLoad(l)

TuneSpec == TuneInit /\ [][TuneNext]_tuneVars

----------------------------------------------------------------------------
(* Properties.                                                              *)

Permille == 0 .. 1000
Volatility == 0 .. 10000
AlphaLevel == 1 .. 5
Cooldown == 0 .. 2

TuneTypeOK ==
    /\ \A i \in StatSlots : /\ stats[i].vol_ema \in Permille
                            /\ stats[i].alpha_level \in AlphaLevel
                            /\ stats[i].pri_cooldown \in Cooldown
                            /\ stats[i].volatility_ema \in Volatility
    /\ level \in 1 .. 4 /\ profile \in 1 .. 3 /\ slice \in 1 .. 3
    /\ pri \in [TunePids -> {"High", "Normal", "Low"}]

(* The engine watches the living: every slot in use belongs to a live        *)
(* process, no process has two, and only one born into a full table has none.*)
WatchesTheLiving ==
    /\ \A i \in StatSlots : stats[i].active => stats[i].pid \in tAlive
    /\ \A p \in tAlive : Cardinality(find_slot(stats, p)) = IF p \in crowded THEN 0 ELSE 1

(* A priority moves only with cause.  It is not lowered in the two windows   *)
(* after the class of the process changed it, however the process behaves,   *)
(* whatever boosts came in between and whether the engine was off meanwhile. *)
(* And a process that gains a priority its class does not give it belongs to *)
(* a hot pair that PIN_PUSH raised, which the code does past every cooldown, *)
(* or mapped memory ten times in this very window, although slots of the     *)
(* table change hands and are never cleaned.                                 *)
PriorityMovesWithCause ==
    [][\A p \in TunePids :
          /\ Rank(pri'[p]) < Rank(pri[p]) => changed[p] >= 2
          /\ Rank(pri'[p]) > Rank(pri[p]) =>
                \/ mapped[p] >= MEM_HOT_THRESHOLD
                \/ p \in Reclassified
                \/ p \in pushed']_tuneVars

(* Build mode needs a crowd: a window in which three more processes hog the  *)
(* processor than yield it must come first.  The truncated average of a      *)
(* surplus of two stops at -1.7, above the threshold of -2.                  *)
BuildNeedsThree == profile # BASELINE_LEVEL => hogs >= 3
=============================================================================
