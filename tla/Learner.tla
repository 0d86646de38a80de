------------------------------- MODULE Learner -------------------------------
(***************************************************************************)
(* What the policy engine (policy/mod.rs) learns about one pair of         *)
(* processes and when it calls the pair hot: the Bayesian counters, the    *)
(* four decision trees, the threshold the reinforcement learner moves, the *)
(* detector of spikes and the decay of a quiet pair.  A step is one report *)
(* window; the arithmetic is the code's.                                   *)
(*                                                                         *)
(* The learner explores with a probability that never drops below 5%, so   *)
(* any action may follow any window: its Q table is left out.  The sizes   *)
(* of payloads are left out too: any window may show a payload spike.  The *)
(* other pairs and the switch of the engine are the environment: any       *)
(* window may offer the pair a channel or pass it by.  The table has room: *)
(* what happens when the pair's slot is taken is in ChannelPolicy.         *)
(***************************************************************************)
EXTENDS Integers, FiniteSets, FiniteSetsExt

CONSTANTS Deltas,          \* messages a pair may send in a window
          CoolWindows,     \* CHANNEL_RECREATE_COOLDOWN_TICKS, in windows
          MaxLearn         \* bound: windows

ASSUME LearnAssumption == Deltas \subseteq Nat /\ CoolWindows \in Nat /\ MaxLearn \in Nat

VARIABLES pair,    \* the pair's slot of ipc_table
          total,    \* messages through the queue, ever
          open,     \* the pair has a fast channel
          cooling,  \* windows until it may have one again
          learnt,   \* windows so far
          \* history, since the pair entered the table
          talked,   \* windows with messages
          steady,   \* windows in a row with at least DECAY_THRESHOLD messages
          offered   \* the last window could have opened a channel for the pair

learnVars == <<pair, total, open, cooling, learnt, talked, steady, offered>>

Actions == {"NOOP", "ENCOURAGE", "DISCOURAGE", "PIN_PUSH"}
Larger(a, b) == IF a >= b THEN a ELSE b
Smaller(a, b) == IF a <= b THEN a ELSE b

Fresh == [active |-> TRUE, last_count |-> 0, cold |-> 0, rate_ema |-> 0, alpha |-> 1,
          beta |-> 4, delta_prev |-> 0, action |-> "NOOP"]

----------------------------------------------------------------------------
(* ML 1: the Bayesian counters.                                             *)

\* A plausible bug, once in this code: the gain of a window is not capped.
Gain_Uncapped(delta) == Larger(delta \div 10, 2)

Gain(delta) == Smaller(Larger(delta \div 10, 2), 5)

Alpha(e, delta) ==
    IF delta > 0 THEN Smaller(e.alpha + Gain(delta), 500) ELSE Larger(e.alpha - 3, 1)
Beta(e, delta) == IF delta > 0 THEN Larger(e.beta - 1, 4) ELSE Smaller(e.beta + 1, 500)

BayesScore(e) == (e.alpha * 1000) \div (e.alpha + e.beta + 1)

----------------------------------------------------------------------------
(* ML 2: four trees.                                                        *)

Tree1(e, rate) ==
    IF e.alpha >= 10 THEN (IF e.cold = 0 THEN 200 ELSE IF e.alpha >= 20 THEN 140 ELSE 80)
    ELSE IF rate < 20 THEN 0 ELSE IF e.alpha >= 5 THEN 60 ELSE 20
Tree2(e, rate) ==
    IF rate >= 15
    THEN (IF e.alpha >= 6 THEN 160 ELSE IF e.delta_prev * 10 > e.rate_ema THEN 80 ELSE 30)
    ELSE IF e.alpha >= 8 THEN 60 ELSE 0
Tree3(e, rate) ==
    IF e.cold >= 2 THEN -80
    ELSE IF e.cold = 1 THEN (IF e.alpha >= 12 THEN 40 ELSE -20)
    ELSE IF rate >= 30 THEN 120 ELSE 40
Tree4(e) ==
    IF e.beta <= 5 THEN (IF e.alpha >= 8 THEN 100 ELSE 30)
    ELSE IF e.alpha >= 25 THEN 50 ELSE IF e.beta >= 10 THEN -40 ELSE -10

ml2_gbdt(e) == LET rate == e.rate_ema \div 10
               IN Tree1(e, rate) + Tree2(e, rate) + Tree3(e, rate) + Tree4(e)

----------------------------------------------------------------------------
(* The ensemble.                                                            *)

\* A plausible bug: the learner moves the threshold twice as far.
Threshold_Double(e) == CASE e.action = "ENCOURAGE" -> 140 [] e.action = "DISCOURAGE" -> 460
                         [] OTHER -> 300

\* ML 3 moves the threshold by 80, or pushes past it.
Threshold(e) == CASE e.action = "ENCOURAGE" -> 220 [] e.action = "DISCOURAGE" -> 380
                  [] OTHER -> 300

is_hot(e) ==
    /\ BayesScore(e) >= 650
    /\ ml2_gbdt(e) >= Threshold(e) \/ e.action = "PIN_PUSH"

\* Twenty times the average, once there is an average, and a real volume.
RateSpike(e, delta) == e.rate_ema >= 10 /\ delta >= 200 /\ delta * 10 > e.rate_ema * 20

----------------------------------------------------------------------------
(* One report window.                                                       *)

\* The pair leaves the table; its channel goes with it.
Evict ==
    /\ pair' = [pair EXCEPT !.active = FALSE]
    /\ open' = FALSE /\ cooling' = CoolWindows /\ talked' = 0 /\ steady' = 0
    /\ offered' = FALSE

\* The report promotes first, by what the windows before have taught, and only
\* where offer holds: the pair is among the three best of the table by ml2_gbdt,
\* the engine is on and fewer than MAX_CHANNELS_PER_WINDOW were opened so far.
\* A pair that enters the table again is judged by its messages since boot.
Report(d, payloadSpike, a, offer) ==
    LET e == IF pair.active THEN pair ELSE Fresh
        delta == total + d - e.last_count
        cool == IF cooling > 0 THEN cooling - 1 ELSE 0
        cold == IF delta < 5 THEN e.cold + 1 ELSE 0
    IN IF RateSpike(e, delta) \/ payloadSpike \/ cold >= 2 THEN Evict
       ELSE /\ pair' = [e EXCEPT !.last_count = total + d, !.cold = cold,
                            !.rate_ema = (30 * delta + 7 * @) \div 10,
                            !.alpha = Alpha(e, delta), !.beta = Beta(e, delta),
                            !.delta_prev = delta, !.action = a]
            /\ open' = (open \/ (pair.active /\ offer /\ is_hot(e) /\ cool = 0))
            /\ cooling' = cool
            /\ talked' = talked + (IF delta > 0 THEN 1 ELSE 0)
            /\ steady' = IF delta < 5 THEN 0 ELSE steady + 1
            /\ offered' = offer

\* Messages of a pair that has a channel pass the engine by.
ReportWindow(d, payloadSpike, a, offer) ==
    /\ learnt < MaxLearn /\ learnt' = learnt + 1
    /\ open => d = 0
    /\ total' = total + d
    /\ \/ /\ pair.active \/ d > 0
          /\ payloadSpike => pair.active /\ pair.rate_ema > 0
          /\ Report(d, payloadSpike, a, offer)
       \/ /\ ~pair.active /\ d = 0 /\ ~payloadSpike /\ a = "NOOP" /\ ~offer
          /\ cooling' = IF cooling > 0 THEN cooling - 1 ELSE 0
          /\ UNCHANGED <<pair, open, talked, steady, offered>>

LearnInit ==
    /\ pair = [Fresh EXCEPT !.active = FALSE] /\ total = 0 /\ open = FALSE /\ cooling = 0
    /\ learnt = 0 /\ talked = 0 /\ steady = 0 /\ offered = FALSE

LearnNext ==
    \E d \in Deltas, p \in BOOLEAN, a \in Actions, o \in BOOLEAN : ReportWindow(d, p, a, o)

LearnSpec == LearnInit /\ [][LearnNext]_learnVars

----------------------------------------------------------------------------
(* Properties.                                                              *)

(* The counters stay where the code's clamps put them; a pair has a channel *)
(* only while the table knows it.                                           *)
LearnTypeOK ==
    /\ pair.alpha \in 1 .. 500 /\ pair.beta \in 4 .. 500 /\ pair.cold \in 0 .. 1
    /\ pair.action \in Actions /\ cooling \in 0 .. CoolWindows
    /\ open => pair.active

(* One window opens no channel: whatever it carried, and although a pair     *)
(* that comes back is credited with every message since boot, a pair needs   *)
(* two windows of its own with messages (adapt_and_report).                  *)
HotIsEarned == [][open' /\ ~open => talked >= 2]_learnVars

(* A pair that keeps talking, five messages a window or more, is hot after   *)
(* five such windows and stays it, whatever the learner tries: from the      *)
(* sixth on, the first report that ranks it among the three best, with the   *)
(* engine on and a channel left in the window, leaves it with a channel or   *)
(* still cooling down.                                                       *)
SteadyGetsChannel == steady >= 6 /\ offered => open \/ cooling > 0
=============================================================================
