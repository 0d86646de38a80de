--------------------------- MODULE ChannelPolicy ---------------------------
(***************************************************************************)
(* How the policy engine (policy/mod.rs) promotes pairs of processes to    *)
(* fast channels and takes the channels away again: the table of observed  *)
(* pairs, the decay of cold pairs, the limit on new channels per window    *)
(* and the cooldown of pairs that lost theirs.                             *)
(*                                                                         *)
(* Which pairs the models (Bayes, GBDT, Q-learning) call hot and which the *)
(* detector calls anomalous is left open: any pairs with traffic may be.   *)
(* A window is one report; everything in it happens inside the interrupt,  *)
(* in one step.                                                            *)
(***************************************************************************)
EXTENDS Integers, Sequences, FiniteSets, SequencesExt

CONSTANTS
  Pairs,                    \* pairs <<from, to>> that exchange messages
  MAX_IPC_PAIRS,            \* slots of ipc_table
  MAX_EVICT_PAIRS,          \* slots of evict_table
  MAX_CHANNELS_PER_WINDOW,
  TopPairs,                 \* how many ranked pairs a report looks at (3)
  DECAY_THRESHOLD,          \* a window with fewer messages is cold
  DECAY_COLD_WINDOWS,       \* cold windows until the channel is taken
  Cooldown,                 \* CHANNEL_RECREATE_COOLDOWN_TICKS
  Intervals,                \* lengths of a report window, in ticks
  Anomalies,                \* whether the detector ever reports one
  MaxCount                  \* bound: messages per pair

ASSUME PolicyConstants ==
  /\ IsFiniteSet(Pairs) /\ <<>> \notin Pairs
  /\ MAX_IPC_PAIRS \in Nat \ {0} /\ MAX_EVICT_PAIRS \in Nat \ {0}
  /\ MAX_CHANNELS_PER_WINDOW \in Nat /\ TopPairs \in Nat /\ DECAY_THRESHOLD \in Nat
  /\ DECAY_COLD_WINDOWS \in Nat \ {0} /\ Cooldown \in Nat /\ Intervals \subseteq Nat \ {0}
  /\ MaxCount \in Nat /\ Anomalies \in BOOLEAN

Slots == 1..MAX_IPC_PAIRS
Pids == {p[1] : p \in Pairs} \cup {p[2] : p \in Pairs}

VARIABLES
  sent,      \* ipc_peer_counts of the sender: messages through the queue
  table,     \* ipc_table: None or [pair, count, last_count, cold]
  channel,   \* the pairs that have a fast channel
  evict,     \* evict_table: sequence of (pair, ticks left until min_tick)
  pinned,    \* AFFINITY: the pids pinned to a core
  preferred, \* the pids whose preferred_cpu is set
  made,      \* channels_this_window
  rested     \* history: ticks since the pair lost its channel, up to Cooldown

policyVars == <<sent, table, channel, evict, pinned, preferred, made, rested>>

None == [pair |-> <<>>]
Active(i) == table[i] # None
SlotOf(p) == {i \in Slots : table[i].pair = p}
NewEntry(p, n) == [pair |-> p, count |-> n, last_count |-> 0, cold |-> 0]

PolicyInit ==
  /\ sent = [p \in Pairs |-> 0]
  /\ table = [i \in Slots |-> None]
  /\ channel = {}
  /\ evict = <<>>
  /\ pinned = {} /\ preferred = {}
  /\ made = 0
  /\ rested = [p \in Pairs |-> Cooldown]

---------------------------------------------------------------------------
(* Sending                                                                 *)

Lowest(S) == CHOOSE i \in S : \A j \in S : i <= j

\* The slot observe_ipc writes: the pair's own, a free one, or the one with
\* the smallest count.
ObserveSlot(p) ==
  LET idle == {i \in Slots : ~Active(i)}
      least == {i \in Slots : \A j \in Slots : table[i].count <= table[j].count}
  IN  CASE SlotOf(p) # {} -> Lowest(SlotOf(p))
        [] SlotOf(p) = {} /\ idle # {} -> Lowest(idle)
        [] OTHER -> Lowest(least)

observe_ipc(p, n) ==
  table' = [table EXCEPT ![ObserveSlot(p)] =
              IF @.pair = p THEN [@ EXCEPT !.count = n] ELSE NewEntry(p, n)]

\* Through the queue: record_ipc_send counts it, observe_ipc learns the count.
\* A message through a channel (send_switchless) changes nothing here: no
\* counter of the policy engine sees it.
send_message(p) ==
  /\ p \notin channel /\ sent[p] < MaxCount
  /\ sent' = [sent EXCEPT ![p] = @ + 1]
  /\ observe_ipc(p, sent[p] + 1)
  /\ UNCHANGED <<channel, evict, pinned, preferred, made, rested>>

---------------------------------------------------------------------------
(* One report window, on a record of the state it works on                 *)

in_evict_cooldown(st, p) == \E i \in 1..Len(st.evict) : st.evict[i][1] = p

\* Mutant: a full table forgets the new eviction.
record_eviction_DropsNew(ev, p) ==
  LET same == {i \in 1..Len(ev) : ev[i][1] = p} IN
  CASE same # {} -> [ev EXCEPT ![Lowest(same)][2] = Cooldown]
    [] same = {} /\ Len(ev) + 1 < MAX_EVICT_PAIRS -> Append(ev, <<p, Cooldown>>)
    [] OTHER -> ev

\* The pair's own slot, a new one, or the slot that ends first.
record_eviction(ev, p) ==
  LET same == {i \in 1..Len(ev) : ev[i][1] = p}
      first == {i \in 1..Len(ev) : \A j \in 1..Len(ev) : ev[i][2] <= ev[j][2]}
  IN  CASE same # {} -> [ev EXCEPT ![Lowest(same)][2] = Cooldown]
        [] same = {} /\ Len(ev) < MAX_EVICT_PAIRS -> Append(ev, <<p, Cooldown>>)
        [] OTHER -> [ev EXCEPT ![Lowest(first)] = <<p, Cooldown>>]

\* expire_evictions: the last entry fills the hole, and is looked at next.
ExpireOne(r, ticks) ==
  LET n == Len(r.left) IN
  IF r.left[r.at][2] > ticks THEN [r EXCEPT !.at = @ + 1]
  ELSE [r EXCEPT !.left = SubSeq([r.left EXCEPT ![r.at] = r.left[n]], 1, n - 1)]

expire_evictions(ev, ticks) ==
  LET round[k \in 0..Len(ev)] ==
        IF k = 0 THEN [at |-> 1, left |-> ev] ELSE ExpireOne(round[k - 1], ticks)
      left == round[Len(ev)].left
  IN  [i \in 1..Len(left) |-> <<left[i][1], left[i][2] - ticks>>]

Pin(st, p) == [st EXCEPT !.pinned = @ \cup {p[1], p[2]}, !.preferred = @ \cup {p[1], p[2]}]

\* A hot pair gets a channel unless it has one, the window's channels are
\* used up, or the pair is cooling down; it is pinned in any case.
Promote(st, p) ==
  IF p \in st.channel \/ st.made >= MAX_CHANNELS_PER_WINDOW \/ in_evict_cooldown(st, p)
    THEN Pin(st, p)
    ELSE Pin([st EXCEPT !.channel = @ \cup {p}, !.made = @ + 1], p)

\* Mutant: the entry goes but the channel stays.
Reclaim_KeepsChannel(st, i, p) ==
  [st EXCEPT !.pinned = @ \ {p[1], p[2]}, !.table[i] = None,
             !.evict = record_eviction(@, p)]

\* drop_channel, unpin of both, the slot and the cooldown.
Reclaim(st, i, p) ==
  [st EXCEPT !.channel = @ \ {p}, !.pinned = @ \ {p[1], p[2]}, !.table[i] = None,
             !.evict = record_eviction(@, p)]

\* Mutant: the channel goes one cold window late.
Decay_OneWindowLate(st, i, anomalies) ==
  LET e == st.table[i]
      p == e.pair
      delta == IF e.count > e.last_count THEN e.count - e.last_count ELSE 0
      seen == [st EXCEPT !.table[i].last_count = e.count]
  IN  CASE e = None -> st
        [] e # None /\ i \in anomalies -> Reclaim(st, i, p)
        [] e # None /\ i \notin anomalies /\ delta < DECAY_THRESHOLD ->
             IF e.cold >= DECAY_COLD_WINDOWS
               THEN [Reclaim(st, i, p) EXCEPT !.preferred = @ \ {p[1], p[2]}]
               ELSE [seen EXCEPT !.table[i].cold = @ + 1]
        [] OTHER -> [seen EXCEPT !.table[i].cold = 0]

\* The decay loop's body for slot i: an anomaly takes the channel at once, a
\* run of cold windows takes it and clears the preferred core.
Decay(st, i, anomalies) ==
  LET e == st.table[i]
      p == e.pair
      delta == IF e.count > e.last_count THEN e.count - e.last_count ELSE 0
      seen == [st EXCEPT !.table[i].last_count = e.count]
  IN  CASE e = None -> st
        [] e # None /\ i \in anomalies -> Reclaim(st, i, p)
        [] e # None /\ i \notin anomalies /\ delta < DECAY_THRESHOLD ->
             IF e.cold + 1 >= DECAY_COLD_WINDOWS
               THEN [Reclaim(st, i, p) EXCEPT !.preferred = @ \ {p[1], p[2]}]
               ELSE [seen EXCEPT !.table[i].cold = @ + 1]
        [] OTHER -> [seen EXCEPT !.table[i].cold = 0]

\* The pairs a report may call hot: at most TopPairs of the observed ones.
HotChoices ==
  LET observed == {table[i].pair : i \in {j \in Slots : Active(j)}}
  IN  {ps \in UNION {[1..n -> observed] : n \in 0..TopPairs} : IsInjective(ps)}

\* The slots whose traffic of this window may look anomalous.
AnomalyChoices ==
  SUBSET {i \in Slots : Anomalies /\ Active(i) /\ table[i].count > table[i].last_count}

\* adapt_and_report, as far as it is about pairs.
adapt_and_report(ticks, hot, anomalies) ==
  LET start == [table |-> table, channel |-> channel, made |-> 0, pinned |-> pinned,
                preferred |-> preferred, evict |-> expire_evictions(evict, ticks)]
      promotion[k \in 0..Len(hot)] ==
        IF k = 0 THEN start ELSE Promote(promotion[k - 1], hot[k])
      promoted == promotion[Len(hot)]
      decay[k \in 0..MAX_IPC_PAIRS] ==
        IF k = 0 THEN promoted ELSE Decay(decay[k - 1], k, anomalies)
      end == decay[MAX_IPC_PAIRS]
  IN  /\ table' = end.table /\ channel' = end.channel /\ made' = end.made
      /\ evict' = end.evict /\ pinned' = end.pinned /\ preferred' = end.preferred
      /\ rested' = [p \in Pairs |->
                      IF p \in promoted.channel /\ p \notin end.channel THEN 0
                      ELSE Min({rested[p] + ticks, Cooldown})]
      /\ UNCHANGED sent

---------------------------------------------------------------------------

Window == \E ticks \in Intervals, hot \in HotChoices, anomalies \in AnomalyChoices :
            adapt_and_report(ticks, hot, anomalies)

PolicyNext == (\E p \in Pairs : send_message(p)) \/ Window

PolicySpec == PolicyInit /\ [][PolicyNext]_policyVars

---------------------------------------------------------------------------
(* Properties                                                              *)

PolicyTypeOK ==
  /\ sent \in [Pairs -> 0..MaxCount]
  /\ table \in [Slots -> {None} \cup
       [pair: Pairs, count: 1..MaxCount, last_count: 0..MaxCount, cold: 0..(DECAY_COLD_WINDOWS - 1)]]
  /\ channel \subseteq Pairs
  /\ Len(evict) <= MAX_EVICT_PAIRS
  /\ \A i \in 1..Len(evict) : evict[i] \in Pairs \X (1..Cooldown)
  /\ pinned \subseteq Pids /\ preferred \subseteq Pids
  /\ made \in 0..MAX_CHANNELS_PER_WINDOW

\* Every channel stands in the table of observed pairs, so that the decay can
\* find it once its traffic ends.
ChannelsTracked == \A p \in channel : SlotOf(p) # {}

\* No pair has two entries.
OneEntryPerPair == \A p \in Pairs : Cardinality(SlotOf(p)) <= 1

\* The processes of a pair that has a channel are pinned, but for those that
\* belong to another pair too, one that has no channel: when that pair loses
\* its channel, unpin does not ask who else needs the process.
ChannelPairsPinned ==
  \A p \in channel : \A x \in {p[1], p[2]} \ pinned :
    \E q \in Pairs \ channel : x \in {q[1], q[2]}

\* The engine keeps account of every channel it opened, once, with its
\* processes pinned.
ChannelsAccounted == ChannelsTracked /\ OneEntryPerPair /\ ChannelPairsPinned

\* Channels are opened sparingly, however often pairs turn hot and cold: at
\* most MAX_CHANNELS_PER_WINDOW in a window, and none for a pair that lost
\* its channel less than Cooldown ticks ago.
OpensSparingly ==
  [][/\ Cardinality(channel' \ channel) <= MAX_CHANNELS_PER_WINDOW
     /\ \A p \in channel' \ channel : rested'[p] >= Cooldown]_policyVars
=============================================================================
