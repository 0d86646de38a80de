----------------------------- MODULE IpcProofs ------------------------------
(***************************************************************************)
(* Proofs about Ipc while channels are not reclaimed: the queue and the    *)
(* fast channels together refine Mailbox, and a message is overtaken only  *)
(* in the queue.  For every number of senders, messages, capabilities and  *)
(* frames, and also while other parts of the kernel take frames.           *)
(*                                                                         *)
(* The argument: a channel keeps its capability and its frame, so what a   *)
(* sender looked up stays true; between the end of its wait and its ring   *)
(* the doorbell is 0, so nobody else touches the frame; and between the    *)
(* receiver's look at the doorbell and its clear no sender gets past the   *)
(* wait.                                                                   *)
(***************************************************************************)
EXTENDS Ipc, FiniteSetTheorems, TLAPS

\* Channels are never reclaimed, no two of them share a doorbell, and every
\* message has a length that the doorbell can show.
Reliable == ~AllowDrop /\ MaxCaps <= SwSlots /\ 0 \notin Lens

FrameOf(s) == buffers[channels[s]]
Rung(s) == channels[s] # NoCap /\ doorbell[sw_slot(channels[s])] # 0
Polled == rlist[1][2]
Sending(s) == spc[s] \in {"fetch", "spin", "write", "ring"}

\* A message whose send has ended.
Done(m) ==
  /\ m \in Msg
  /\ m[2] <= sent[m[1]]
  /\ spc[m[1]] # "idle" => m[2] < sent[m[1]]

\* A channel has an id that was handed out and a frame of its own.
ChannelsSound ==
  \A s \in SenderPids : channels[s] # NoCap =>
    /\ channels[s] < nextCap
    /\ FrameOf(s) \in Frames /\ owner[FrameOf(s)] = "channel"
    /\ \A t \in SenderPids \ {s} : channels[t] # NoCap =>
         channels[t] # channels[s] /\ FrameOf(t) # FrameOf(s)

\* What a sender looked up is still so, and from the end of its wait to its
\* ring its frame is its own.
SendersSound ==
  \A s \in SenderPids :
    /\ spc[s] # "idle" => slen[s] \in Lens /\ sent[s] >= 1
    /\ Sending(s) => channels[s] # NoCap /\ scap[s] = channels[s]
    /\ spc[s] \in {"spin", "write", "ring"} => sva[s] = FrameOf(s)
    /\ spc[s] \in {"push", "write", "ring"} => ~Rung(s)
    /\ spc[s] = "ring" => memory[FrameOf(s)] = Current(s)

\* The receiver polls channels that exist, and what it copies is what the
\* frame holds until it clears the doorbell.
ReceiverSound ==
  /\ \A i \in 1..Len(rlist) : channels[rlist[i][2]] = rlist[i][1]
  /\ rpc \in {"read", "clear"} => rlist # <<>> /\ Rung(rlist[1][2])
  /\ rpc = "clear" => rbuf = memory[FrameOf(rlist[1][2])]

\* A frame whose doorbell is set holds a message of its sender that is
\* nowhere else, and no older than those of the queue.
RungSound ==
  \A s \in SenderPids : Rung(s) =>
    /\ Done(memory[FrameOf(s)]) /\ memory[FrameOf(s)][1] = s
    /\ \A i \in 1..Len(queue) : queue[i][1] = s => queue[i][2] < memory[FrameOf(s)][2]
    /\ \A i \in 1..Len(got) : got[i][2] # memory[FrameOf(s)]

\* The queue holds messages that are nowhere else, in the order of sending.
QueueSound ==
  /\ \A i \in 1..Len(queue) : Done(queue[i])
  /\ \A i, j \in 1..Len(queue) : i < j /\ queue[i][1] = queue[j][1] => queue[i][2] < queue[j][2]
  /\ \A i \in 1..Len(queue), j \in 1..Len(got) : got[j][2] # queue[i]

\* What was received had been sent, and what was accepted is received or on
\* its way.
AcceptedSound ==
  /\ \A i \in 1..Len(got) : Done(got[i][2])
  /\ \A m \in accepted :
       \/ \E i \in 1..Len(got) : got[i][2] = m
       \/ \E i \in 1..Len(queue) : queue[i] = m
       \/ \E s \in SenderPids : Rung(s) /\ memory[FrameOf(s)] = m

\* A step that neither sends nor receives.
Quiet ==
  /\ UNCHANGED <<queue, accepted, got>>
  /\ \A t \in SenderPids :
       /\ Rung(t)' <=> Rung(t)
       /\ Rung(t) => memory'[FrameOf(t)'] = memory[FrameOf(t)]

\* The inductive invariant.
IpcInv ==
  /\ TypeOK /\ ChannelsSound /\ SendersSound /\ ReceiverSound
  /\ RungSound /\ QueueSound /\ AcceptedSound

---------------------------------------------------------------------------

\* Doorbells exist, and within one turn of sw_slot no two ids share one.
LEMMA SlotFacts ==
  /\ \A c \in CapId : sw_slot(c) \in 0..(SwSlots - 1)
  /\ MaxCaps <= SwSlots => \A c, d \in CapId : sw_slot(c) = sw_slot(d) => c = d
<1>1. \A c \in CapId : sw_slot(c) \in 0..(SwSlots - 1)
  BY IpcConstants DEF CapId, sw_slot
<1>2. ASSUME MaxCaps <= SwSlots, NEW c \in CapId
      PROVE  sw_slot(c) = IF c = SwSlots THEN 0 ELSE c
  BY <1>2, IpcConstants DEF CapId, sw_slot
<1>3. ASSUME MaxCaps <= SwSlots, NEW c \in CapId, NEW d \in CapId, sw_slot(c) = sw_slot(d)
      PROVE  c = d
  BY <1>2, <1>3 DEF CapId
<1> QED
  BY <1>1, <1>3

\* The invariant holds at the start.
LEMMA InitIpc == Init => IpcInv
<1> SUFFICES ASSUME Init PROVE IpcInv
  OBVIOUS
<1> USE DEF Init
<1>1. TypeOK
  BY IpcConstants DEF TypeOK
<1> QED
  BY <1>1 DEF IpcInv, ChannelsSound, SendersSound, Sending, ReceiverSound, RungSound, Rung, QueueSound, AcceptedSound

\* A quiet step keeps what is said of the messages on their way.
LEMMA QuietStep ==
  ASSUME IpcInv, Quiet, \A m : Done(m) => Done(m)'
  PROVE  RungSound' /\ QueueSound' /\ AcceptedSound'
<1> USE DEF IpcInv, Quiet
<1>1. RungSound'
  BY DEF RungSound
<1>2. QueueSound'
  BY DEF QueueSound
<1>3. AcceptedSound'
  BY DEF AcceptedSound
<1> QED
  BY <1>1, <1>2, <1>3

\* send looks its channel up.
LEMMA Lookup ==
  ASSUME Reliable, IpcInv, NEW s \in SenderPids, NEW len \in Lens, SendLookup(s, len)
  PROVE  IpcInv' /\ Quiet
<1> USE DEF IpcInv, SendLookup, channelVars, receiverVars
<1>1. TypeOK'
  <2>1. sent' \in [SenderPids -> 0..MaxMsgs]
    BY IpcConstants DEF TypeOK
  <2> QED
    BY <2>1 DEF TypeOK
<1>2. ChannelsSound'
  BY DEF ChannelsSound, FrameOf
<1>3. SendersSound'
  BY DEF SendersSound, FrameOf, Rung, Sending, TypeOK, NoCap, Current
<1>4. ReceiverSound'
  BY DEF ReceiverSound, FrameOf, Rung
<1>5. \A m : Done(m) => Done(m)'
  BY DEF Done, TypeOK, Msg, MsgIds
<1>6. Quiet
  BY DEF Quiet, Rung, FrameOf
<1>7. RungSound' /\ QueueSound' /\ AcceptedSound'
  BY <1>5, <1>6, QuietStep
<1> QED
  BY <1>1, <1>2, <1>3, <1>4, <1>6, <1>7

\* send_switchless finds the buffer of a channel that is never reclaimed.
LEMMA Fetch ==
  ASSUME Reliable, IpcInv, NEW s \in SenderPids, SwitchlessFetch(s)
  PROVE  IpcInv' /\ Quiet
<1> USE DEF IpcInv, SwitchlessFetch, channelVars, receiverVars
<1>0. buffers[scap[s]] \in Frames /\ buffers[scap[s]] # NoFrame
  BY IpcConstants DEF SendersSound, Sending, ChannelsSound, FrameOf, NoFrame
<1>1. TypeOK'
  BY <1>0 DEF TypeOK
<1>2. ChannelsSound'
  BY DEF ChannelsSound, FrameOf
<1>3. SendersSound'
  BY <1>0 DEF SendersSound, FrameOf, Rung, Sending, TypeOK, Current
<1>4. ReceiverSound'
  BY DEF ReceiverSound, FrameOf, Rung
<1>5. \A m : Done(m) => Done(m)'
  BY <1>0 DEF Done, TypeOK, Msg, MsgIds
<1>6. Quiet
  BY DEF Quiet, Rung, FrameOf
<1>7. RungSound' /\ QueueSound' /\ AcceptedSound'
  BY <1>5, <1>6, QuietStep
<1> QED
  BY <1>1, <1>2, <1>3, <1>4, <1>6, <1>7

\* The wait ends with the doorbell at 0.
LEMMA Spin ==
  ASSUME Reliable, IpcInv, NEW s \in SenderPids, SwitchlessSpin(s)
  PROVE  IpcInv' /\ Quiet
<1> USE DEF IpcInv, SwitchlessSpin, channelVars, receiverVars
<1>1. TypeOK'
  BY DEF TypeOK
<1>2. ChannelsSound'
  BY DEF ChannelsSound, FrameOf
<1>3. SendersSound'
  BY DEF SendersSound, FrameOf, Rung, Sending, TypeOK, Current
<1>4. ReceiverSound'
  BY DEF ReceiverSound, FrameOf, Rung
<1>5. \A m : Done(m) => Done(m)'
  BY DEF Done, TypeOK, Msg, MsgIds
<1>6. Quiet
  BY DEF Quiet, Rung, FrameOf
<1>7. RungSound' /\ QueueSound' /\ AcceptedSound'
  BY <1>5, <1>6, QuietStep
<1> QED
  BY <1>1, <1>2, <1>3, <1>4, <1>6, <1>7

\* The sender writes its own frame, whose doorbell is 0.
LEMMA Write ==
  ASSUME Reliable, IpcInv, NEW s \in SenderPids, SwitchlessWrite(s)
  PROVE  IpcInv' /\ Quiet
<1> USE DEF IpcInv, SwitchlessWrite, channelVars, receiverVars
<1>0. /\ sva[s] = FrameOf(s) /\ FrameOf(s) \in Frames /\ channels[s] # NoCap /\ ~Rung(s)
      /\ Current(s) \in Msg
  BY DEF SendersSound, Sending, ChannelsSound, TypeOK, Current, Msg, MsgIds
<1>1. TypeOK'
  BY <1>0 DEF TypeOK, Current
<1>2. ChannelsSound'
  BY DEF ChannelsSound, FrameOf
<1>3. SendersSound'
  BY <1>0 DEF SendersSound, ChannelsSound, FrameOf, Rung, Sending, TypeOK, Current
<1>a. \A t \in SenderPids : Rung(t) => memory'[FrameOf(t)] = memory[FrameOf(t)]
  BY <1>0 DEF ChannelsSound, TypeOK, Rung
<1>4. ReceiverSound'
  <2>1. rlist # <<>> => rlist[1][2] \in SenderPids
    BY DEF TypeOK
  <2> QED
    BY <1>a, <2>1 DEF ReceiverSound, FrameOf, Rung
<1>5. \A m : Done(m) => Done(m)'
  BY DEF Done, TypeOK, Msg, MsgIds
<1>6. Quiet
  BY <1>a DEF Quiet, Rung, FrameOf
<1>7. RungSound' /\ QueueSound' /\ AcceptedSound'
  BY <1>5, <1>6, QuietStep
<1> QED
  BY <1>1, <1>2, <1>3, <1>4, <1>6, <1>7

\* What a message that is about to be accepted has to do with the others.
LEMMA NewMessage ==
  ASSUME IpcInv, NEW s \in SenderPids, spc[s] # "idle"
  PROVE  /\ Current(s) \in Msg /\ Current(s)[1] = s /\ Current(s)[2] = sent[s]
         /\ ~Done(Current(s))
         /\ \A m : Done(m) /\ m[1] = s => m[2] < sent[s]
         /\ \A i \in 1..Len(got) : got[i][2] # Current(s)
         /\ \A i \in 1..Len(queue) : queue[i] # Current(s)
         /\ \A t \in SenderPids : Rung(t) => memory[FrameOf(t)] # Current(s)
<1> USE DEF IpcInv
<1>1. /\ Current(s) \in Msg /\ Current(s)[1] = s /\ Current(s)[2] = sent[s]
      /\ sent[s] \in Nat
  BY DEF SendersSound, TypeOK, Current, Msg, MsgIds
<1>2. \A m : Done(m) /\ m[1] = s => m[2] < sent[s]
  BY DEF Done
<1>3. ~Done(Current(s))
  BY <1>1, <1>2
<1> QED
  BY <1>1, <1>2, <1>3 DEF RungSound, QueueSound, AcceptedSound

\* send_message puts a new message behind all others of its sender.
LEMMA Push ==
  ASSUME Reliable, IpcInv, NEW s \in SenderPids, send_message(s)
  PROVE  IpcInv'
<1> USE DEF IpcInv, send_message, channelVars, receiverVars
<1>0. /\ Current(s) \in Msg /\ Current(s)[1] = s /\ Current(s)[2] = sent[s] /\ ~Rung(s)
      /\ \A m : Done(m) /\ m[1] = s => m[2] < sent[s]
      /\ \A i \in 1..Len(got) : got[i][2] # Current(s)
      /\ queue \in Seq(Msg)
  BY NewMessage DEF SendersSound, TypeOK
<1>q. /\ Len(queue') = Len(queue) + 1 /\ Len(queue) \in Nat
      /\ queue'[Len(queue) + 1] = Current(s)
      /\ \A i \in 1..Len(queue) : queue'[i] = queue[i]
  BY <1>0
<1>1. TypeOK'
  <2>1. queue' \in Seq(Msg) /\ accepted' \subseteq Msg
    BY <1>0 DEF TypeOK
  <2> QED
    BY <2>1 DEF TypeOK
<1>2. ChannelsSound'
  BY DEF ChannelsSound, FrameOf
<1>3. SendersSound'
  BY DEF SendersSound, FrameOf, Rung, Sending, TypeOK, Current
<1>4. ReceiverSound'
  BY DEF ReceiverSound, FrameOf, Rung
<1>5. \A m : Done(m) => Done(m)'
  BY DEF Done, TypeOK, Msg, MsgIds
<1>d. Done(Current(s))'
  BY <1>0 DEF Done, TypeOK, Current
<1>6. RungSound'
  <2>1. \A t \in SenderPids : Rung(t) => t # s
    BY <1>0
  <2> QED
    BY <1>0, <1>q, <1>5, <2>1 DEF RungSound, FrameOf, Rung
<1>7. QueueSound'
  <2>1. \A i \in 1..Len(queue') : i \in 1..Len(queue) \/ i = Len(queue) + 1
    BY <1>q
  <2>2. \A i \in 1..Len(queue') : Done(queue[i])'
    BY <1>q, <1>5, <1>d, <2>1 DEF QueueSound, Current
  <2>3. ASSUME NEW i \in 1..Len(queue'), NEW j \in 1..Len(queue'), i < j,
               queue'[i][1] = queue'[j][1]
        PROVE  queue'[i][2] < queue'[j][2]
    <3>1. i \in 1..Len(queue)
      BY <1>q, <2>3
    <3> QED
      BY <1>0, <1>q, <2>1, <2>3, <3>1 DEF QueueSound
  <2>4. \A i \in 1..Len(queue'), j \in 1..Len(got) : got[j][2] # queue'[i]
    <3>1. \A i \in 1..Len(queue), j \in 1..Len(got) : got[j][2] # queue[i]
      BY DEF QueueSound
    <3> HIDE DEF IpcInv, send_message
    <3> QED
      BY <1>0, <1>q, <2>1, <3>1
  <2> QED
    BY <2>2, <2>3, <2>4 DEF QueueSound
<1>8. AcceptedSound'
  BY <1>0, <1>q, <1>5, <1>d DEF AcceptedSound, FrameOf, Rung
<1> QED
  BY <1>1, <1>2, <1>3, <1>4, <1>6, <1>7, <1>8

\* The ring sets the doorbell of the sender's channel and no other.
LEMMA RingRings ==
  ASSUME Reliable, IpcInv, NEW s \in SenderPids, SwitchlessRing(s)
  PROVE  Rung(s)' /\ \A t \in SenderPids \ {s} : Rung(t)' = Rung(t)
<1> USE DEF IpcInv, SwitchlessRing, channelVars
<1>0. channels[s] \in CapId /\ scap[s] = channels[s]
  BY DEF SendersSound, TypeOK, Sending
<1>1. /\ sw_slot(channels[s]) \in 0..(SwSlots - 1)
      /\ \A t \in SenderPids \ {s} : channels[t] # NoCap => sw_slot(channels[t]) # sw_slot(channels[s])
  BY <1>0, SlotFacts DEF Reliable, ChannelsSound, TypeOK
<1>2. slen[s] # 0
  BY DEF Reliable, SendersSound
<1>3. Rung(s)'
  BY <1>0, <1>1, <1>2 DEF Rung, TypeOK, CapId, NoCap
<1>4. ASSUME NEW t \in SenderPids \ {s}, channels[t] # NoCap
      PROVE  doorbell'[sw_slot(channels[t])] = doorbell[sw_slot(channels[t])]
  BY <1>0, <1>1, <1>4, SlotFacts DEF TypeOK
<1> QED
  BY <1>3, <1>4 DEF Rung

\* The ring turns the written frame into a message on its way.
LEMMA Ring ==
  ASSUME Reliable, IpcInv, NEW s \in SenderPids, SwitchlessRing(s)
  PROVE  IpcInv'
<1> USE DEF IpcInv, SwitchlessRing, channelVars, receiverVars
<1>0. /\ Current(s) \in Msg /\ Current(s)[1] = s /\ Current(s)[2] = sent[s] /\ ~Rung(s)
      /\ \A m : Done(m) /\ m[1] = s => m[2] < sent[s]
      /\ \A i \in 1..Len(got) : got[i][2] # Current(s)
      /\ channels[s] \in CapId /\ scap[s] = channels[s]
      /\ memory[FrameOf(s)] = Current(s)
  BY NewMessage DEF SendersSound, TypeOK, Sending
<1>1. TypeOK'
  BY <1>0 DEF TypeOK
<1>2. ChannelsSound'
  BY DEF ChannelsSound, FrameOf
<1>r. Rung(s)' /\ \A t \in SenderPids \ {s} : Rung(t)' = Rung(t)
  BY RingRings
<1>3. SendersSound'
  BY <1>r DEF SendersSound, FrameOf, Sending, TypeOK, Current
<1>4. ReceiverSound'
  <2>1. rlist # <<>> => rlist[1][2] \in SenderPids
    BY DEF TypeOK
  <2> QED
    BY <1>r, <2>1 DEF ReceiverSound, FrameOf
<1>5. \A m : Done(m) => Done(m)'
  BY DEF Done, TypeOK, Msg, MsgIds
<1>d. Done(Current(s))'
  BY <1>0 DEF Done, TypeOK, Current
<1>6. RungSound'
  <2>1. ASSUME NEW t \in SenderPids \ {s}, Rung(t)
        PROVE  /\ Done(memory[FrameOf(t)])' /\ memory[FrameOf(t)][1] = t
               /\ \A i \in 1..Len(queue) : queue[i][1] = t => queue[i][2] < memory[FrameOf(t)][2]
               /\ \A i \in 1..Len(got) : got[i][2] # memory[FrameOf(t)]
    BY <2>1, <1>5 DEF RungSound, FrameOf
  <2>2. Done(memory[FrameOf(s)])'
    BY <1>0, <1>d DEF FrameOf, Current
  <2>3. \A i \in 1..Len(queue) : queue[i][1] = s => queue[i][2] < sent[s]
    BY <1>0 DEF QueueSound
  <2> QED
    BY <1>0, <1>r, <2>1, <2>2, <2>3 DEF RungSound, FrameOf
<1>7. QueueSound'
  BY <1>5 DEF QueueSound
<1>8. AcceptedSound'
  BY <1>0, <1>r, <1>5, <1>d DEF AcceptedSound, FrameOf
<1> QED
  BY <1>1, <1>2, <1>3, <1>4, <1>6, <1>7, <1>8

\* recv lists channels that exist.
LEMMA FindIncoming ==
  ASSUME Reliable, IpcInv, find_incoming_channels
  PROVE  IpcInv' /\ Quiet
<1> USE DEF IpcInv, find_incoming_channels, channelVars, senderVars
<1>0. rlist' \in Seq(CapId \X SenderPids) /\ \A i \in 1..Len(rlist') : channels[rlist'[i][2]] = rlist'[i][1]
  <2> DEFINE with == {s \in SenderPids : channels[s] # NoCap}
             n == Cardinality(with)
             m == IF n < MaxIncoming THEN n ELSE MaxIncoming
  <2>1. n \in Nat
    BY IpcConstants, FS_Subset, FS_CardinalityType
  <2>2. PICK q \in [1..n -> with] : rlist' = [i \in 1..m |-> <<channels[q[i]], q[i]>>]
    BY DEF Incoming
  <2>3. m \in Nat /\ m <= n
    BY <2>1, IpcConstants
  <2>4. \A s \in with : s \in SenderPids /\ channels[s] \in CapId
    BY DEF TypeOK
  <2>5. \A i \in 1..m : q[i] \in SenderPids /\ channels[q[i]] \in CapId
    <3> HIDE DEF with, n, m
    <3> QED
      BY <2>1, <2>2, <2>3, <2>4
  <2> HIDE DEF m
  <2>6. rlist' \in [1..m -> CapId \X SenderPids]
    BY <2>2, <2>5
  <2>7. rlist' \in Seq(CapId \X SenderPids) /\ Len(rlist') = m
    BY <2>3, <2>6
  <2> QED
    BY <2>2, <2>7
<1>1. TypeOK'
  BY <1>0 DEF TypeOK
<1>2. ChannelsSound'
  BY DEF ChannelsSound, FrameOf
<1>3. SendersSound'
  BY DEF SendersSound, FrameOf, Rung, Sending, Current
<1>4. ReceiverSound'
  BY <1>0 DEF ReceiverSound
<1>5. \A m : Done(m) => Done(m)'
  BY DEF Done
<1>6. Quiet
  BY DEF Quiet, Rung, FrameOf
<1>7. RungSound' /\ QueueSound' /\ AcceptedSound'
  BY <1>5, <1>6, QuietStep
<1> QED
  BY <1>1, <1>2, <1>3, <1>4, <1>6, <1>7

\* The receiver is at a channel whose doorbell is set.
LEMMA AtChannel ==
  ASSUME IpcInv, rlist # <<>>
  PROVE  /\ Len(rlist) \in Nat \ {0} /\ Head(rlist) = rlist[1]
         /\ rlist[1][1] \in CapId /\ rlist[1][2] \in SenderPids
         /\ channels[rlist[1][2]] = rlist[1][1]
         /\ Tail(rlist) \in Seq(CapId \X SenderPids)
         /\ Len(Tail(rlist)) = Len(rlist) - 1
         /\ \A i \in 1..Len(Tail(rlist)) : channels[Tail(rlist)[i][2]] = Tail(rlist)[i][1]
<1> USE DEF IpcInv
<1>1. rlist \in Seq(CapId \X SenderPids) /\ Len(rlist) \in Nat \ {0}
  BY DEF TypeOK
<1>2. /\ Head(rlist) = rlist[1]
      /\ Tail(rlist) \in Seq(CapId \X SenderPids) /\ Len(Tail(rlist)) = Len(rlist) - 1
      /\ \A i \in 1..Len(Tail(rlist)) : Tail(rlist)[i] = rlist[i + 1] /\ i + 1 \in 1..Len(rlist)
  BY <1>1
<1>3. rlist[1] \in CapId \X SenderPids /\ channels[rlist[1][2]] = rlist[1][1]
  BY <1>1 DEF ReceiverSound
<1> QED
  BY <1>1, <1>2, <1>3 DEF ReceiverSound

\* poll_switchless looks at a doorbell.
LEMMA Doorbell ==
  ASSUME Reliable, IpcInv, PollDoorbell
  PROVE  IpcInv' /\ Quiet
<1> USE DEF IpcInv, PollDoorbell, channelVars, senderVars
<1>1. TypeOK'
  BY AtChannel DEF TypeOK
<1>2. ChannelsSound'
  BY DEF ChannelsSound, FrameOf
<1>3. SendersSound'
  BY DEF SendersSound, FrameOf, Rung, Sending, Current
<1>4. ReceiverSound'
  <2>1. rlist[1][1] # NoCap
    BY AtChannel DEF CapId, NoCap
  <2>2. CASE doorbell[sw_slot(Head(rlist)[1])] = 0
    BY <2>2, AtChannel DEF ReceiverSound
  <2>3. CASE doorbell[sw_slot(Head(rlist)[1])] # 0
    BY <2>1, <2>3, AtChannel DEF ReceiverSound, Rung
  <2> QED
    BY <2>2, <2>3
<1>5. \A m : Done(m) => Done(m)'
  BY DEF Done
<1>6. Quiet
  BY DEF Quiet, Rung, FrameOf
<1>7. RungSound' /\ QueueSound' /\ AcceptedSound'
  BY <1>5, <1>6, QuietStep
<1> QED
  BY <1>1, <1>2, <1>3, <1>4, <1>6, <1>7

\* The frame is copied while its doorbell is set.
LEMMA Read ==
  ASSUME Reliable, IpcInv, PollRead
  PROVE  IpcInv' /\ Quiet
<1> USE DEF IpcInv, PollRead, channelVars, senderVars
<1>0. /\ rlist # <<>> /\ buffers[Head(rlist)[1]] = FrameOf(rlist[1][2])
      /\ FrameOf(rlist[1][2]) \in Frames /\ FrameOf(rlist[1][2]) # NoFrame
  <2>1. rlist # <<>> /\ Rung(rlist[1][2])
    BY DEF ReceiverSound
  <2>2. rlist[1][2] \in SenderPids /\ buffers[Head(rlist)[1]] = FrameOf(rlist[1][2])
    BY <2>1, AtChannel DEF FrameOf
  <2>3. FrameOf(rlist[1][2]) \in Frames
    BY <2>1, <2>2 DEF ChannelsSound, Rung
  <2>4. FrameOf(rlist[1][2]) # NoFrame
    BY <2>3, IpcConstants DEF NoFrame
  <2> QED
    BY <2>1, <2>2, <2>3, <2>4
<1>1. TypeOK'
  BY <1>0 DEF TypeOK
<1>2. ChannelsSound'
  BY DEF ChannelsSound, FrameOf
<1>3. SendersSound'
  BY DEF SendersSound, FrameOf, Rung, Sending, Current
<1>4. ReceiverSound'
  BY <1>0 DEF ReceiverSound, Rung, FrameOf
<1>5. \A m : Done(m) => Done(m)'
  BY DEF Done
<1>6. Quiet
  BY DEF Quiet, Rung, FrameOf
<1>7. RungSound' /\ QueueSound' /\ AcceptedSound'
  BY <1>5, <1>6, QuietStep
<1> QED
  BY <1>1, <1>2, <1>3, <1>4, <1>6, <1>7

\* The receiver is about to clear the doorbell of the sender it polls, whose
\* message it has copied.
LEMMA AtClear ==
  ASSUME Reliable, IpcInv, PollClear, NEW s, s = Polled
  PROVE  /\ s \in SenderPids /\ Rung(s) /\ rbuf = memory[FrameOf(s)]
         /\ Head(rlist)[2] = s /\ Done(rbuf) /\ rbuf[1] = s /\ rbuf \in Msg
         /\ ~Rung(s)' /\ \A t \in SenderPids \ {s} : Rung(t)' = Rung(t)
         /\ doorbell' \in [0..(SwSlots - 1) -> Lens \cup {0}]
<1> USE DEF IpcInv, PollClear, channelVars
<1>1. rlist # <<>> /\ Rung(s) /\ rbuf = memory[FrameOf(s)]
  BY DEF ReceiverSound, Polled
<1>2. s \in SenderPids /\ Head(rlist)[2] = s /\ Head(rlist)[1] = channels[s] /\ channels[s] \in CapId
  BY <1>1, AtChannel DEF Polled
<1>3. Done(rbuf) /\ rbuf[1] = s /\ rbuf \in Msg
  BY <1>1, <1>2 DEF RungSound, Done
<1>4. /\ sw_slot(channels[s]) \in 0..(SwSlots - 1)
      /\ \A t \in SenderPids \ {s} : channels[t] # NoCap => sw_slot(channels[t]) # sw_slot(channels[s])
  BY <1>1, <1>2, SlotFacts DEF Reliable, ChannelsSound, TypeOK, Rung
<1>5. ~Rung(s)' /\ doorbell' \in [0..(SwSlots - 1) -> Lens \cup {0}]
  BY <1>2, <1>4 DEF Rung, TypeOK
<1>6. ASSUME NEW t \in SenderPids \ {s}, channels[t] # NoCap
      PROVE  doorbell'[sw_slot(channels[t])] = doorbell[sw_slot(channels[t])]
  BY <1>2, <1>4, <1>6, SlotFacts DEF TypeOK
<1> QED
  BY <1>1, <1>2, <1>3, <1>5, <1>6 DEF Rung

\* The doorbell is cleared and the copied message returned.
LEMMA Clear ==
  ASSUME Reliable, IpcInv, PollClear
  PROVE  IpcInv'
<1> USE DEF IpcInv, PollClear, channelVars, senderVars
<1>s. PICK s : s = Polled
  OBVIOUS
<1>0. /\ s \in SenderPids /\ Rung(s) /\ rbuf = memory[FrameOf(s)]
      /\ Head(rlist)[2] = s /\ Done(rbuf) /\ rbuf[1] = s /\ rbuf \in Msg
      /\ ~Rung(s)' /\ \A t \in SenderPids \ {s} : Rung(t)' = Rung(t)
      /\ doorbell' \in [0..(SwSlots - 1) -> Lens \cup {0}]
  BY <1>s, AtClear
<1>g. /\ got' \in Seq(SenderPids \X (Msg \cup {Blank, Foreign}))
      /\ Len(got') = Len(got) + 1 /\ Len(got) \in Nat
      /\ got'[Len(got) + 1] = <<s, rbuf>>
      /\ \A i \in 1..Len(got) : got'[i] = got[i]
      /\ \A i \in 1..Len(got') : i \in 1..Len(got) \/ i = Len(got) + 1
  <2>1. got \in Seq(SenderPids \X (Msg \cup {Blank, Foreign})) /\ got' = Append(got, <<s, rbuf>>)
    BY <1>0 DEF TypeOK
  <2> HIDE DEF IpcInv, PollClear
  <2> QED
    BY <1>0, <2>1
<1>1. TypeOK'
  BY <1>0, <1>g DEF TypeOK
<1>2. ChannelsSound'
  BY DEF ChannelsSound, FrameOf
<1>3. SendersSound'
  BY <1>0 DEF SendersSound, FrameOf, Sending, Current
<1>4. ReceiverSound'
  BY DEF ReceiverSound
<1>5. \A m : Done(m) => Done(m)'
  BY DEF Done
<1>6. RungSound'
  <2>1. ASSUME NEW t \in SenderPids \ {s}, Rung(t)'
        PROVE  /\ Done(memory[FrameOf(t)])' /\ memory[FrameOf(t)][1] = t
               /\ \A i \in 1..Len(queue) : queue[i][1] = t => queue[i][2] < memory[FrameOf(t)][2]
               /\ \A i \in 1..Len(got') : got'[i][2] # memory[FrameOf(t)]
    BY <1>0, <1>g, <1>5, <2>1 DEF RungSound, FrameOf
  <2> QED
    BY <1>0, <2>1 DEF RungSound, FrameOf
<1>7. QueueSound'
  <2>1. \A i \in 1..Len(queue) : queue[i] # rbuf
    <3>1. /\ \A i \in 1..Len(queue) : queue[i][1] = s => queue[i][2] < rbuf[2]
          /\ rbuf[2] \in Nat
      BY <1>0 DEF RungSound, Msg, MsgIds
    <3> HIDE DEF IpcInv, PollClear
    <3> QED
      BY <1>0, <3>1
  <2> QED
    BY <1>g, <1>5, <2>1 DEF QueueSound
<1>8. AcceptedSound'
  <2>1. \A i \in 1..Len(got') : Done(got[i][2])'
    BY <1>0, <1>g, <1>5 DEF AcceptedSound
  <2>2. ASSUME NEW m \in accepted
        PROVE  \/ \E i \in 1..Len(got') : got'[i][2] = m
               \/ \E i \in 1..Len(queue) : queue[i] = m
               \/ \E t \in SenderPids : Rung(t)' /\ memory[FrameOf(t)] = m
    BY <1>0, <1>g DEF AcceptedSound
  <2> QED
    BY <2>1, <2>2 DEF AcceptedSound, FrameOf
<1> QED
  BY <1>1, <1>2, <1>3, <1>4, <1>6, <1>7, <1>8

\* The queue without its front.
LEMMA AtQueue ==
  ASSUME IpcInv, queue # <<>>
  PROVE  /\ Len(queue) \in Nat \ {0} /\ Head(queue) = queue[1]
         /\ queue[1] \in Msg /\ Done(queue[1])
         /\ Tail(queue) \in Seq(Msg) /\ Len(Tail(queue)) = Len(queue) - 1
         /\ \A i \in 1..Len(Tail(queue)) :
              /\ Tail(queue)[i] = queue[i + 1] /\ i + 1 \in 1..Len(queue)
              /\ Tail(queue)[i] # queue[1]
         /\ \A i \in 1..Len(queue) : i = 1 \/ (i - 1 \in 1..Len(Tail(queue)) /\ Tail(queue)[i - 1] = queue[i])
<1> USE DEF IpcInv
<1>1. queue \in Seq(Msg) /\ Len(queue) \in Nat \ {0}
  BY DEF TypeOK
<1>2. /\ Head(queue) = queue[1] /\ queue[1] \in Msg /\ Done(queue[1])
      /\ Tail(queue) \in Seq(Msg) /\ Len(Tail(queue)) = Len(queue) - 1
      /\ \A i \in 1..Len(Tail(queue)) : Tail(queue)[i] = queue[i + 1] /\ i + 1 \in 1..Len(queue)
  BY <1>1 DEF QueueSound
<1>3. \A i \in 2..Len(queue) : queue[i] # queue[1]
  <2> SUFFICES ASSUME NEW i \in 2..Len(queue), queue[i] = queue[1] PROVE FALSE
    OBVIOUS
  <2>1. queue[1][2] < queue[i][2]
    BY <1>1 DEF QueueSound
  <2> QED
    BY <1>2, <2>1 DEF Msg, MsgIds
<1> QED
  BY <1>1, <1>2, <1>3

\* recv_message returns the front of the queue.
LEMMA TakeFront ==
  ASSUME Reliable, IpcInv, recv_message
  PROVE  IpcInv'
<1> USE DEF IpcInv, recv_message, channelVars, senderVars
<1>2. ChannelsSound'
  BY DEF ChannelsSound, FrameOf
<1>3. SendersSound'
  BY DEF SendersSound, FrameOf, Rung, Sending, Current
<1>4. ReceiverSound'
  BY DEF ReceiverSound
<1>5. \A m : Done(m) => Done(m)'
  BY DEF Done
<1>a. CASE queue = <<>>
  <2>1. TypeOK'
    BY <1>a DEF TypeOK
  <2>2. RungSound' /\ QueueSound' /\ AcceptedSound'
    BY <1>a, <1>5 DEF RungSound, QueueSound, AcceptedSound, FrameOf, Rung
  <2> QED
    BY <2>1, <2>2, <1>2, <1>3, <1>4
<1>b. CASE queue # <<>>
  <2>g. /\ got' \in Seq(SenderPids \X (Msg \cup {Blank, Foreign}))
        /\ Len(got') = Len(got) + 1 /\ Len(got) \in Nat
        /\ got'[Len(got) + 1] = <<queue[1][1], queue[1]>>
        /\ \A i \in 1..Len(got) : got'[i] = got[i]
        /\ \A i \in 1..Len(got') : i \in 1..Len(got) \/ i = Len(got) + 1
    <3>1. /\ <<queue[1][1], queue[1]>> \in SenderPids \X (Msg \cup {Blank, Foreign})
          /\ got' = Append(got, <<queue[1][1], queue[1]>>)
      BY <1>b, AtQueue DEF Msg
    <3>2. got \in Seq(SenderPids \X (Msg \cup {Blank, Foreign}))
      BY DEF TypeOK
    <3> QED
      BY <3>1, <3>2
  <2>q. /\ queue' = Tail(queue) /\ Len(queue') \in Nat
        /\ \A i \in 1..Len(queue') : queue'[i] = queue[i + 1] /\ i + 1 \in 1..Len(queue) /\ queue'[i] # queue[1]
        /\ \A i \in 1..Len(queue) : i = 1 \/ (i - 1 \in 1..Len(queue') /\ queue'[i - 1] = queue[i])
    <3>1. queue' = Tail(queue)
      BY <1>b
    <3>2. /\ Len(Tail(queue)) \in Nat
          /\ \A i \in 1..Len(Tail(queue)) :
               /\ Tail(queue)[i] = queue[i + 1] /\ i + 1 \in 1..Len(queue)
               /\ Tail(queue)[i] # queue[1]
          /\ \A i \in 1..Len(queue) :
               i = 1 \/ (i - 1 \in 1..Len(Tail(queue)) /\ Tail(queue)[i - 1] = queue[i])
      <4> HIDE DEF recv_message, IpcInv
      <4> QED
        BY <1>b, AtQueue
    <3> HIDE DEF recv_message, IpcInv
    <3> QED
      BY <3>1, <3>2
  <2>1. TypeOK'
    BY <1>b, <2>g, AtQueue DEF TypeOK
  <2>2. RungSound'
    <3>1. ASSUME NEW t \in SenderPids, Rung(t)
          PROVE  memory[FrameOf(t)] # queue[1]
      <4>1. Done(queue[1]) /\ queue[1][2] \in Nat /\ 1 \in 1..Len(queue)
        BY <1>b, AtQueue DEF Msg, MsgIds
      <4> QED
        BY <3>1, <4>1 DEF RungSound
    <3>2. ASSUME NEW t \in SenderPids, Rung(t)
          PROVE  /\ Done(memory[FrameOf(t)])' /\ memory[FrameOf(t)][1] = t
                 /\ \A i \in 1..Len(queue') : queue'[i][1] = t => queue'[i][2] < memory[FrameOf(t)][2]
                 /\ \A i \in 1..Len(got') : got'[i][2] # memory[FrameOf(t)]
      BY <1>5, <2>g, <2>q, <3>1, <3>2 DEF RungSound, FrameOf
    <3> QED
      BY <3>2 DEF RungSound, FrameOf, Rung
  <2>3. QueueSound'
    <3>1. \A i \in 1..Len(queue') : Done(queue[i])'
      BY <1>5, <2>q DEF QueueSound
    <3>2. \A i, j \in 1..Len(queue') : i < j /\ queue'[i][1] = queue'[j][1] => queue'[i][2] < queue'[j][2]
      BY <2>q DEF QueueSound
    <3>3. \A i \in 1..Len(queue'), j \in 1..Len(got') : got'[j][2] # queue'[i]
      <4>1. \A i \in 1..Len(queue), j \in 1..Len(got) : got[j][2] # queue[i]
        BY DEF QueueSound
      <4> HIDE DEF IpcInv, recv_message
      <4>2. ASSUME NEW i \in 1..Len(queue'), NEW j \in 1..Len(got')
            PROVE  got'[j][2] # queue'[i]
        <5>1. queue'[i] = queue[i + 1] /\ i + 1 \in 1..Len(queue) /\ queue'[i] # queue[1]
          BY <2>q
        <5>2. CASE j \in 1..Len(got)
          BY <2>g, <4>1, <5>1, <5>2
        <5>3. CASE j = Len(got) + 1
          BY <2>g, <5>1, <5>3
        <5> QED
          BY <2>g, <5>2, <5>3
      <4> QED
        BY <4>2
    <3> QED
      BY <3>1, <3>2, <3>3 DEF QueueSound
  <2>4. AcceptedSound'
    <3>1. \A i \in 1..Len(got') : Done(got[i][2])'
      <4>1. Done(queue[1]) /\ \A i \in 1..Len(got) : Done(got[i][2])
        <5> HIDE DEF recv_message, Done
        <5> QED
          BY <1>b, AtQueue DEF AcceptedSound
      <4> HIDE DEF recv_message, IpcInv, Done
      <4>2. ASSUME NEW i \in 1..Len(got')
            PROVE  \/ got'[i][2] = queue[1]
                   \/ i \in 1..Len(got) /\ got'[i][2] = got[i][2]
        BY <2>g
      <4> QED
        BY <1>5, <4>1, <4>2
    <3>2. ASSUME NEW m \in accepted
          PROVE  \/ \E i \in 1..Len(got') : got'[i][2] = m
                 \/ \E i \in 1..Len(queue') : queue'[i] = m
                 \/ \E t \in SenderPids : Rung(t) /\ memory[FrameOf(t)] = m
      <4>1. CASE \E i \in 1..Len(queue) : queue[i] = m
        <5>1. PICK i \in 1..Len(queue) : queue[i] = m
          BY <4>1
        <5>2. CASE i = 1
          BY <2>g, <5>1, <5>2
        <5>3. CASE i - 1 \in 1..Len(queue') /\ queue'[i - 1] = queue[i]
          BY <5>1, <5>3
        <5> QED
          BY <2>q, <5>2, <5>3
      <4> QED
        BY <4>1, <2>g DEF AcceptedSound
    <3> QED
      BY <3>1, <3>2 DEF AcceptedSound, FrameOf, Rung
  <2> QED
    BY <2>1, <2>2, <2>3, <2>4, <1>2, <1>3, <1>4
<1> QED
  BY <1>a, <1>b

\* ensure_channel_cap takes a new id and a free frame: no channel in use sees it.
LEMMA NewChannel ==
  ASSUME Reliable, IpcInv, NEW s \in SenderPids, ensure_channel_cap(s)
  PROVE  IpcInv' /\ Quiet
<1> USE DEF IpcInv, senderVars, receiverVars
<1>0. PICK f \in Frames :
        /\ owner[f] = "free"
        /\ owner' = [owner EXCEPT ![f] = "channel"]
        /\ memory' = [memory EXCEPT ![f] = Blank]
        /\ buffers' = [buffers EXCEPT ![nextCap] = f]
  BY DEF ensure_channel_cap, LowestFree
<1>u. /\ UNCHANGED <<queue, spc, scap, sva, slen, sent, rpc, rlist, rbuf, accepted, got>>
      /\ channels[s] = NoCap /\ nextCap \in CapId /\ nextCap' = nextCap + 1
      /\ channels' = [channels EXCEPT ![s] = nextCap]
      /\ doorbell' = [doorbell EXCEPT ![sw_slot(nextCap)] = 0]
  BY IpcConstants DEF ensure_channel_cap, TypeOK, CapId
<1>1. TypeOK'
  <2>1. nextCap' \in 1..(MaxCaps + 1)
    BY <1>u, IpcConstants DEF CapId
  <2> QED
    BY <1>0, <1>u, <2>1 DEF TypeOK
<1>c. ASSUME NEW t \in SenderPids, channels[t] # NoCap
      PROVE  /\ t # s /\ channels'[t] = channels[t] /\ channels[t] # nextCap /\ channels[t] \in CapId
             /\ FrameOf(t)' = FrameOf(t) /\ FrameOf(t) \in Frames /\ FrameOf(t) # f
             /\ memory'[FrameOf(t)] = memory[FrameOf(t)]
             /\ Rung(t)' = Rung(t)
  <2>1. t # s /\ channels'[t] = channels[t] /\ channels[t] # nextCap /\ channels[t] \in CapId
    BY <1>u, <1>c, IpcConstants DEF ChannelsSound, TypeOK, CapId
  <2>2. FrameOf(t)' = FrameOf(t)
    BY <1>0, <2>1 DEF FrameOf, TypeOK
  <2>3. FrameOf(t) \in Frames /\ FrameOf(t) # f
    BY <1>0, <1>c DEF ChannelsSound
  <2>4. memory'[FrameOf(t)] = memory[FrameOf(t)]
    BY <1>0, <2>3 DEF TypeOK
  <2>5. /\ sw_slot(channels[t]) # sw_slot(nextCap)
        /\ doorbell'[sw_slot(channels[t])] = doorbell[sw_slot(channels[t])]
    BY <1>u, <2>1, SlotFacts DEF Reliable, TypeOK
  <2> QED
    BY <1>c, <2>1, <2>2, <2>3, <2>4, <2>5 DEF Rung
<1>s. /\ channels'[s] = nextCap /\ FrameOf(s)' = f /\ ~Rung(s)' /\ ~Rung(s)
      /\ ~Sending(s)
  BY <1>0, <1>u, SlotFacts DEF FrameOf, Rung, TypeOK, SendersSound
<1>t. \A t \in SenderPids : t # s => channels'[t] = channels[t]
  BY <1>u DEF TypeOK
<1>r. \A t \in SenderPids : Rung(t)' = Rung(t) /\ (Rung(t) => memory'[FrameOf(t)'] = memory[FrameOf(t)])
  BY <1>c, <1>s, <1>t DEF Rung
<1>2. ChannelsSound'
  BY <1>0, <1>u, <1>c, <1>s, <1>t DEF ChannelsSound, TypeOK, CapId, NoCap
<1>3. SendersSound'
  BY <1>u, <1>c, <1>s, <1>r DEF SendersSound, Sending, Current
<1>4. ReceiverSound'
  <2>1. \A i \in 1..Len(rlist) : rlist[i][1] \in CapId /\ rlist[i][2] \in SenderPids
    BY DEF TypeOK
  <2>2. \A i \in 1..Len(rlist) : channels'[rlist[i][2]] = rlist[i][1]
    BY <1>c, <2>1 DEF ReceiverSound, CapId, NoCap
  <2>3. rlist # <<>> => rlist[1][2] \in SenderPids
    BY DEF TypeOK
  <2> QED
    BY <1>u, <1>r, <2>2, <2>3 DEF ReceiverSound
<1>5. \A m : Done(m) => Done(m)'
  BY <1>u DEF Done
<1>6. Quiet
  BY <1>u, <1>r DEF Quiet
<1>7. RungSound' /\ QueueSound' /\ AcceptedSound'
  BY <1>5, <1>6, QuietStep
<1> QED
  BY <1>1, <1>2, <1>3, <1>4, <1>6, <1>7

\* Another part of the kernel takes a frame that is free.
LEMMA OtherFrame ==
  ASSUME Reliable, IpcInv, NEW f \in Frames, OtherAlloc(f)
  PROVE  IpcInv' /\ Quiet
<1> USE DEF IpcInv, OtherAlloc, LowestFree, senderVars, receiverVars
<1>1. TypeOK'
  BY DEF TypeOK
<1>a. \A t \in SenderPids : channels[t] # NoCap =>
        FrameOf(t) \in Frames /\ FrameOf(t) # f /\ memory'[FrameOf(t)] = memory[FrameOf(t)]
  BY DEF ChannelsSound, TypeOK
<1>2. ChannelsSound'
  BY <1>a DEF ChannelsSound, FrameOf, TypeOK
<1>3. SendersSound'
  BY <1>a DEF SendersSound, FrameOf, Rung, Sending, Current
<1>4. ReceiverSound'
  <2>1. rlist # <<>> => rlist[1][2] \in SenderPids
    BY DEF TypeOK
  <2> QED
    BY <1>a, <2>1 DEF ReceiverSound, FrameOf, Rung
<1>5. \A m : Done(m) => Done(m)'
  BY DEF Done
<1>6. Quiet
  BY <1>a DEF Quiet, Rung, FrameOf
<1>7. RungSound' /\ QueueSound' /\ AcceptedSound'
  BY <1>5, <1>6, QuietStep
<1> QED
  BY <1>1, <1>2, <1>3, <1>4, <1>6, <1>7

\* Every step keeps the invariant.
LEMMA NextIpc == Reliable /\ IpcInv /\ [Next]_vars => IpcInv'
<1> SUFFICES ASSUME Reliable, IpcInv, [Next]_vars PROVE IpcInv'
  OBVIOUS
<1>1. ASSUME NEW s \in SenderPids, SenderStep(s) PROVE IpcInv'
  BY <1>1, Lookup, Push, Fetch, Spin, Write, Ring DEF SenderStep
<1>2. CASE ReceiverStep
  BY <1>2, FindIncoming, Doorbell, Read, Clear, TakeFront DEF ReceiverStep
<1>3. CASE PolicyStep
  BY <1>3, NewChannel, OtherFrame DEF PolicyStep, drop_channel, Reliable
<1>4. CASE UNCHANGED vars
  <2> USE <1>4 DEF vars, channelVars, senderVars, receiverVars, IpcInv
  <2>1. TypeOK'
    BY DEF TypeOK
  <2>2. ChannelsSound' /\ SendersSound' /\ ReceiverSound'
    BY DEF ChannelsSound, SendersSound, ReceiverSound, FrameOf, Rung, Sending, Current
  <2>3. \A m : Done(m) => Done(m)'
    BY DEF Done
  <2>4. RungSound' /\ QueueSound' /\ AcceptedSound'
    BY <2>3 DEF RungSound, QueueSound, AcceptedSound, FrameOf, Rung
  <2> QED
    BY <2>1, <2>2, <2>4
<1> QED
  BY <1>1, <1>2, <1>3, <1>4 DEF Next

\* The shape of the state and what senders, receiver and policy engine rely
\* on, for every instance without reclaiming.
THEOREM IpcInvariant == ASSUME Reliable PROVE Spec => []IpcInv
<1>1. Init => IpcInv
  BY InitIpc
<1>2. IpcInv /\ [Next]_vars => IpcInv'
  BY NextIpc
<1> QED
  BY <1>1, <1>2, PTL DEF Spec

---------------------------------------------------------------------------

InQueue(m) == \E i \in 1..Len(queue) : queue[i] = m
InChannel(m) == \E s \in SenderPids : Rung(s) /\ memory[FrameOf(s)] = m

\* OnTheWay, in the terms of the invariant, before and after a step.
LEMMA OnTheWayIs ==
  ASSUME TypeOK, TypeOK'
  PROVE  /\ \A m : m \in OnTheWay <=> InQueue(m) \/ InChannel(m)
         /\ \A m : m \in OnTheWay' <=> InQueue(m)' \/ InChannel(m)'
         /\ \A m : m \in Range(queue) <=> InQueue(m)
<1>1. DOMAIN queue = 1..Len(queue) /\ DOMAIN queue' = 1..Len(queue')
  BY DEF TypeOK
<1>2. /\ \A m : m \in Range(queue) <=> InQueue(m)
      /\ \A m : m \in Range(queue') <=> InQueue(m)'
  BY <1>1 DEF Range, InQueue
<1>3. \A m : m \in OnTheWay <=> InQueue(m) \/ InChannel(m)
  BY <1>2 DEF OnTheWay, InChannel, Rung, FrameOf
<1>4. \A m : m \in OnTheWay' <=> InQueue(m)' \/ InChannel(m)'
  BY <1>2 DEF OnTheWay, InChannel, Rung, FrameOf
<1> QED
  BY <1>2, <1>3, <1>4

\* A quiet step is no step of the mailbox.
LEMMA QuietStutters ==
  ASSUME IpcInv, IpcInv', Quiet
  PROVE  UNCHANGED <<OnTheWay, got>>
<1>1. \A m : InQueue(m)' <=> InQueue(m)
  BY DEF Quiet, InQueue
<1>2. \A m : InChannel(m)' <=> InChannel(m)
  BY DEF Quiet, InChannel
<1>3. \A m : m \in OnTheWay' <=> m \in OnTheWay
  BY <1>1, <1>2, OnTheWayIs DEF IpcInv
<1>4. OnTheWay' = OnTheWay
  BY <1>3
<1> QED
  BY <1>4 DEF Quiet

\* A send that returns true posts its message.
LEMMA SendPosts ==
  ASSUME Reliable, IpcInv, IpcInv', NEW s \in SenderPids, send_message(s) \/ SwitchlessRing(s)
  PROVE  Box!Post(Current(s)) /\ Current(s) \in Msg
<1>1. /\ Current(s) \in Msg /\ \A i \in 1..Len(got) : got[i][2] # Current(s)
      /\ ~InQueue(Current(s)) /\ ~InChannel(Current(s))
  BY NewMessage DEF send_message, SwitchlessRing, InQueue, InChannel
<1>2. OnTheWay' = OnTheWay \cup {Current(s)}
  <2>1. CASE send_message(s)
    <3>1. \A x : InChannel(x)' <=> InChannel(x)
      BY <2>1 DEF send_message, channelVars, InChannel, Rung, FrameOf
    <3>2. \A x : InQueue(x)' <=> InQueue(x) \/ x = Current(s)
      <4>1. /\ Len(queue') = Len(queue) + 1 /\ Len(queue) \in Nat
            /\ queue'[Len(queue) + 1] = Current(s)
            /\ \A i \in 1..Len(queue) : queue'[i] = queue[i]
        BY <1>1, <2>1 DEF send_message, IpcInv, TypeOK
      <4>2. \A i \in 1..Len(queue') : i \in 1..Len(queue) \/ i = Len(queue) + 1
        BY <4>1
      <4> QED
        BY <4>1, <4>2 DEF InQueue
    <3>3. \A x : x \in OnTheWay' <=> x \in OnTheWay \cup {Current(s)}
      BY <3>1, <3>2, OnTheWayIs DEF IpcInv
    <3> QED
      BY <3>3
  <2>2. CASE SwitchlessRing(s)
    <3>1. \A x : InQueue(x)' <=> InQueue(x)
      BY <2>2 DEF SwitchlessRing, InQueue
    <3>2. \A x : InChannel(x)' <=> InChannel(x) \/ x = Current(s)
      <4>1. /\ Rung(s)' /\ \A t \in SenderPids \ {s} : Rung(t)' = Rung(t)
            /\ memory[FrameOf(s)] = Current(s) /\ ~Rung(s)
        BY <2>2, RingRings DEF SwitchlessRing, IpcInv, SendersSound
      <4>2. memory' = memory /\ \A t \in SenderPids : FrameOf(t)' = FrameOf(t)
        BY <2>2 DEF SwitchlessRing, channelVars, FrameOf
      <4> QED
        BY <4>1, <4>2 DEF InChannel
    <3>3. \A x : x \in OnTheWay' <=> x \in OnTheWay \cup {Current(s)}
      BY <3>1, <3>2, OnTheWayIs DEF IpcInv
    <3> QED
      BY <3>3
  <2> QED
    BY <2>1, <2>2
<1>3. Current(s) \notin OnTheWay
  BY <1>1, OnTheWayIs DEF IpcInv
<1>4. got' = got
  BY DEF send_message, SwitchlessRing
<1> QED
  BY <1>1, <1>2, <1>3, <1>4 DEF Box!Post

\* A recv that returns a message delivers it, under the name of its sender.
LEMMA RecvDelivers ==
  ASSUME Reliable, IpcInv, IpcInv', PollClear \/ (recv_message /\ queue # <<>>)
  PROVE  \E m \in Msg : /\ Box!Deliver(m)
                        /\ \/ PollClear /\ InChannel(m) /\ ~InQueue(m)
                           \/ recv_message /\ queue # <<>> /\ m = queue[1]
<1>1. CASE PollClear
  <2>s. PICK s : s = Polled
    OBVIOUS
  <2>0. /\ s \in SenderPids /\ Rung(s) /\ rbuf = memory[FrameOf(s)]
        /\ Head(rlist)[2] = s /\ Done(rbuf) /\ rbuf[1] = s /\ rbuf \in Msg
        /\ ~Rung(s)' /\ \A t \in SenderPids \ {s} : Rung(t)' = Rung(t)
    BY <1>1, <2>s, AtClear
  <2>1. \A x : InQueue(x)' <=> InQueue(x)
    BY <1>1 DEF PollClear, InQueue
  <2>2. ~InQueue(rbuf)
    <3>1. \A i \in 1..Len(queue) : queue[i][1] = s => queue[i][2] < rbuf[2]
      BY <2>0 DEF IpcInv, RungSound
    <3>2. rbuf[2] \in Nat
      BY <2>0 DEF Msg, MsgIds
    <3> QED
      BY <2>0, <3>1, <3>2 DEF InQueue
  <2>3. \A x : InChannel(x)' <=> InChannel(x) /\ x # rbuf
    <3>1. memory' = memory /\ \A t \in SenderPids : FrameOf(t)' = FrameOf(t)
      BY <1>1 DEF PollClear, channelVars, FrameOf
    <3>2. \A t \in SenderPids \ {s} : Rung(t) => memory[FrameOf(t)] # rbuf
      BY <2>0 DEF IpcInv, RungSound
    <3> QED
      BY <2>0, <3>1, <3>2 DEF InChannel
  <2>4. \A x : x \in OnTheWay' <=> x \in OnTheWay \ {rbuf}
    BY <2>1, <2>2, <2>3, OnTheWayIs DEF IpcInv
  <2>5. OnTheWay' = OnTheWay \ {rbuf}
    BY <2>4
  <2>6. InChannel(rbuf) /\ rbuf \in OnTheWay
    BY <2>0, OnTheWayIs DEF InChannel, IpcInv
  <2>7. got' = Append(got, <<rbuf[1], rbuf>>)
    BY <1>1, <2>0 DEF PollClear
  <2>8. Box!Deliver(rbuf)
    BY <2>5, <2>6, <2>7 DEF Box!Deliver
  <2> QED
    BY <1>1, <2>0, <2>2, <2>6, <2>8
<1>2. CASE recv_message /\ queue # <<>>
  <2>0. queue' = Tail(queue) /\ got' = Append(got, <<queue[1][1], queue[1]>>) /\ queue[1] \in Msg
    BY <1>2, AtQueue DEF recv_message
  <2>1. \A x : InChannel(x)' <=> InChannel(x)
    BY <1>2 DEF recv_message, channelVars, InChannel, Rung, FrameOf
  <2>2. InQueue(queue[1]) /\ ~InChannel(queue[1])
    <3>1. 1 \in 1..Len(queue) /\ Done(queue[1]) /\ queue[1][2] \in Nat
      BY <1>2, AtQueue DEF Msg, MsgIds
    <3> QED
      BY <3>1 DEF InQueue, InChannel, IpcInv, RungSound
  <2>3. \A x : InQueue(x)' <=> InQueue(x) /\ x # queue[1]
    <3>1. /\ \A i \in 1..Len(Tail(queue)) :
               /\ Tail(queue)[i] = queue[i + 1] /\ i + 1 \in 1..Len(queue)
               /\ Tail(queue)[i] # queue[1]
          /\ \A i \in 1..Len(queue) :
               i = 1 \/ (i - 1 \in 1..Len(Tail(queue)) /\ Tail(queue)[i - 1] = queue[i])
      BY <1>2, AtQueue
    <3>2. ASSUME NEW x, InQueue(x)' PROVE InQueue(x) /\ x # queue[1]
      BY <2>0, <3>1, <3>2 DEF InQueue
    <3>3. ASSUME NEW x, InQueue(x), x # queue[1] PROVE InQueue(x)'
      <4>1. PICK i \in 1..Len(queue) : queue[i] = x
        BY <3>3 DEF InQueue
      <4>2. i - 1 \in 1..Len(Tail(queue)) /\ Tail(queue)[i - 1] = x
        BY <3>1, <3>3, <4>1
      <4> QED
        BY <2>0, <4>2 DEF InQueue
    <3> QED
      BY <3>2, <3>3
  <2>4. \A x : x \in OnTheWay' <=> x \in OnTheWay \ {queue[1]}
    BY <2>1, <2>2, <2>3, OnTheWayIs DEF IpcInv
  <2>5. OnTheWay' = OnTheWay \ {queue[1]}
    BY <2>4
  <2>6. queue[1] \in OnTheWay
    BY <2>2, OnTheWayIs DEF IpcInv
  <2>8. Box!Deliver(queue[1])
    BY <2>0, <2>5, <2>6 DEF Box!Deliver
  <2> QED
    BY <1>2, <2>0, <2>8
<1> QED
  BY <1>1, <1>2

\* The step of the mailbox behind each step.
LEMMA StepRefines ==
  ASSUME Reliable, IpcInv, IpcInv', [Next]_vars
  PROVE  [Box!Next]_<<OnTheWay, got>>
<1>1. CASE Quiet
  BY <1>1, QuietStutters
<1>2. ASSUME NEW s \in SenderPids, SenderStep(s)
      PROVE  [Box!Next]_<<OnTheWay, got>>
  <2>1. Quiet \/ send_message(s) \/ SwitchlessRing(s)
    BY <1>2, Lookup, Fetch, Spin, Write DEF SenderStep
  <2>2. CASE send_message(s) \/ SwitchlessRing(s)
    BY <2>2, SendPosts DEF Box!Next, Box!Message, Msg
  <2> QED
    BY <1>1, <2>1, <2>2
<1>3. CASE ReceiverStep
  <2>1. Quiet \/ PollClear \/ recv_message
    BY <1>3, FindIncoming, Doorbell, Read DEF ReceiverStep
  <2>2. CASE PollClear \/ (recv_message /\ queue # <<>>)
    BY <2>2, RecvDelivers DEF Box!Next, Box!Message, Msg
  <2>3. CASE recv_message /\ queue = <<>>
    BY <1>1, <2>3 DEF recv_message, Quiet, Rung, FrameOf, channelVars
  <2> QED
    BY <1>1, <2>1, <2>2, <2>3
<1>4. CASE PolicyStep
  BY <1>1, <1>4, NewChannel, OtherFrame DEF PolicyStep, drop_channel, Reliable
<1>5. CASE UNCHANGED vars
  BY <1>1, <1>5 DEF vars, channelVars, Quiet, Rung, FrameOf
<1> QED
  BY <1>2, <1>3, <1>4, <1>5 DEF Next

\* ImplementsMailbox for every number of senders, messages, capabilities and
\* frames, and every order of steps: the queue of process/ipc.rs and the
\* shared frames of process/ipc_cap.rs together are one reliable mailbox.
THEOREM MailboxIsReliable == ASSUME Reliable PROVE Spec => ImplementsMailbox
<1>1. Init => Box!Init
  <2> SUFFICES ASSUME Init PROVE Box!Init
    OBVIOUS
  <2>1. Range(queue) = {}
    BY DEF Init, Range
  <2>2. OnTheWay = {}
    BY <2>1 DEF Init, OnTheWay
  <2> QED
    BY <2>2 DEF Init, Box!Init
<1>2. IpcInv /\ IpcInv' /\ [Next]_vars => [Box!Next]_<<OnTheWay, got>>
  BY StepRefines
<1>3. Spec => []IpcInv
  BY IpcInvariant
<1> QED
  BY <1>1, <1>2, <1>3, PTL DEF Spec, ImplementsMailbox, Box!Spec, Box!mailboxVars

\* What a step receives.
LEMMA ReceivedNow ==
  ASSUME IpcInv, NEW m, got' = Append(got, <<m[1], m>>)
  PROVE  Received' = Received \cup {m}
<1>1. /\ Len(got') = Len(got) + 1 /\ Len(got) \in Nat
      /\ got'[Len(got) + 1] = <<m[1], m>>
      /\ \A i \in 1..Len(got) : got'[i] = got[i]
  BY DEF IpcInv, TypeOK
<1>2. \A i \in 1..Len(got') : i \in 1..Len(got) \/ i = Len(got) + 1
  BY <1>1
<1>3. \A x : x \in Received' <=> x \in Received \cup {m}
  BY <1>1, <1>2 DEF Received
<1> QED
  BY <1>3

\* OvertakesOnlyTheQueue for every instance: the only way a message overtakes
\* an earlier one of its sender is the shared frame passing the queue.
THEOREM OnlyChannelsOvertake == ASSUME Reliable PROVE Spec => OvertakesOnlyTheQueue
<1> DEFINE P == \A m \in accepted \ Received, n \in Received' \ Received :
                   m[1] = n[1] /\ m[2] < n[2] => m \in Range(queue) /\ n \notin Range(queue)
<1>1. IpcInv /\ IpcInv' /\ [Next]_vars => [P]_vars
  <2> SUFFICES ASSUME IpcInv, IpcInv', [Next]_vars,
                      NEW m \in accepted \ Received, NEW n \in Received' \ Received,
                      m[1] = n[1], m[2] < n[2]
               PROVE  m \in Range(queue) /\ n \notin Range(queue)
    OBVIOUS
  <2>1. got' # got
    BY DEF Received
  <2>2. PollClear \/ (recv_message /\ queue # <<>>)
    BY <2>1 DEF Next, SenderStep, ReceiverStep, PolicyStep, vars, SendLookup, send_message,
                SwitchlessFetch, SwitchlessSpin, SwitchlessWrite, SwitchlessRing,
                find_incoming_channels, PollDoorbell, PollRead, recv_message,
                ensure_channel_cap, drop_channel, OtherAlloc
  <2>3. PICK x \in Msg : /\ Box!Deliver(x)
                         /\ \/ PollClear /\ InChannel(x) /\ ~InQueue(x)
                            \/ recv_message /\ queue # <<>> /\ x = queue[1]
    BY <2>2, RecvDelivers
  <2>4. n = x
    BY <2>3, ReceivedNow DEF Box!Deliver
  <2>5. InQueue(m) \/ InChannel(m)
    BY DEF IpcInv, AcceptedSound, InQueue, InChannel, Received
  <2>6. \A y : y \in Range(queue) <=> InQueue(y)
    BY OnTheWayIs DEF IpcInv
  <2>7. m[2] \in Nat /\ n[2] \in Nat
    <3>1. m \in Msg /\ n \in Msg
      BY <2>4, Zenon DEF IpcInv, TypeOK
    <3>2. \A y \in Msg : y[2] \in Nat
      BY IpcConstants DEF Msg, MsgIds
    <3> QED
      BY <3>1, <3>2
  <2>8. CASE InChannel(x) /\ ~InQueue(x)
    <3>1. ~InChannel(m)
      BY <2>4, <2>7, <2>8 DEF InChannel, IpcInv, RungSound
    <3> QED
      BY <2>4, <2>5, <2>6, <2>8, <3>1
  <2>9. CASE queue # <<>> /\ x = queue[1]
    <3>1. 1 \in 1..Len(queue)
      BY <2>9, AtQueue
    <3>2. ~InQueue(m)
      BY <2>4, <2>7, <2>9, <3>1 DEF InQueue, IpcInv, QueueSound
    <3>3. ~InChannel(m)
      BY <2>4, <2>7, <2>9, <3>1 DEF InChannel, IpcInv, RungSound
    <3> QED
      BY <2>5, <3>2, <3>3
  <2> QED
    BY <2>3, <2>8, <2>9
<1>2. Spec => []IpcInv
  BY IpcInvariant
<1> QED
  BY <1>1, <1>2, PTL DEF Spec, OvertakesOnlyTheQueue
=============================================================================
