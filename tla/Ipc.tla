-------------------------------- MODULE Ipc --------------------------------
(***************************************************************************)
(* Message passing to one receiving process: the message queue             *)
(* (process/ipc.rs), the registry of fast channels (process/ipc_fast.rs)   *)
(* and the shared buffers with their doorbells (process/ipc_cap.rs).       *)
(*                                                                         *)
(* Senders and receiver are kernel threads of one core that the timer may  *)
(* preempt between any two steps.  The policy engine creates and reclaims  *)
(* channels inside the interrupt, so each of its operations is one step.   *)
(* A section under a spin lock is one step too; what an interrupt does to  *)
(* a thread that holds the lock is the subject of IrqLocks.                *)
(***************************************************************************)
EXTENDS Integers, Sequences, FiniteSets, SequencesExt

CONSTANTS
  SenderPids,   \* pids of the senders
  MaxMsgs,      \* bound: messages per sender
  Lens,         \* lengths of the messages, in the units of the doorbell
  SwSlots,      \* SW_SLOTS, the number of doorbells
  MaxCaps,      \* bound: capability ids handed out
  MaxIncoming,  \* channels one recv looks at (8)
  Frames,       \* physical frames of the allocator, by address
  AllowDrop,    \* whether the policy engine reclaims channels
  OtherUse      \* whether freed frames are given to other parts of the kernel

ASSUME IpcConstants ==
  /\ SenderPids \subseteq Nat /\ IsFiniteSet(SenderPids)
  /\ MaxMsgs \in Nat /\ Lens \subseteq Nat /\ SwSlots \in Nat \ {0}
  /\ MaxCaps \in Nat /\ MaxIncoming \in Nat /\ Frames \subseteq Nat
  /\ AllowDrop \in BOOLEAN /\ OtherUse \in BOOLEAN

CapId == 1..MaxCaps
NoCap == 0
NoFrame == -1
MsgIds == 1..MaxMsgs
Msg == SenderPids \X MsgIds
Blank == <<0, 0>>        \* a channel frame without a message
Foreign == <<0, 1>>      \* contents that belong to another user of the frame

VARIABLES
  channels,   \* FAST_CHANNELS, for this receiver
  buffers,    \* SHARED_BUFFERS: the frame behind a capability
  doorbell,   \* SW_DOORBELLS
  nextCap,    \* NEXT_CAP_ID
  owner,      \* who holds a frame: "free", "channel" or "other"
  memory,     \* contents of a frame
  queue,      \* Process::message_queue of the receiver
  spc,        \* where a sender is in send / send_switchless
  scap,       \* the CapId the sender looked up
  sva,        \* the write_va the sender fetched, as its frame
  slen,       \* the length of the message it is sending
  sent,       \* how many messages the sender has started to send
  rpc,        \* where the receiver is in recv / poll_switchless
  rlist,      \* incoming channels still to poll: (CapId, from)
  rbuf,       \* the message copied out of the frame
  accepted,   \* history: messages whose send returned true
  got         \* history: (attributed sender, message) recv returned

senderVars == <<spc, scap, sva, slen, sent>>
receiverVars == <<rpc, rlist, rbuf>>
channelVars == <<channels, buffers, nextCap, owner>>
vars == <<channelVars, doorbell, memory, queue, senderVars, receiverVars, accepted, got>>

sw_slot(c) == c % SwSlots
Current(s) == <<s, sent[s]>>

Init ==
  /\ channels = [s \in SenderPids |-> NoCap]
  /\ buffers = [c \in CapId |-> NoFrame]
  /\ doorbell = [i \in 0..(SwSlots - 1) |-> 0]
  /\ nextCap = 1
  /\ owner = [f \in Frames |-> "free"]
  /\ memory = [f \in Frames |-> Blank]
  /\ queue = <<>>
  /\ spc = [s \in SenderPids |-> "idle"]
  /\ scap = [s \in SenderPids |-> NoCap]
  /\ sva = [s \in SenderPids |-> NoFrame]
  /\ slen = [s \in SenderPids |-> 0]
  /\ sent = [s \in SenderPids |-> 0]
  /\ rpc = "idle"
  /\ rlist = <<>>
  /\ rbuf = Blank
  /\ accepted = {}
  /\ got = <<>>

---------------------------------------------------------------------------
(* ipc::send                                                               *)

\* send looks the channel up; without one it takes the queue.
SendLookup(s, len) ==
  /\ spc[s] = "idle" /\ sent[s] < MaxMsgs
  /\ sent' = [sent EXCEPT ![s] = @ + 1]
  /\ slen' = [slen EXCEPT ![s] = len]
  /\ scap' = [scap EXCEPT ![s] = channels[s]]
  /\ spc' = [spc EXCEPT ![s] = IF channels[s] = NoCap THEN "push" ELSE "fetch"]
  /\ UNCHANGED <<channelVars, doorbell, memory, queue, sva, receiverVars, accepted, got>>

\* send_message: the message goes to the end of the receiver's queue, in one
\* step, as if no tick fell inside push_back.  The counters it updates for
\* the policy engine are the subject of ChannelPolicy.
send_message(s) ==
  /\ spc[s] = "push"
  /\ queue' = Append(queue, Current(s))
  /\ accepted' = accepted \cup {Current(s)}
  /\ spc' = [spc EXCEPT ![s] = "idle"]
  /\ UNCHANGED <<channelVars, doorbell, memory, scap, sva, slen, sent, receiverVars, got>>

\* send_switchless under the lock: an unknown CapId fails the send.
SwitchlessFetch(s) ==
  /\ spc[s] = "fetch"
  /\ \/ /\ buffers[scap[s]] = NoFrame
        /\ spc' = [spc EXCEPT ![s] = "idle"]
        /\ UNCHANGED sva
     \/ /\ buffers[scap[s]] # NoFrame
        /\ spc' = [spc EXCEPT ![s] = "spin"]
        /\ sva' = [sva EXCEPT ![s] = buffers[scap[s]]]
  /\ UNCHANGED <<channelVars, doorbell, memory, queue, scap, slen, sent, receiverVars,
                 accepted, got>>

\* Mutant: the doorbell is rung before the data is written.
SwitchlessSpin_RingFirst(s) ==
  /\ spc[s] = "spin"
  /\ doorbell[sw_slot(scap[s])] = 0
  /\ doorbell' = [doorbell EXCEPT ![sw_slot(scap[s])] = slen[s]]
  /\ spc' = [spc EXCEPT ![s] = "write"]
  /\ UNCHANGED <<channelVars, memory, queue, scap, sva, slen, sent, receiverVars,
                 accepted, got>>

\* Mutant: the sender does not wait for the last message to be consumed.
SwitchlessSpin_NoWait(s) ==
  /\ spc[s] = "spin"
  /\ spc' = [spc EXCEPT ![s] = "write"]
  /\ UNCHANGED <<channelVars, doorbell, memory, queue, scap, sva, slen, sent, receiverVars,
                 accepted, got>>

\* The pause loop ends when the doorbell reads 0.
SwitchlessSpin(s) ==
  /\ spc[s] = "spin"
  /\ doorbell[sw_slot(scap[s])] = 0
  /\ spc' = [spc EXCEPT ![s] = "write"]
  /\ UNCHANGED <<channelVars, doorbell, memory, queue, scap, sva, slen, sent, receiverVars,
                 accepted, got>>

\* The data goes to the write_va fetched before the wait.
SwitchlessWrite(s) ==
  /\ spc[s] = "write"
  /\ memory' = [memory EXCEPT ![sva[s]] = Current(s)]
  /\ spc' = [spc EXCEPT ![s] = "ring"]
  /\ UNCHANGED <<channelVars, doorbell, queue, scap, sva, slen, sent, receiverVars,
                 accepted, got>>

\* Mutant: the length is stored with an off-by-one.
SwitchlessRing_OffByOne(s) ==
  /\ spc[s] = "ring"
  /\ doorbell' = [doorbell EXCEPT ![sw_slot(scap[s])] = slen[s] + 1]
  /\ accepted' = accepted \cup {Current(s)}
  /\ spc' = [spc EXCEPT ![s] = "idle"]
  /\ UNCHANGED <<channelVars, memory, queue, scap, sva, slen, sent, receiverVars, got>>

\* The doorbell gets the length and send returns true.
SwitchlessRing(s) ==
  /\ spc[s] = "ring"
  /\ doorbell' = [doorbell EXCEPT ![sw_slot(scap[s])] = slen[s]]
  /\ accepted' = accepted \cup {Current(s)}
  /\ spc' = [spc EXCEPT ![s] = "idle"]
  /\ UNCHANGED <<channelVars, memory, queue, scap, sva, slen, sent, receiverVars, got>>

---------------------------------------------------------------------------
(* ipc::recv                                                               *)

\* The channels to this receiver in the order of the map, that is by pid,
\* and no more than one recv looks at.  There is just one such sequence.
Incoming ==
  LET with == {s \in SenderPids : channels[s] # NoCap}
      n == Cardinality(with)
      ordered == {q \in [1..n -> with] : \A i, j \in 1..n : i < j => q[i] < q[j]}
  IN  {[i \in 1..(IF n < MaxIncoming THEN n ELSE MaxIncoming) |-> <<channels[q[i]], q[i]>>] :
         q \in ordered}

find_incoming_channels ==
  /\ rpc = "idle"
  /\ rlist' \in Incoming
  /\ rpc' = "poll"
  /\ UNCHANGED <<channelVars, doorbell, memory, queue, senderVars, rbuf, accepted, got>>

\* Mutant: the first doorbell that is not set ends the loop over the channels.
PollDoorbell_StopsAtFirst ==
  /\ rpc = "poll" /\ rlist # <<>>
  /\ LET slot == sw_slot(Head(rlist)[1]) IN
       \/ doorbell[slot] = 0 /\ rlist' = <<>> /\ UNCHANGED rpc
       \/ doorbell[slot] # 0 /\ rpc' = "read" /\ UNCHANGED rlist
  /\ UNCHANGED <<channelVars, doorbell, memory, queue, senderVars, rbuf, accepted, got>>

\* poll_switchless loads the doorbell; 0 means nothing there.
PollDoorbell ==
  /\ rpc = "poll" /\ rlist # <<>>
  /\ LET slot == sw_slot(Head(rlist)[1]) IN
       \/ doorbell[slot] = 0 /\ rlist' = Tail(rlist) /\ UNCHANGED rpc
       \/ doorbell[slot] # 0 /\ rpc' = "read" /\ UNCHANGED rlist
  /\ UNCHANGED <<channelVars, doorbell, memory, queue, senderVars, rbuf, accepted, got>>

\* Under the lock: a reclaimed CapId gives None, else the frame is copied.
PollRead ==
  /\ rpc = "read"
  /\ LET f == buffers[Head(rlist)[1]] IN
       \/ f = NoFrame /\ rlist' = Tail(rlist) /\ rpc' = "poll" /\ UNCHANGED rbuf
       \/ f # NoFrame /\ rbuf' = memory[f] /\ rpc' = "clear" /\ UNCHANGED rlist
  /\ UNCHANGED <<channelVars, doorbell, memory, queue, senderVars, accepted, got>>

\* The doorbell is cleared and recv returns the message.
PollClear ==
  /\ rpc = "clear"
  /\ doorbell' = [doorbell EXCEPT ![sw_slot(Head(rlist)[1])] = 0]
  /\ got' = Append(got, <<Head(rlist)[2], rbuf>>)
  /\ rpc' = "idle"
  /\ rlist' = <<>> /\ rbuf' = Blank
  /\ UNCHANGED <<channelVars, memory, queue, senderVars, accepted>>

\* Mutant: the newest message of the queue is taken.
recv_message_Newest ==
  /\ rpc = "poll" /\ rlist = <<>>
  /\ rpc' = "idle"
  /\ \/ queue = <<>> /\ UNCHANGED <<queue, got>>
     \/ /\ queue # <<>>
        /\ got' = Append(got, <<Last(queue)[1], Last(queue)>>)
        /\ queue' = Front(queue)
  /\ UNCHANGED <<channelVars, doorbell, memory, senderVars, rlist, rbuf, accepted>>

\* With no doorbell set, recv takes the front of the queue, or returns None.
recv_message ==
  /\ rpc = "poll" /\ rlist = <<>>
  /\ rpc' = "idle"
  /\ \/ queue = <<>> /\ UNCHANGED <<queue, got>>
     \/ /\ queue # <<>>
        /\ got' = Append(got, <<Head(queue)[1], Head(queue)>>)
        /\ queue' = Tail(queue)
  /\ UNCHANGED <<channelVars, doorbell, memory, senderVars, rlist, rbuf, accepted>>

---------------------------------------------------------------------------
(* Policy engine and frame allocator, inside interrupts                    *)

\* alloc_frame hands out the free frame with the lowest address.
LowestFree(f) == owner[f] = "free" /\ \A g \in Frames : owner[g] = "free" => f <= g

\* ensure_channel_cap; verify_channel_isolation leaves a blank frame behind.
ensure_channel_cap(s) ==
  /\ channels[s] = NoCap /\ nextCap <= MaxCaps
  /\ \E f \in Frames :
       /\ LowestFree(f)
       /\ owner' = [owner EXCEPT ![f] = "channel"]
       /\ memory' = [memory EXCEPT ![f] = Blank]
       /\ buffers' = [buffers EXCEPT ![nextCap] = f]
  /\ channels' = [channels EXCEPT ![s] = nextCap]
  /\ doorbell' = [doorbell EXCEPT ![sw_slot(nextCap)] = 0]
  /\ nextCap' = nextCap + 1
  /\ UNCHANGED <<queue, senderVars, receiverVars, accepted, got>>

\* drop_channel: the buffer goes and its frame is free; the doorbell stays.
drop_channel(s) ==
  /\ AllowDrop /\ channels[s] # NoCap
  /\ channels' = [channels EXCEPT ![s] = NoCap]
  /\ buffers' = [buffers EXCEPT ![channels[s]] = NoFrame]
  /\ owner' = [owner EXCEPT ![buffers[channels[s]]] = "free"]
  /\ UNCHANGED <<nextCap, doorbell, memory, queue, senderVars, receiverVars, accepted, got>>

\* Another part of the kernel takes a frame and fills it.
OtherAlloc(f) ==
  /\ OtherUse /\ LowestFree(f)
  /\ owner' = [owner EXCEPT ![f] = "other"]
  /\ memory' = [memory EXCEPT ![f] = Foreign]
  /\ UNCHANGED <<channels, buffers, nextCap, doorbell, queue, senderVars, receiverVars,
                 accepted, got>>

---------------------------------------------------------------------------

SenderStep(s) ==
  \/ \E len \in Lens : SendLookup(s, len)
  \/ send_message(s)
  \/ SwitchlessFetch(s)
  \/ SwitchlessSpin(s)
  \/ SwitchlessWrite(s)
  \/ SwitchlessRing(s)

ReceiverStep ==
  \/ find_incoming_channels
  \/ PollDoorbell
  \/ PollRead
  \/ PollClear
  \/ recv_message

PolicyStep ==
  \/ \E s \in SenderPids : ensure_channel_cap(s) \/ drop_channel(s)
  \/ \E f \in Frames : OtherAlloc(f)

Next == (\E s \in SenderPids : SenderStep(s)) \/ ReceiverStep \/ PolicyStep

Spec == Init /\ [][Next]_vars

\* What a thread does that has begun a send.
SendGoesOn(s) ==
  \/ send_message(s) \/ SwitchlessFetch(s) \/ SwitchlessSpin(s)
  \/ SwitchlessWrite(s) \/ SwitchlessRing(s)

\* The scheduler keeps running every Ready thread (Scheduler!NoStarvation),
\* the receiver calls recv in a loop, and the steps of a thread that has
\* begun a send go on.  Starting another send is up to the sender.
Fairness ==
  /\ WF_vars(ReceiverStep)
  /\ \A s \in SenderPids : WF_vars(SendGoesOn(s))
FairSpec == Spec /\ Fairness

---------------------------------------------------------------------------
(* Properties                                                              *)

TypeOK ==
  /\ channels \in [SenderPids -> CapId \cup {NoCap}]
  /\ buffers \in [CapId -> Frames \cup {NoFrame}]
  /\ doorbell \in [0..(SwSlots - 1) -> Lens \cup {0}]
  /\ nextCap \in 1..(MaxCaps + 1)
  /\ owner \in [Frames -> {"free", "channel", "other"}]
  /\ memory \in [Frames -> Msg \cup {Blank, Foreign}]
  /\ queue \in Seq(Msg)
  /\ spc \in [SenderPids -> {"idle", "push", "fetch", "spin", "write", "ring"}]
  /\ scap \in [SenderPids -> CapId \cup {NoCap}]
  /\ sva \in [SenderPids -> Frames \cup {NoFrame}]
  /\ slen \in [SenderPids -> Lens \cup {0}]
  /\ sent \in [SenderPids -> 0..MaxMsgs]
  /\ rpc \in {"idle", "poll", "read", "clear"}
  /\ rlist \in Seq(CapId \X SenderPids)
  /\ rbuf \in Msg \cup {Blank, Foreign}
  /\ accepted \subseteq Msg
  /\ got \in Seq(SenderPids \X (Msg \cup {Blank, Foreign}))

Received == {got[i][2] : i \in 1..Len(got)}

\* The messages on their way: in the queue, or in the frame of a channel
\* whose doorbell is set.
OnTheWay ==
  Range(queue) \cup
  {memory[buffers[channels[s]]] :
     s \in {t \in SenderPids : channels[t] # NoCap /\ doorbell[sw_slot(channels[t])] # 0}}

\* Seen from outside, the two paths together are one reliable mailbox: a
\* message whose send returned true is there until recv returns it, once,
\* under the name of its sender.
Box == INSTANCE Mailbox WITH Senders <- SenderPids, inFlight <- OnTheWay, received <- got
ImplementsMailbox == Box!Spec

\* Of the messages of one sender, a later one n is received before an earlier
\* one m only if m still waits in the queue and n came through a channel: the
\* queue keeps the order, a channel overtakes it, and nothing else reorders.
OvertakesOnlyTheQueue ==
  [][\A m \in accepted \ Received, n \in Received' \ Received :
       m[1] = n[1] /\ m[2] < n[2] => m \in Range(queue) /\ n \notin Range(queue)]_vars

\* A message that is on its way stays there until recv takes it; only the
\* reclaiming of a channel makes one disappear.
LostOnlyByReclaim ==
  [][\/ OnTheWay \subseteq OnTheWay' \cup Received'
     \/ \E s \in SenderPids : channels[s] # NoCap /\ channels'[s] = NoCap]_vars

\* A frame that another part of the kernel owns keeps its contents: no sender
\* writes through the address of a channel that has been reclaimed.
ForeignFramesIntact == \A f \in Frames : owner[f] = "other" => memory[f] = Foreign

\* From some time on nobody starts another send.
SendersRest == <>[][\A s \in SenderPids : sent'[s] = sent[s]]_vars

\* No sender waits for its doorbell, in a loop that has no other way out, and
\* every message whose send returned true has reached the receiver.
AllThrough ==
  /\ \A s \in SenderPids : spc[s] # "spin"
  /\ accepted \subseteq Received

\* Once no more sends are started, every waiting sender gets on and everything
\* that was sent arrives for good, on either path and whenever a channel
\* appeared.  The premise is needed: recv returns at the first doorbell that is
\* set, so a channel that is never silent keeps it from the queue and the later
\* channels.
EverySendArrives == SendersRest => <>[]AllThrough
=============================================================================
