------------------------------- MODULE Virtio --------------------------------
(* The virtio drivers: the polled request of the block driver with its       *)
(* deadline (virtio/blk.rs) and the receive queue of the network driver      *)
(* (virtio/net.rs, virtio/queue.rs).  The devices are external: they take a  *)
(* posted chain when they like and finish it when they like.  Ring indices   *)
(* wrap at IDX_MOD, as u16 wraps at 2^16.                                    *)
EXTENDS Naturals, Sequences

CONSTANTS QSIZE,      \* entries of a ring
          IDX_MOD,    \* a multiple of QSIZE
          RX_BUFS,    \* receive buffers posted at start, at most QSIZE
          Sectors,    \* sectors of the disk
          Values,     \* contents of a sector; 0 at first
          MaxBlk      \* bound: block requests

ASSUME VirtioAssumption ==
    /\ QSIZE \in Nat \ {0} /\ RX_BUFS \in 1 .. QSIZE
    /\ IDX_MOD \in Nat /\ IDX_MOD % QSIZE = 0 /\ IDX_MOD >= 2 * QSIZE
    /\ MaxBlk \in Nat

Inc(i)  == (i + 1) % IDX_MOD
Slot(i) == i % QSIZE

----------------------------------------------------------------------------
(* Block requests.  Every request uses descriptors 0, 1 and 2, and its       *)
(* status byte lives in the same stack slot of do_request.                   *)

VARIABLES disk,      \* the device: sector -> value
          chain,     \* the descriptors 0, 1, 2 as last written
          posted,    \* avail_idx
          fetched,   \* <<>> or <<chain>>: what the device is working on
          done,      \* used_idx
          taken,     \* the device's own position in the available ring
          last_used,
          status,    \* the status byte on the driver's stack
          buf,       \* the caller's buffer
          blk_pc,    \* "idle" or "polling"
          answer,    \* what the last do_request returned
          requests,  \* requests made, capped by MaxBlk
          late       \* history: a request was given up before the device finished

blkVars == <<disk, chain, posted, fetched, done, taken, last_used, status, buf,
             blk_pc, answer, requests, late>>

NoChain == [op |-> "none", sector |-> 0, device_writes |-> FALSE, value |-> 0]

BlkInit ==
    /\ disk = [s \in Sectors |-> 0] /\ chain = NoChain
    /\ posted = 0 /\ fetched = << >> /\ done = 0 /\ taken = 0 /\ last_used = 0
    /\ status = 255 /\ buf = 0 /\ blk_pc = "idle" /\ answer = FALSE
    /\ requests = 0 /\ late = FALSE

\* A plausible bug: the data descriptor of a read is not marked writable.
do_request_ReadOnlyData(op, sector, value) ==
    /\ blk_pc = "idle" /\ requests < MaxBlk
    /\ chain' = [op |-> op, sector |-> sector, device_writes |-> FALSE, value |-> value]
    /\ status' = 255 /\ buf' = (IF op = "read" THEN buf ELSE value)
    /\ posted' = Inc(posted) /\ blk_pc' = "polling"
    /\ answer' = FALSE /\ requests' = requests + 1
    /\ UNCHANGED <<disk, fetched, done, taken, last_used, late>>

\* The start of do_request: descriptors, available ring, notification.
do_request(op, sector, value) ==
    /\ blk_pc = "idle" /\ requests < MaxBlk
    /\ chain' = [op |-> op, sector |-> sector, device_writes |-> op = "read",
                 value |-> value]
    /\ status' = 255 /\ buf' = (IF op = "read" THEN buf ELSE value)
    /\ posted' = Inc(posted) /\ blk_pc' = "polling"
    /\ answer' = FALSE /\ requests' = requests + 1
    /\ UNCHANGED <<disk, fetched, done, taken, last_used, late>>

\* The polling loop of do_request sees the used index move.
PollUsed ==
    /\ blk_pc = "polling" /\ done # last_used
    /\ last_used' = Inc(last_used) /\ blk_pc' = "idle" /\ answer' = (status = 0)
    /\ UNCHANGED <<disk, chain, posted, fetched, done, taken, status, buf, requests, late>>

\* The deadline passes first; the chain stays posted.
PollTimeout ==
    /\ blk_pc = "polling" /\ done = last_used
    /\ blk_pc' = "idle" /\ late' = TRUE
    /\ UNCHANGED <<disk, chain, posted, fetched, done, taken, last_used, status, buf,
                   answer, requests>>

\* The device reads the chain of the next available entry.
DeviceFetch ==
    /\ fetched = << >> /\ taken # posted
    /\ fetched' = <<chain>> /\ taken' = Inc(taken)
    /\ UNCHANGED <<disk, chain, posted, done, last_used, status, buf, blk_pc, answer,
                   requests, late>>

\* The device fails: it reports the chain used, with an error status.
DeviceFail ==
    /\ fetched # << >>
    /\ status' = 1 /\ done' = Inc(done) /\ fetched' = << >>
    /\ UNCHANGED <<disk, chain, posted, taken, last_used, buf, blk_pc, answer, requests, late>>

\* The device carries it out and reports it used.
DeviceFinish ==
    /\ fetched # << >>
    /\ LET c == fetched[1]
       IN /\ disk' = IF c.op = "write" THEN [disk EXCEPT ![c.sector] = buf] ELSE disk
          /\ buf' = IF c.op = "read" /\ c.device_writes THEN disk[c.sector] ELSE buf
    /\ status' = 0 /\ done' = Inc(done) /\ fetched' = << >>
    /\ UNCHANGED <<chain, posted, taken, last_used, blk_pc, answer, requests, late>>

BlkNext ==
    \/ \E s \in Sectors : do_request("read", s, 0) \/ \E v \in Values : do_request("write", s, v)
    \/ PollUsed \/ PollTimeout \/ DeviceFetch \/ DeviceFinish \/ DeviceFail

BlkSpec == BlkInit /\ [][BlkNext]_blkVars

(* As long as no request was given up at its deadline, a request that        *)
(* reports success did its own work: a read left the sector's contents in    *)
(* the buffer, a write left its value in the sector, also across the wrap of *)
(* the ring indices.                                                         *)
BlkAnswersThisRequest ==
    answer /\ blk_pc = "idle" /\ ~late =>
        /\ chain.op = "read" => buf = disk[chain.sector]
        /\ chain.op = "write" => disk[chain.sector] = chain.value

----------------------------------------------------------------------------
(* The receive queue: RX_BUFS buffers that circulate between the available   *)
(* ring, the device and the used ring.                                       *)

VARIABLES rx_avail,  \* available ring: slot -> buffer
          rx_ai,     \* Queue.ai
          rx_dev,    \* the device's position in the available ring
          rx_used,   \* used ring: slot -> buffer
          rx_ui,     \* used index
          rx_lu,     \* Queue.lu
          rx_buf,    \* buffer -> frame
          arrived    \* history: frames the device took and try_recv has not returned

rxVars == <<rx_avail, rx_ai, rx_dev, rx_used, rx_ui, rx_lu, rx_buf, arrived>>
RxSlots == 0 .. QSIZE - 1
EmptyFrame == [kind |-> "none", ip |-> 0, mac |-> 0, ping |-> 0]

\* VirtioNet::init and post_rx_all
post_rx_all ==
    /\ rx_avail = [i \in RxSlots |-> IF i < RX_BUFS THEN i ELSE 0]
    /\ rx_ai = RX_BUFS % IDX_MOD /\ rx_dev = 0
    /\ rx_used = [i \in RxSlots |-> 0] /\ rx_ui = 0 /\ rx_lu = 0
    /\ rx_buf = [i \in 0 .. RX_BUFS - 1 |-> EmptyFrame] /\ arrived = << >>

\* The device puts a frame from the network into the next posted buffer.
DeviceReceive(frame) ==
    /\ rx_dev # rx_ai
    /\ LET id == rx_avail[Slot(rx_dev)]
       IN /\ rx_buf' = [rx_buf EXCEPT ![id] = frame]
          /\ rx_used' = [rx_used EXCEPT ![Slot(rx_ui)] = id]
    /\ rx_ui' = Inc(rx_ui) /\ rx_dev' = Inc(rx_dev)
    /\ arrived' = Append(arrived, frame)
    /\ UNCHANGED <<rx_avail, rx_ai, rx_lu>>

HasFrame  == rx_ui # rx_lu
NextFrame == rx_buf[rx_used[Slot(rx_lu)]]

\* try_recv: copies the frame out and posts its buffer again, whose contents
\* are dead until the device fills it.
try_recv ==
    /\ HasFrame /\ rx_lu' = Inc(rx_lu)
    /\ rx_avail' = [rx_avail EXCEPT ![Slot(rx_ai)] = rx_used[Slot(rx_lu)]]
    /\ rx_buf' = [rx_buf EXCEPT ![rx_used[Slot(rx_lu)]] = EmptyFrame]
    /\ rx_ai' = Inc(rx_ai) /\ arrived' = Tail(arrived)
    /\ UNCHANGED <<rx_dev, rx_used, rx_ui>>

(* The used ring always holds exactly the frames that arrived and were not   *)
(* returned, in their order: no buffer is given back to the device before    *)
(* its frame was copied, and none is lost from circulation.                  *)
FramesInOrder ==
    /\ (rx_ui + IDX_MOD - rx_lu) % IDX_MOD = Len(arrived)
    /\ \A k \in 1 .. Len(arrived) :
          rx_buf[rx_used[Slot(rx_lu + k - 1)]] = arrived[k]
    /\ (rx_ai + IDX_MOD - rx_lu) % IDX_MOD = RX_BUFS % IDX_MOD

(* Both drivers read the used rings right: what they report was done, and    *)
(* nothing is lost or repeated across the wrap of the indices.               *)
RingsReadRight == BlkAnswersThisRequest /\ FramesInOrder
=============================================================================
