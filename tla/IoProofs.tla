------------------------------ MODULE IoProofs -------------------------------
(***************************************************************************)
(* Proofs about the virtio drivers and the network stack, for every size   *)
(* of the rings, every modulus of their indices, every number of receive   *)
(* buffers, hosts and entries of the ARP cache; and about what comes in    *)
(* from keys, mouse and pipes, for every size of the rings, every screen   *)
(* and every set of windows and of watched descriptors.                    *)
(***************************************************************************)
EXTENDS Net, Input, FiniteSetTheorems, WellFoundedInduction, TLAPS

(* Arithmetic of the ring indices.                                          *)

LEMMA ModRange ==
  ASSUME NEW m \in Nat \ {0}, NEW a \in Nat
  PROVE  \E q \in Nat, r \in 0 .. m - 1 : a = m * q + r /\ a % m = r
OBVIOUS

LEMMA ModUnique ==
  ASSUME NEW m \in Nat \ {0}, NEW a \in Nat, NEW q \in Nat, NEW r \in 0 .. m - 1, a = m * q + r
  PROVE  a % m = r
<1>1. PICK p \in Nat, s \in 0 .. m - 1 : a = m * p + s /\ a % m = s
  BY ModRange
<1>2. ASSUME NEW x \in Nat, NEW y \in Nat, NEW u \in 0 .. m - 1, NEW v \in 0 .. m - 1, x < y,
             m * x + u = m * y + v
      PROVE  FALSE
  <2>1. PICK k \in Nat : y = x + 1 + k
    <3>1. y - x - 1 \in Nat /\ y = x + 1 + (y - x - 1)
      BY <1>2
    <3> QED
      BY <3>1
  <2>2. m * y = m * x + m + m * k
    BY <2>1
  <2>3. m * k \in Nat /\ m * x \in Nat
    OBVIOUS
  <2> QED
    BY <1>2, <2>2, <2>3
<1>3. ~(p < q) /\ ~(q < p)
  BY <1>1, <1>2
<1> QED
  BY <1>1, <1>3

LEMMA ModSmall ==
  ASSUME NEW m \in Nat \ {0}, NEW a \in 0 .. m - 1
  PROVE  a % m = a
<1>1. a = m * 0 + a
  OBVIOUS
<1> QED
  BY <1>1, ModUnique

\* Entries less than a ring apart are in different slots.
LEMMA ModApart ==
  ASSUME NEW m \in Nat \ {0}, NEW a \in Nat, NEW b \in Nat, a < b, b < a + m
  PROVE  a % m # b % m
<1>1. PICK p \in Nat, s \in 0 .. m - 1 : a = m * p + s /\ a % m = s
  BY ModRange
<1>2. CASE s + (b - a) < m
  <2>1. b = m * p + (s + (b - a)) /\ s + (b - a) \in 0 .. m - 1
    BY <1>1, <1>2
  <2>2. PICK r \in 0 .. m - 1 : r = s + (b - a) /\ b = m * p + r
    BY <2>1
  <2>3. b % m = r
    BY <2>2, ModUnique
  <2> QED
    BY <1>1, <2>2, <2>3
<1>3. CASE s + (b - a) >= m
  <2>1. b = m * (p + 1) + (s + (b - a) - m) /\ s + (b - a) - m \in 0 .. m - 1
    BY <1>1, <1>3
  <2>2. PICK c \in Nat, r \in 0 .. m - 1 : c = p + 1 /\ r = s + (b - a) - m /\ b = m * c + r
    BY <2>1
  <2>3. b % m = r
    BY <2>2, ModUnique
  <2> QED
    BY <1>1, <2>2, <2>3
<1> QED
  BY <1>2, <1>3

\* The indices wrap at a multiple of the ring's size: an index and the
\* position it stands for are in the same slot.
LEMMA SlotOfIndex ==
  ASSUME NEW a \in Nat, NEW k \in Nat
  PROVE  Slot((a % IDX_MOD) + k) = Slot(a + k)
<1>1. QSIZE \in Nat \ {0} /\ IDX_MOD \in Nat \ {0} /\ IDX_MOD % QSIZE = 0
  BY VirtioAssumption
<1>2. PICK j \in Nat : IDX_MOD = QSIZE * j
  <2>1. PICK q \in Nat, r \in 0 .. QSIZE - 1 : IDX_MOD = QSIZE * q + r /\ IDX_MOD % QSIZE = r
    BY <1>1, ModRange
  <2>2. IDX_MOD = QSIZE * q
    BY <1>1, <2>1
  <2> QED
    BY <2>2
<1>3. PICK p \in Nat, s \in 0 .. IDX_MOD - 1 : a = IDX_MOD * p + s /\ a % IDX_MOD = s
  BY <1>1, ModRange
<1>4. PICK q \in Nat, r \in 0 .. QSIZE - 1 : s + k = QSIZE * q + r /\ (s + k) % QSIZE = r
  <2>1. s + k \in Nat
    OBVIOUS
  <2> QED
    BY <1>1, <2>1, ModRange
<1>5. a + k = QSIZE * (j * p + q) + r
  BY <1>1, <1>2, <1>3, <1>4
<1>6. PICK c \in Nat, x \in Nat : c = j * p + q /\ x = a + k
  OBVIOUS
<1>7. x % QSIZE = r
  <2>1. x = QSIZE * c + r
    BY <1>5, <1>6
  <2> QED
    BY <1>1, <2>1, ModUnique
<1> QED
  BY <1>3, <1>4, <1>6, <1>7 DEF Slot

\* One turn at most between two indices.
LEMMA IndexAhead ==
  ASSUME NEW i \in 0 .. IDX_MOD - 1, NEW n \in 0 .. IDX_MOD - 1
  PROVE  /\ (i + n) % IDX_MOD = IF i + n < IDX_MOD THEN i + n ELSE i + n - IDX_MOD
         /\ (((i + n) % IDX_MOD) + IDX_MOD - i) % IDX_MOD = n
<1>1. IDX_MOD \in Nat \ {0}
  BY VirtioAssumption
<1>2. CASE i + n < IDX_MOD
  <2>1. (i + n) % IDX_MOD = i + n
    BY <1>1, <1>2, ModSmall
  <2>2. i + n + IDX_MOD - i = IDX_MOD * 1 + n /\ i + n + IDX_MOD - i \in Nat
    BY <1>1
  <2>3. (i + n + IDX_MOD - i) % IDX_MOD = n
    BY <1>1, <2>2, ModUnique
  <2> QED
    BY <1>2, <2>1, <2>3
<1>3. CASE i + n >= IDX_MOD
  <2>1. i + n = IDX_MOD * 1 + (i + n - IDX_MOD) /\ i + n - IDX_MOD \in 0 .. IDX_MOD - 1
    BY <1>1, <1>3
  <2>2. (i + n) % IDX_MOD = i + n - IDX_MOD
    BY <1>1, <2>1, ModUnique
  <2>3. i + n - IDX_MOD + IDX_MOD - i = n
    BY <1>1
  <2>4. n % IDX_MOD = n
    BY <1>1, ModSmall
  <2> QED
    BY <1>1, <1>3, <2>2, <2>3, <2>4
<1> QED
  BY <1>1, <1>2, <1>3

LEMMA IncMoves ==
  ASSUME NEW i \in 0 .. IDX_MOD - 1
  PROVE  Inc(i) \in 0 .. IDX_MOD - 1 /\ Inc(i) # i
<1>1. IDX_MOD \in Nat /\ IDX_MOD >= 2
  BY VirtioAssumption
<1>2. (i + 1) % IDX_MOD = IF i + 1 < IDX_MOD THEN i + 1 ELSE i + 1 - IDX_MOD
  BY <1>1, IndexAhead
<1> QED
  BY <1>1, <1>2 DEF Inc
LEMMA LeastOf ==
  ASSUME NEW S \in SUBSET Nat, S # {}
  PROVE  \E x \in S : \A y \in S : x <= y
<1>1. IsWellFoundedOn(OpToRel(<, Nat), Nat)
  BY NatLessThanWellFounded
<1>2. PICK x \in S : \A y \in S : ~(<<y, x>> \in OpToRel(<, Nat))
  BY <1>1, WFMin
<1>3. \A y \in S : ~(y < x)
  BY <1>2 DEF OpToRel
<1>4. \A y \in S : x <= y
  BY <1>3
<1> QED
  BY <1>4

---------------------------------------------------------------------------
(* The block driver.                                                        *)

Index == 0 .. IDX_MOD - 1
DiskContents == Values \cup {0}

\* A request as do_request writes it: on a sector of the disk, with a data
\* descriptor the device may write exactly when it has to.
Chains == {c \in [op: {"none", "read", "write"}, sector: Sectors \cup {0},
                  device_writes: BOOLEAN, value: DiskContents] :
             /\ c.op # "none" => c.sector \in Sectors
             /\ c.op = "read" => c.device_writes}

BlkShape ==
  /\ disk \in [Sectors -> DiskContents] /\ chain \in Chains /\ buf \in DiskContents
  /\ fetched \in {<< >>} \cup {<<c>> : c \in Chains}
  /\ last_used \in Index /\ answer \in BOOLEAN /\ late \in BOOLEAN

\* The work of the chain is done.
Served ==
  /\ chain.op = "read" => buf = disk[chain.sector]
  /\ chain.op = "write" => disk[chain.sector] = chain.value

\* Between two requests the four indices are equal.
Quiet ==
  /\ blk_pc = "idle" /\ fetched = << >>
  /\ posted = last_used /\ taken = last_used /\ done = last_used
  /\ answer => Served

\* During one the device is one entry behind: before, at or after its work.
InFlight ==
  /\ blk_pc = "polling" /\ posted = Inc(last_used) /\ chain.op # "none"
  /\ chain.op = "write" => buf = chain.value
  /\ \/ fetched = << >> /\ taken = last_used /\ done = last_used
     \/ fetched = <<chain>> /\ taken = posted /\ done = last_used
     \/ fetched = << >> /\ taken = posted /\ done = posted /\ (status = 0 => Served)

BlkInv == BlkShape /\ (late \/ Quiet \/ InFlight)

LEMMA BlkInitInv == BlkInit => BlkInv
<1> SUFFICES ASSUME BlkInit PROVE BlkInv
  OBVIOUS
<1>1. 0 \in Index /\ IDX_MOD \in Nat
  BY VirtioAssumption DEF Index
<1>2. NoChain \in Chains
  BY DEF NoChain, Chains, DiskContents
<1>3. BlkShape
  BY <1>1, <1>2 DEF BlkInit, BlkShape, DiskContents
<1>4. Quiet
  BY DEF BlkInit, Quiet
<1> QED
  BY <1>3, <1>4 DEF BlkInv

LEMMA BlkRequest ==
  ASSUME BlkInv, NEW op \in {"read", "write"}, NEW s \in Sectors, NEW v \in DiskContents,
         do_request(op, s, v)
  PROVE  BlkInv'
<1>1. PICK c : c = [op |-> op, sector |-> s, device_writes |-> op = "read", value |-> v]
  OBVIOUS
<1>2. c \in Chains /\ c.op = op /\ c.value = v
  BY <1>1 DEF Chains
<1>3. chain' = c
  BY <1>1 DEF do_request
<1>4. BlkShape'
  BY <1>2, <1>3 DEF BlkInv, BlkShape, do_request
<1>5. CASE late
  BY <1>4, <1>5 DEF BlkInv, do_request
<1>6. CASE Quiet
  <2>1. InFlight'
    BY <1>2, <1>3, <1>6 DEF Quiet, InFlight, do_request
  <2> QED
    BY <1>4, <2>1 DEF BlkInv
<1>7. CASE InFlight
  BY <1>7 DEF InFlight, do_request
<1> QED
  BY <1>5, <1>6, <1>7 DEF BlkInv

LEMMA BlkPoll ==
  ASSUME BlkInv, PollUsed \/ PollTimeout
  PROVE  BlkInv'
<1>1. CASE PollUsed
  <2>1. last_used \in Index /\ Inc(last_used) \in Index
    BY IncMoves DEF BlkInv, BlkShape, Index
  <2>2. BlkShape'
    BY <1>1, <2>1 DEF BlkInv, BlkShape, PollUsed
  <2>3. CASE late
    BY <1>1, <2>2, <2>3 DEF BlkInv, PollUsed
  <2>4. CASE InFlight
    <3>1. Quiet'
      BY <1>1, <2>4 DEF InFlight, Quiet, Served, PollUsed
    <3> QED
      BY <2>2, <3>1 DEF BlkInv
  <2> QED
    BY <1>1, <2>3, <2>4 DEF BlkInv, Quiet, PollUsed
<1>2. CASE PollTimeout
  BY <1>2 DEF BlkInv, BlkShape, PollTimeout
<1> QED
  BY <1>1, <1>2

LEMMA BlkFetch ==
  ASSUME BlkInv, DeviceFetch
  PROVE  BlkInv'
<1>1. BlkShape'
  BY DEF BlkInv, BlkShape, DeviceFetch
<1>2. CASE late
  BY <1>1, <1>2 DEF BlkInv, DeviceFetch
<1>3. CASE Quiet
  BY <1>3 DEF Quiet, DeviceFetch
<1>4. CASE InFlight
  <2>1. InFlight'
    BY <1>4 DEF InFlight, Served, DeviceFetch
  <2> QED
    BY <1>1, <2>1 DEF BlkInv
<1> QED
  BY <1>2, <1>3, <1>4 DEF BlkInv

LEMMA BlkFail ==
  ASSUME BlkInv, DeviceFail
  PROVE  BlkInv'
<1>1. BlkShape'
  BY DEF BlkInv, BlkShape, DeviceFail
<1>2. CASE late
  BY <1>1, <1>2 DEF BlkInv, DeviceFail
<1>3. CASE Quiet
  BY <1>3 DEF Quiet, DeviceFail
<1>4. CASE InFlight
  <2>1. InFlight'
    BY <1>4 DEF InFlight, Served, DeviceFail
  <2> QED
    BY <1>1, <2>1 DEF BlkInv
<1> QED
  BY <1>2, <1>3, <1>4 DEF BlkInv

LEMMA BlkFinish ==
  ASSUME BlkInv, DeviceFinish
  PROVE  BlkInv'
<1>1. PICK c \in Chains : fetched = <<c>>
  BY DEF BlkInv, BlkShape, DeviceFinish
<1>2. fetched[1] = c
  BY <1>1
<1>3. /\ disk' = IF c.op = "write" THEN [disk EXCEPT ![c.sector] = buf] ELSE disk
      /\ buf' = IF c.op = "read" /\ c.device_writes THEN disk[c.sector] ELSE buf
      /\ done' = Inc(done) /\ fetched' = << >>
      /\ UNCHANGED <<chain, posted, taken, last_used, blk_pc, answer, requests, late>>
  BY <1>2 DEF DeviceFinish
<1>4. /\ c.op # "none" => c.sector \in Sectors
      /\ c.op = "read" => c.device_writes
  BY DEF Chains
<1>5. disk \in [Sectors -> DiskContents] /\ buf \in DiskContents
  BY DEF BlkInv, BlkShape
<1>6. disk' \in [Sectors -> DiskContents] /\ buf' \in DiskContents
  BY <1>3, <1>4, <1>5
<1>7. BlkShape'
  BY <1>3, <1>6 DEF BlkInv, BlkShape
<1>8. CASE late
  BY <1>3, <1>7, <1>8 DEF BlkInv
<1>9. CASE Quiet
  BY <1>1, <1>9 DEF Quiet
<1>10. CASE InFlight
  <2>1. chain = c /\ done = last_used /\ posted = Inc(last_used) /\ taken = posted
    BY <1>1, <1>10 DEF InFlight
  <2>2. Served'
    BY <1>3, <1>4, <1>5, <1>10, <2>1 DEF Served, InFlight
  <2>3. (chain.op = "write" => buf = chain.value)'
    BY <1>3, <1>10, <2>1 DEF InFlight
  <2>4. InFlight'
    BY <1>3, <1>10, <2>1, <2>2, <2>3 DEF InFlight
  <2> QED
    BY <1>7, <2>4 DEF BlkInv
<1> QED
  BY <1>8, <1>9, <1>10 DEF BlkInv

\* The block driver answers for its own request (do_request of
\* virtio/blk.rs): with one chain at a time and equal indices in between,
\* the used index never moves for another request until one was given up.
THEOREM BlockAnswers == BlkSpec => []BlkAnswersThisRequest
<1>1. BlkInv /\ [BlkNext]_blkVars => BlkInv'
  <2> SUFFICES ASSUME BlkInv, [BlkNext]_blkVars PROVE BlkInv'
    OBVIOUS
  <2>1. CASE UNCHANGED blkVars
    BY <2>1 DEF blkVars, BlkInv, BlkShape, Quiet, InFlight, Served
  <2>2. ASSUME NEW s \in Sectors, do_request("read", s, 0) PROVE BlkInv'
    BY <2>2, BlkRequest DEF DiskContents
  <2>3. ASSUME NEW s \in Sectors, NEW v \in Values, do_request("write", s, v) PROVE BlkInv'
    BY <2>3, BlkRequest DEF DiskContents
  <2> QED
    BY <2>1, <2>2, <2>3, BlkPoll, BlkFetch, BlkFinish, BlkFail DEF BlkNext
<1>2. BlkInv => BlkAnswersThisRequest
  BY DEF BlkInv, Quiet, InFlight, Served, BlkAnswersThisRequest
<1> QED
  BY <1>1, <1>2, BlkInitInv, PTL DEF BlkSpec

---------------------------------------------------------------------------
(* The receive queue.                                                       *)

Buffers == 0 .. RX_BUFS - 1
Addresses == Hosts \cup {0}
Kinds == {"none", "other", "arp_request", "arp_reply", "echo_request", "echo_reply"}
Frame == [kind: Kinds, ip: Addresses, mac: Nat, ping: Nat]

\* The buffers in the order in which they circulate, from the oldest entry of
\* the used ring to the youngest of the available one.
Held(k) == IF k < Len(arrived) THEN rx_used[Slot(rx_lu + k)] ELSE rx_avail[Slot(rx_lu + k)]

RxShape ==
  /\ rx_avail \in [RxSlots -> Buffers] /\ rx_used \in [RxSlots -> Buffers]
  /\ rx_buf \in [Buffers -> Frame] /\ arrived \in Seq(Frame)
  /\ rx_lu \in Index /\ Len(arrived) \in 0 .. RX_BUFS

Positions ==
  /\ rx_ui = (rx_lu + Len(arrived)) % IDX_MOD /\ rx_dev = rx_ui
  /\ rx_ai = (rx_lu + RX_BUFS) % IDX_MOD

\* Every buffer is at one place, and the used ones hold what arrived.
Circulating ==
  /\ \A k, l \in Buffers : Held(k) = Held(l) => k = l
  /\ \A k \in Buffers : k < Len(arrived) => rx_buf[Held(k)] = arrived[k + 1]

RxInv == RxShape /\ Positions /\ Circulating

LEMMA RxConstants ==
  /\ QSIZE \in Nat \ {0} /\ RX_BUFS \in 1 .. QSIZE /\ RX_BUFS < IDX_MOD
  /\ IDX_MOD \in Nat \ {0} /\ IDX_MOD >= 2
BY VirtioAssumption

\* The slots of the entries from rx_lu on are slots of the ring, and less
\* than a ring's length of them are different.
LEMMA SlotsFrom ==
  ASSUME NEW i \in Index
  PROVE  /\ \A k \in Nat : Slot(i + k) \in RxSlots
         /\ \A k, l \in Nat : k < l /\ l < k + QSIZE => Slot(i + k) # Slot(i + l)
<1>1. i \in Nat /\ QSIZE \in Nat \ {0}
  BY RxConstants DEF Index
<1>2. ASSUME NEW k \in Nat PROVE Slot(i + k) \in RxSlots
  <2>1. PICK a \in Nat : a = i + k
    BY <1>1
  <2>2. PICK q \in Nat, r \in 0 .. QSIZE - 1 : a = QSIZE * q + r /\ a % QSIZE = r
    BY <1>1, ModRange
  <2> QED
    BY <2>1, <2>2 DEF Slot, RxSlots
<1>3. ASSUME NEW k \in Nat, NEW l \in Nat, k < l, l < k + QSIZE
      PROVE  Slot(i + k) # Slot(i + l)
  <2>1. PICK a \in Nat, b \in Nat : a = i + k /\ b = i + l
    BY <1>1
  <2>2. a < b /\ b < a + QSIZE
    BY <1>1, <1>3, <2>1
  <2>3. a % QSIZE # b % QSIZE
    BY <1>1, <2>2, ModApart
  <2> QED
    BY <2>1, <2>3 DEF Slot
<1> QED
  BY <1>2, <1>3

\* The indices of the ring are in the slots of their positions.
LEMMA RxSlotsOf ==
  ASSUME RxShape, Positions
  PROVE  /\ Slot(rx_ui) = Slot(rx_lu + Len(arrived)) /\ Slot(rx_dev) = Slot(rx_lu + Len(arrived))
         /\ Slot(rx_ai) = Slot(rx_lu + RX_BUFS)
         /\ \A k \in Nat : Slot(Inc(rx_lu) + k) = Slot(rx_lu + (k + 1))
         /\ Slot(rx_lu) = Slot(rx_lu + 0)
<1>1. rx_lu \in Nat /\ Len(arrived) \in Nat /\ RX_BUFS \in Nat /\ IDX_MOD \in Nat \ {0}
  BY RxConstants DEF RxShape, Index
<1>2. ASSUME NEW a \in Nat PROVE Slot(a % IDX_MOD) = Slot(a)
  <2>1. Slot((a % IDX_MOD) + 0) = Slot(a + 0)
    BY SlotOfIndex
  <2>2. (a % IDX_MOD) + 0 = a % IDX_MOD /\ a + 0 = a
    BY <1>1
  <2> QED
    BY <2>1, <2>2
<1>3. rx_lu + Len(arrived) \in Nat /\ rx_lu + RX_BUFS \in Nat
  BY <1>1
<1>4. /\ Slot(rx_ui) = Slot(rx_lu + Len(arrived)) /\ Slot(rx_dev) = Slot(rx_lu + Len(arrived))
      /\ Slot(rx_ai) = Slot(rx_lu + RX_BUFS)
  BY <1>2, <1>3 DEF Positions
<1>5. ASSUME NEW k \in Nat PROVE Slot(Inc(rx_lu) + k) = Slot(rx_lu + (k + 1))
  <2>1. Slot(((rx_lu + 1) % IDX_MOD) + k) = Slot(rx_lu + 1 + k)
    <3>1. PICK a \in Nat : a = rx_lu + 1
      BY <1>1
    <3>2. Slot((a % IDX_MOD) + k) = Slot(a + k)
      BY SlotOfIndex
    <3> QED
      BY <3>1, <3>2
  <2>2. rx_lu + 1 + k = rx_lu + (k + 1)
    BY <1>1
  <2> QED
    BY <2>1, <2>2 DEF Inc
<1>6. rx_lu + 0 = rx_lu
  BY <1>1
<1> QED
  BY <1>4, <1>5, <1>6

LEMMA RxInit == post_rx_all => RxInv
<1> SUFFICES ASSUME post_rx_all PROVE RxInv
  OBVIOUS
<1>1. /\ rx_avail = [i \in RxSlots |-> IF i < RX_BUFS THEN i ELSE 0]
      /\ rx_ai = RX_BUFS % IDX_MOD /\ rx_dev = 0
      /\ rx_used = [i \in RxSlots |-> 0] /\ rx_ui = 0 /\ rx_lu = 0
      /\ rx_buf = [i \in 0 .. RX_BUFS - 1 |-> EmptyFrame] /\ arrived = << >>
  BY DEF post_rx_all
<1>2. EmptyFrame \in Frame
  BY DEF EmptyFrame, Frame, Kinds, Addresses
<1>3. 0 \in Buffers /\ 0 \in Index /\ 0 \in 0 .. RX_BUFS
  BY RxConstants DEF Buffers, Index
<1>4. rx_avail \in [RxSlots -> Buffers]
  BY <1>1, RxConstants DEF RxSlots, Buffers
<1>5. Len(arrived) = 0 /\ arrived \in Seq(Frame)
  BY <1>1
<1>6. RxShape
  BY <1>1, <1>2, <1>3, <1>4, <1>5 DEF RxShape, Buffers
<1>7. Positions
  <2>1. 0 % IDX_MOD = 0
    BY RxConstants, ModSmall
  <2>2. 0 + 0 = 0 /\ 0 + RX_BUFS = RX_BUFS
    BY RxConstants
  <2> QED
    BY <1>1, <1>5, <2>1, <2>2 DEF Positions
<1>8. ASSUME NEW k \in Buffers PROVE Held(k) = k /\ ~(k < Len(arrived))
  <2>1. k \in 0 .. QSIZE - 1 /\ k < RX_BUFS /\ 0 + k = k /\ ~(k < 0)
    BY RxConstants DEF Buffers
  <2>2. Slot(0 + k) = k
    BY <2>1, RxConstants, ModSmall DEF Slot
  <2>3. Held(k) = rx_avail[Slot(0 + k)]
    BY <1>1, <1>5, <2>1 DEF Held
  <2> QED
    BY <1>1, <1>5, <2>1, <2>2, <2>3 DEF RxSlots
<1>9. Circulating
  BY <1>8 DEF Circulating
<1> QED
  BY <1>6, <1>7, <1>9 DEF RxInv

LEMMA RxReceive ==
  ASSUME RxInv, NEW f \in Frame, DeviceReceive(f)
  PROVE  RxInv'
<1> DEFINE n == Len(arrived)
<1>1. /\ rx_avail \in [RxSlots -> Buffers] /\ rx_used \in [RxSlots -> Buffers]
      /\ rx_buf \in [Buffers -> Frame] /\ arrived \in Seq(Frame)
      /\ rx_lu \in Index /\ n \in 0 .. RX_BUFS /\ RX_BUFS \in Nat /\ n \in Nat
  BY RxConstants DEF RxInv, RxShape
<1>2. n < RX_BUFS
  BY <1>1 DEF RxInv, Positions, DeviceReceive
<1>3. PICK id : id = rx_avail[Slot(rx_lu + n)]
  OBVIOUS
<1>4. /\ rx_buf' = [rx_buf EXCEPT ![id] = f]
      /\ rx_used' = [rx_used EXCEPT ![Slot(rx_lu + n)] = id]
      /\ rx_ui' = Inc(rx_ui) /\ rx_dev' = Inc(rx_dev)
      /\ arrived' = Append(arrived, f)
      /\ rx_avail' = rx_avail /\ rx_ai' = rx_ai /\ rx_lu' = rx_lu
  BY <1>3, RxSlotsOf DEF RxInv, DeviceReceive
<1>5. id \in Buffers /\ n \in Buffers /\ Slot(rx_lu + n) \in RxSlots
  BY <1>1, <1>2, <1>3, SlotsFrom DEF Buffers
<1>6. arrived' \in Seq(Frame) /\ Len(arrived') = n + 1
  BY <1>1, <1>4
<1>7. \A i \in 1 .. n + 1 : arrived'[i] = IF i <= n THEN arrived[i] ELSE f
  BY <1>1, <1>4
<1>8. RxShape'
  <2>1. rx_used' \in [RxSlots -> Buffers] /\ rx_buf' \in [Buffers -> Frame]
    BY <1>1, <1>4, <1>5
  <2>2. Len(arrived') \in 0 .. RX_BUFS
    BY <1>1, <1>2, <1>6
  <2> QED
    BY <1>1, <1>4, <1>6, <2>1, <2>2 DEF RxShape
<1>9. Positions'
  <2>1. rx_ui' = (rx_lu + (n + 1)) % IDX_MOD
    <3>1. n \in Index /\ n + 1 \in Index /\ 1 \in Index /\ rx_ui \in Index
      BY <1>1, <1>2, RxConstants, IndexAhead DEF Index, RxInv, Positions
    <3>2. rx_ui = IF rx_lu + n < IDX_MOD THEN rx_lu + n ELSE rx_lu + n - IDX_MOD
      BY <1>1, <3>1, IndexAhead DEF Index, RxInv, Positions
    <3>3. Inc(rx_ui) = IF rx_ui + 1 < IDX_MOD THEN rx_ui + 1 ELSE rx_ui + 1 - IDX_MOD
      BY <3>1, IndexAhead DEF Inc, Index
    <3>4. (rx_lu + (n + 1)) % IDX_MOD =
             IF rx_lu + (n + 1) < IDX_MOD THEN rx_lu + (n + 1) ELSE rx_lu + (n + 1) - IDX_MOD
      BY <1>1, <3>1, IndexAhead DEF Index
    <3> QED
      BY <1>1, <1>4, <3>1, <3>2, <3>3, <3>4, RxConstants DEF Index
  <2> QED
    BY <1>4, <1>6, <2>1 DEF RxInv, Positions
<1>10. \A k \in Buffers : Held(k)' = Held(k) /\ Held(k) \in Buffers
  <2> TAKE k \in Buffers
  <2>1. k \in Nat /\ k < RX_BUFS /\ RX_BUFS <= QSIZE /\ QSIZE \in Nat
    BY RxConstants DEF Buffers
  <2>2. Slot(rx_lu + k) \in RxSlots
    BY <1>1, <2>1, SlotsFrom
  <2>3. Held(k) \in Buffers
    BY <1>1, <2>2 DEF Held
  <2>4. CASE k < n
    <3>1. Slot(rx_lu + k) # Slot(rx_lu + n)
      <4>1. n < k + QSIZE
        BY <1>1, <1>2, <2>1
      <4> QED
        BY <1>1, <2>1, <2>4, <4>1, SlotsFrom
    <3>2. rx_used'[Slot(rx_lu + k)] = rx_used[Slot(rx_lu + k)]
      BY <1>1, <1>4, <2>2, <3>1
    <3>3. k < Len(arrived')
      BY <1>1, <1>6, <2>1, <2>4
    <3> QED
      BY <1>4, <2>3, <2>4, <3>2, <3>3 DEF Held
  <2>5. CASE k = n
    <3>1. rx_used'[Slot(rx_lu + k)] = id
      BY <1>1, <1>4, <2>2, <2>5
    <3>2. k < Len(arrived') /\ ~(k < n)
      BY <1>1, <1>6, <2>1, <2>5
    <3> QED
      BY <1>3, <1>4, <2>3, <2>5, <3>1, <3>2 DEF Held
  <2>6. CASE k > n
    <3>1. ~(k < Len(arrived')) /\ ~(k < n)
      BY <1>1, <1>6, <2>1, <2>6
    <3> QED
      BY <1>4, <2>3, <3>1 DEF Held
  <2> QED
    BY <1>1, <2>1, <2>4, <2>5, <2>6
<1>11. Held(n) = id
  BY <1>1, <1>3 DEF Held
<1>12. ASSUME NEW k \in Buffers, k < Len(arrived') PROVE rx_buf'[Held(k)'] = arrived'[k + 1]
  <2>1. k \in Nat /\ (k < n \/ k = n)
    BY <1>1, <1>6, <1>12 DEF Buffers
  <2>2. CASE k = n
    BY <1>1, <1>4, <1>5, <1>7, <1>10, <1>11, <2>2
  <2>3. CASE k < n
    <3>1. Held(k) # id
      <4>1. k # n
        BY <1>1, <2>3
      <4> QED
        BY <1>5, <1>11, <4>1 DEF RxInv, Circulating
    <3>2. rx_buf'[Held(k)] = rx_buf[Held(k)]
      BY <1>1, <1>4, <1>10, <3>1
    <3>3. rx_buf[Held(k)] = arrived[k + 1]
      BY <2>3 DEF RxInv, Circulating
    <3>4. arrived'[k + 1] = arrived[k + 1]
      BY <1>1, <1>7, <2>1, <2>3
    <3> QED
      BY <1>10, <3>2, <3>3, <3>4
  <2> QED
    BY <2>1, <2>2, <2>3
<1>13. Circulating'
  BY <1>10, <1>12 DEF RxInv, Circulating, Buffers
<1> QED
  BY <1>8, <1>9, <1>13 DEF RxInv

LEMMA RxTake ==
  ASSUME RxInv, try_recv
  PROVE  RxInv' /\ Len(arrived) >= 1 /\ NextFrame = arrived[1] /\ arrived' = Tail(arrived)
<1> DEFINE n == Len(arrived)
<1>1. /\ rx_avail \in [RxSlots -> Buffers] /\ rx_used \in [RxSlots -> Buffers]
      /\ rx_buf \in [Buffers -> Frame] /\ arrived \in Seq(Frame)
      /\ rx_lu \in Index /\ n \in 0 .. RX_BUFS /\ RX_BUFS \in Nat /\ n \in Nat
      /\ RX_BUFS >= 1 /\ RX_BUFS <= QSIZE /\ QSIZE \in Nat
  BY RxConstants DEF RxInv, RxShape
<1>2. n >= 1
  <2>1. SUFFICES ASSUME n = 0 PROVE FALSE
    BY <1>1
  <2>2. rx_ui = rx_lu
    BY <1>1, <2>1, RxConstants, ModSmall DEF RxInv, Positions, Index
  <2> QED
    BY <2>2 DEF try_recv, HasFrame
<1>3. PICK id : id = rx_used[Slot(rx_lu + 0)]
  OBVIOUS
<1>4. /\ rx_avail' = [rx_avail EXCEPT ![Slot(rx_lu + RX_BUFS)] = id]
      /\ rx_buf' = [rx_buf EXCEPT ![id] = EmptyFrame]
      /\ rx_lu' = Inc(rx_lu) /\ rx_ai' = Inc(rx_ai) /\ arrived' = Tail(arrived)
      /\ rx_dev' = rx_dev /\ rx_used' = rx_used /\ rx_ui' = rx_ui
  BY <1>3, RxSlotsOf DEF RxInv, try_recv
<1>5. 0 \in Buffers /\ Held(0) = id /\ NextFrame = rx_buf[id]
  <2>1. 0 \in Buffers /\ 0 < n
    BY <1>1, <1>2 DEF Buffers
  <2> QED
    BY <1>3, <2>1, RxSlotsOf DEF Held, NextFrame, RxInv
<1>6. NextFrame = arrived[1]
  BY <1>2, <1>5, <1>1 DEF RxInv, Circulating
<1>7. \A k \in Nat : Slot(rx_lu + k) \in RxSlots
  BY <1>1, SlotsFrom
<1>8. \A k \in Buffers : Held(k) \in Buffers
  <2>1. \A k \in Buffers : Slot(rx_lu + k) \in RxSlots
    BY <1>7 DEF Buffers
  <2> QED
    BY <1>1, <2>1 DEF Held
<1>9. id \in Buffers
  BY <1>5, <1>8
<1>10. /\ arrived' \in Seq(Frame) /\ Len(arrived') = n - 1
       /\ \A i \in 1 .. n - 1 : arrived'[i] = arrived[i + 1]
  BY <1>1, <1>2, <1>4
<1>11. Inc(rx_lu) \in Index
  BY <1>1, IncMoves DEF Index
<1>12. RxShape'
  <2>1. EmptyFrame \in Frame
    BY DEF EmptyFrame, Frame, Kinds, Addresses
  <2>2. rx_avail' \in [RxSlots -> Buffers] /\ rx_buf' \in [Buffers -> Frame]
    BY <1>1, <1>4, <1>7, <1>9, <2>1
  <2>3. n - 1 \in 0 .. RX_BUFS
    BY <1>1, <1>2
  <2> QED
    BY <1>1, <1>4, <1>10, <1>11, <2>2, <2>3 DEF RxShape
<1>13. Positions'
  <2>1. ASSUME NEW a \in 1 .. RX_BUFS
        PROVE  (Inc(rx_lu) + (a - 1)) % IDX_MOD = (rx_lu + a) % IDX_MOD
    <3>1. a - 1 \in Index /\ a \in Index /\ 1 \in Index
      BY <1>1, RxConstants DEF Index
    <3>2. Inc(rx_lu) = IF rx_lu + 1 < IDX_MOD THEN rx_lu + 1 ELSE rx_lu + 1 - IDX_MOD
      BY <1>1, <3>1, IndexAhead DEF Inc, Index
    <3>3. (Inc(rx_lu) + (a - 1)) % IDX_MOD = IF Inc(rx_lu) + (a - 1) < IDX_MOD
             THEN Inc(rx_lu) + (a - 1) ELSE Inc(rx_lu) + (a - 1) - IDX_MOD
      BY <1>11, <3>1, IndexAhead DEF Index
    <3>4. (rx_lu + a) % IDX_MOD = IF rx_lu + a < IDX_MOD THEN rx_lu + a ELSE rx_lu + a - IDX_MOD
      BY <1>1, <3>1, IndexAhead DEF Index
    <3> QED
      BY <1>1, <3>1, <3>2, <3>3, <3>4, RxConstants DEF Index
  <2>2. rx_ui' = (rx_lu' + Len(arrived')) % IDX_MOD
    <3>1. n \in 1 .. RX_BUFS
      BY <1>1, <1>2
    <3>2. (Inc(rx_lu) + (n - 1)) % IDX_MOD = (rx_lu + n) % IDX_MOD
      BY <2>1, <3>1
    <3> QED
      BY <1>4, <1>10, <3>2 DEF RxInv, Positions
  <2>3. rx_ai' = (rx_lu' + RX_BUFS) % IDX_MOD
    <3>1. RX_BUFS \in Index /\ 1 \in Index /\ rx_ai \in Index
      BY <1>1, RxConstants, IndexAhead DEF Index, RxInv, Positions
    <3>2. Inc(rx_lu) = IF rx_lu + 1 < IDX_MOD THEN rx_lu + 1 ELSE rx_lu + 1 - IDX_MOD
      BY <1>1, <3>1, IndexAhead DEF Inc, Index
    <3>3. Inc(rx_ai) = IF rx_ai + 1 < IDX_MOD THEN rx_ai + 1 ELSE rx_ai + 1 - IDX_MOD
      BY <3>1, IndexAhead DEF Inc, Index
    <3>4. rx_ai = IF rx_lu + RX_BUFS < IDX_MOD THEN rx_lu + RX_BUFS ELSE rx_lu + RX_BUFS - IDX_MOD
      BY <1>1, <3>1, IndexAhead DEF Index, RxInv, Positions
    <3>5. (Inc(rx_lu) + RX_BUFS) % IDX_MOD = IF Inc(rx_lu) + RX_BUFS < IDX_MOD
             THEN Inc(rx_lu) + RX_BUFS ELSE Inc(rx_lu) + RX_BUFS - IDX_MOD
      BY <1>11, <3>1, IndexAhead DEF Index
    <3> QED
      BY <1>1, <1>4, <3>1, <3>2, <3>3, <3>4, <3>5, RxConstants DEF Index
  <2> QED
    BY <1>4, <2>2, <2>3 DEF RxInv, Positions
<1>14. ASSUME NEW k \in Buffers
       PROVE  Held(k)' = IF k = RX_BUFS - 1 THEN id ELSE Held(k + 1)
  <2>1. k \in Nat /\ k < RX_BUFS
    BY <1>1 DEF Buffers
  <2>2. Slot(rx_lu' + k) = Slot(rx_lu + (k + 1)) /\ Slot(rx_lu + (k + 1)) \in RxSlots
    BY <1>4, <1>7, <2>1, RxSlotsOf DEF RxInv
  <2>3. (k < Len(arrived')) = (k + 1 < n)
    BY <1>1, <1>10, <2>1
  <2>4. CASE k = RX_BUFS - 1
    <3>1. k + 1 = RX_BUFS /\ ~(k + 1 < n)
      BY <1>1, <2>1, <2>4
    <3>2. rx_avail'[Slot(rx_lu + (k + 1))] = id
      BY <1>1, <1>4, <2>2, <3>1
    <3> QED
      BY <2>2, <2>3, <2>4, <3>1, <3>2 DEF Held
  <2>5. CASE k # RX_BUFS - 1
    <3>1. k + 1 < RX_BUFS /\ RX_BUFS < k + 1 + QSIZE /\ k + 1 \in Nat
      BY <1>1, <2>1, <2>5
    <3>2. Slot(rx_lu + (k + 1)) # Slot(rx_lu + RX_BUFS)
      BY <1>1, <3>1, SlotsFrom
    <3>3. rx_avail'[Slot(rx_lu + (k + 1))] = rx_avail[Slot(rx_lu + (k + 1))]
      BY <1>1, <1>4, <2>2, <3>2
    <3> QED
      BY <1>4, <2>2, <2>3, <2>5, <3>3 DEF Held
  <2> QED
    BY <2>4, <2>5
<1>15. ASSUME NEW k \in Buffers, NEW l \in Buffers, k < l PROVE Held(k)' # Held(l)'
  <2>1. k \in Nat /\ l \in Nat /\ l < RX_BUFS /\ k # RX_BUFS - 1 /\ k + 1 \in Buffers
    BY <1>1, <1>15 DEF Buffers
  <2>2. Held(k)' = Held(k + 1)
    BY <1>14, <2>1
  <2>3. CASE l = RX_BUFS - 1
    <3>1. k + 1 # 0
      BY <2>1
    <3> QED
      BY <1>5, <1>14, <2>1, <2>2, <2>3, <3>1 DEF RxInv, Circulating
  <2>4. CASE l # RX_BUFS - 1
    <3>1. l + 1 \in Buffers /\ k + 1 # l + 1
      BY <1>1, <1>15, <2>1, <2>4 DEF Buffers
    <3> QED
      BY <1>14, <2>1, <2>2, <2>4, <3>1 DEF RxInv, Circulating
  <2> QED
    BY <2>3, <2>4
<1>16. ASSUME NEW k \in Buffers, k < Len(arrived') PROVE rx_buf'[Held(k)'] = arrived'[k + 1]
  <2>1. k \in Nat /\ k + 1 < n /\ k # RX_BUFS - 1 /\ k + 1 \in Buffers /\ k + 1 # 0
    BY <1>1, <1>10, <1>16 DEF Buffers
  <2>2. Held(k)' = Held(k + 1) /\ Held(k + 1) \in Buffers /\ Held(k + 1) # id
    BY <1>5, <1>8, <1>14, <2>1 DEF RxInv, Circulating
  <2>3. rx_buf'[Held(k + 1)] = rx_buf[Held(k + 1)]
    BY <1>1, <1>4, <2>2
  <2>4. rx_buf[Held(k + 1)] = arrived[k + 1 + 1]
    BY <2>1 DEF RxInv, Circulating
  <2>5. arrived'[k + 1] = arrived[k + 1 + 1]
    BY <1>1, <1>10, <2>1
  <2> QED
    BY <2>2, <2>3, <2>4, <2>5
<1>17. Circulating'
  <2>1. \A k, l \in Buffers : k # l => Held(k)' # Held(l)'
    <3>1. \A k, l \in Buffers : k # l => k < l \/ l < k
      BY <1>1 DEF Buffers
    <3> QED
      BY <1>15, <3>1
  <2> QED
    BY <1>16, <2>1 DEF Circulating, Buffers
<1> QED
  BY <1>2, <1>4, <1>6, <1>12, <1>13, <1>17 DEF RxInv

---------------------------------------------------------------------------
(* The stack.                                                               *)

Macs == Nat \ {0}

\* A frame that some host had a reason to send.
Genuine(f) ==
  /\ f.kind = "echo_reply" => f.ping \in 1 .. pings
  /\ f.kind = "arp_reply" => f.ip \in Hosts /\ f.mac \in Macs

WireSound ==
  /\ \A k \in 1 .. Len(arrived) : Genuine(arrived[k])
  /\ asked \subseteq Frame
  /\ \A g \in asked : g.kind = "echo_request" => g.ping \in 1 .. pings

CallSound ==
  /\ pings \in 0 .. MaxPings /\ result \in [ok: BOOLEAN, ping: Nat]
  /\ net_pc = "arp" => target \in Hosts /\ (purpose = "ping" => pings < MaxPings)
  /\ PingsMatchReplies

CacheSound ==
  /\ arp \in Seq(Hosts \X Macs) /\ heard \in [Hosts -> Nat]
  /\ ArpCacheTruthful

NetInv == RxInv /\ WireSound /\ CallSound /\ CacheSound

LEMMA NetInitInv == post_rx_all /\ NetInit => NetInv
<1> SUFFICES ASSUME post_rx_all, NetInit PROVE NetInv
  OBVIOUS
<1>1. /\ arp = << >> /\ net_pc = "idle" /\ pings = 0 /\ asked = {} /\ result = Nobody
      /\ heard = [h \in Hosts |-> Nothing] /\ arrived = << >>
  BY DEF NetInit, post_rx_all
<1>2. Len(arp) = 0 /\ Len(arrived) = 0 /\ arp \in Seq(Hosts \X Macs)
  BY <1>1
<1>3. WireSound
  BY <1>1, <1>2 DEF WireSound
<1>4. CallSound
  BY <1>1, NetAssumption DEF CallSound, PingsMatchReplies, Nobody
<1>5. CacheSound
  BY <1>1, <1>2, NetAssumption DEF CacheSound, ArpCacheTruthful, Nothing
<1> QED
  BY <1>3, <1>4, <1>5, RxInit DEF NetInv

\* What the network delivers is genuine.
LEMMA OnTheWireIsGenuine ==
  ASSUME WireSound, CallSound, NEW f \in OnTheWire
  PROVE  f \in Frame /\ Genuine(f)
<1>1. CASE f \in {Packet("arp_reply", a[1], a[2], 0) :
                   a \in {b \in HostMacs : Packet("arp_request", b[1], 0, 0) \in asked}}
  <2>1. PICK a \in HostMacs : f = Packet("arp_reply", a[1], a[2], 0)
    BY <1>1
  <2>2. a[1] \in Hosts /\ a[2] \in Nat \ {0}
    BY NetAssumption
  <2> QED
    BY <2>1, <2>2 DEF Packet, Frame, Kinds, Addresses, Genuine, Macs
<1>2. CASE f \in {Packet("echo_reply", g.ip, 0, g.ping) :
                   g \in {h \in asked : h.kind = "echo_request"}}
  <2>1. PICK g \in asked : g.kind = "echo_request" /\ f = Packet("echo_reply", g.ip, 0, g.ping)
    BY <1>2
  <2>2. g.ip \in Addresses /\ g.ping \in Nat /\ g.ping \in 1 .. pings
    BY <2>1 DEF WireSound, Frame
  <2> QED
    BY <2>1, <2>2 DEF Packet, Frame, Kinds, Genuine
<1>3. CASE f = Packet("other", 0, 0, 0)
  BY <1>3 DEF Packet, Frame, Kinds, Addresses, Genuine
<1> QED
  BY <1>1, <1>2, <1>3 DEF OnTheWire

\* The lookup of a host finds its address, or nothing exactly when the host is
\* not there.
LEMMA LookupFinds ==
  ASSUME NEW t \in Seq(Hosts \X Macs), NEW ip \in Hosts
  PROVE  /\ arp_lookup(t, ip) = Nothing => \A i \in 1 .. Len(t) : t[i][1] # ip
         /\ arp_lookup(t, ip) # Nothing => arp_lookup(t, ip) \in Macs
<1> DEFINE hits == {i \in 1 .. Len(t) : t[i][1] = ip}
<1>1. CASE hits = {}
  BY <1>1 DEF arp_lookup, Nothing
<1>2. CASE hits # {}
  <2>1. \E i \in hits : \A j \in hits : i <= j
    <3>1. hits \in SUBSET Nat
      OBVIOUS
    <3> HIDE DEF hits
    <3> QED
      BY <1>2, <3>1, LeastOf
  <2>2. PICK c \in 1 .. Len(t) : c = CHOOSE x \in hits : \A j \in hits : x <= j
    BY <2>1
  <2>3. arp_lookup(t, ip) = t[c][2]
    BY <1>2, <2>2 DEF arp_lookup
  <2>4. t[c][2] \in Macs
    OBVIOUS
  <2> QED
    BY <2>3, <2>4 DEF Macs, Nothing
<1> QED
  BY <1>1, <1>2

\* Learning from a genuine reply keeps the cache truthful.
LEMMA CacheLearns ==
  ASSUME CacheSound, NEW ip \in Hosts, NEW mac \in Macs,
         arp' = arp_insert(arp, ip, mac), heard' = [heard EXCEPT ![ip] = mac]
  PROVE  CacheSound'
<1>1. arp \in Seq(Hosts \X Macs) /\ heard \in [Hosts -> Nat] /\ ARP_MAX \in Nat \ {0}
  BY NetAssumption DEF CacheSound
<1>2. heard' \in [Hosts -> Nat] /\ \A h \in Hosts : heard'[h] = IF h = ip THEN mac ELSE heard[h]
  BY <1>1 DEF Macs
<1>3. /\ Len(arp) <= ARP_MAX
      /\ \A i \in 1 .. Len(arp) : arp[i][2] = heard[arp[i][1]]
      /\ \A i, j \in 1 .. Len(arp) : arp[i][1] = arp[j][1] => i = j
  BY DEF CacheSound, ArpCacheTruthful
<1>4. \A i \in 1 .. Len(arp) : arp[i] \in Hosts \X Macs
  BY <1>1
<1>5. <<ip, mac>> \in Hosts \X Macs
  OBVIOUS
<1>6. CASE arp_lookup(arp, ip) # Nothing
  <2>1. arp' = [i \in 1 .. Len(arp) |-> IF arp[i][1] = ip THEN <<ip, mac>> ELSE arp[i]]
    BY <1>6 DEF arp_insert
  <2>2. Len(arp) \in Nat
    BY <1>1
  <2>3. arp' \in Seq(Hosts \X Macs) /\ Len(arp') = Len(arp)
    BY <1>4, <1>5, <2>1, <2>2
  <2>4. \A i \in 1 .. Len(arp) : arp'[i] = IF arp[i][1] = ip THEN <<ip, mac>> ELSE arp[i]
    BY <2>1
  <2>5. \A i \in 1 .. Len(arp) : arp'[i][1] = arp[i][1] /\ arp'[i][2] = heard'[arp[i][1]]
    BY <1>2, <1>3, <1>4, <2>4
  <2> QED
    BY <1>2, <1>3, <2>3, <2>5 DEF CacheSound, ArpCacheTruthful
<1>7. CASE arp_lookup(arp, ip) = Nothing
  <2>1. \A i \in 1 .. Len(arp) : arp[i][1] # ip
    BY <1>1, <1>7, LookupFinds
  <2>2. PICK t : t = IF Len(arp) < ARP_MAX THEN arp ELSE Tail(arp)
    OBVIOUS
  <2>3. arp' = Append(t, <<ip, mac>>)
    BY <1>7, <2>2 DEF arp_insert
  <2>4. PICK d \in {0, 1} : /\ t \in Seq(Hosts \X Macs) /\ Len(t) = Len(arp) - d /\ Len(t) < ARP_MAX
                            /\ \A i \in 1 .. Len(t) : i + d \in 1 .. Len(arp) /\ t[i] = arp[i + d]
    <3>1. CASE Len(arp) < ARP_MAX
      BY <1>1, <2>2, <3>1
    <3>2. CASE ~(Len(arp) < ARP_MAX)
      <4>1. arp # << >> /\ Len(arp) >= 1 /\ t = Tail(arp)
        BY <1>1, <2>2, <3>2
      <4>2. t \in Seq(Hosts \X Macs) /\ Len(t) = Len(arp) - 1
        BY <1>1, <4>1
      <4>3. \A i \in 1 .. Len(t) : i + 1 \in 1 .. Len(arp) /\ t[i] = arp[i + 1]
        BY <1>1, <4>1, <4>2
      <4>4. Len(t) < ARP_MAX
        BY <1>1, <1>3, <4>2
      <4> QED
        BY <4>2, <4>3, <4>4
    <3> QED
      BY <3>1, <3>2
  <2>5. /\ arp' \in Seq(Hosts \X Macs) /\ Len(arp') = Len(t) + 1 /\ Len(t) \in Nat
        /\ \A i \in 1 .. Len(t) : arp'[i] = arp[i + d]
        /\ arp'[Len(t) + 1] = <<ip, mac>>
    BY <1>5, <2>3, <2>4
  <2>6. \A i \in 1 .. Len(t) : arp'[i][1] # ip /\ arp'[i][1] \in Hosts
    BY <1>4, <2>1, <2>4, <2>5
  <2>7. \A i \in 1 .. Len(t) : arp'[i][2] = heard'[arp'[i][1]]
    <3> TAKE i \in 1 .. Len(t)
    <3>1. i + d \in 1 .. Len(arp) /\ arp'[i] = arp[i + d]
      BY <2>4, <2>5
    <3>2. arp[i + d][2] = heard[arp[i + d][1]]
      BY <1>3, <3>1
    <3> QED
      BY <1>2, <2>6, <3>1, <3>2
  <2>8. \A i, j \in 1 .. Len(t) : arp'[i][1] = arp'[j][1] => i = j
    <3> TAKE i, j \in 1 .. Len(t)
    <3> HAVE arp'[i][1] = arp'[j][1]
    <3>1. /\ i + d \in 1 .. Len(arp) /\ arp'[i] = arp[i + d]
          /\ j + d \in 1 .. Len(arp) /\ arp'[j] = arp[j + d]
      BY <2>4, <2>5
    <3>2. i + d = j + d
      BY <1>3, <3>1
    <3> QED
      BY <3>2
  <2>9. arp'[Len(t) + 1][1] = ip /\ arp'[Len(t) + 1][2] = heard'[ip]
    BY <1>2, <2>5
  <2>10. \A i \in 1 .. Len(arp') : i \in 1 .. Len(t) \/ i = Len(t) + 1
    BY <2>5
  <2>11. Len(arp') <= ARP_MAX
    BY <1>1, <2>4, <2>5
  <2>12. \A i \in 1 .. Len(arp') : arp'[i][2] = heard'[arp'[i][1]]
    BY <2>7, <2>9, <2>10
  <2>13. \A i, j \in 1 .. Len(arp') : arp'[i][1] = arp'[j][1] => i = j
    BY <2>6, <2>8, <2>9, <2>10
  <2> QED
    BY <1>2, <2>5, <2>11, <2>12, <2>13 DEF CacheSound, ArpCacheTruthful
<1> QED
  BY <1>6, <1>7

\* The frame that try_recv returned was genuine, and so are those left.
LEMMA TakeGenuine ==
  ASSUME RxInv, WireSound, try_recv
  PROVE  /\ RxInv' /\ Genuine(NextFrame) /\ NextFrame \in Frame
         /\ arrived' \in Seq(Frame)
         /\ \A k \in 1 .. Len(arrived') :
               k + 1 \in 1 .. Len(arrived) /\ arrived'[k] = arrived[k + 1]
<1>1. arrived \in Seq(Frame)
  BY DEF RxInv, RxShape
<1>2. RxInv' /\ Len(arrived) >= 1 /\ NextFrame = arrived[1] /\ arrived' = Tail(arrived)
  BY RxTake
<1>3. 1 \in 1 .. Len(arrived)
  BY <1>1, <1>2
<1>4. Genuine(NextFrame)
  BY <1>2, <1>3 DEF WireSound
<1>5. NextFrame \in Frame
  BY <1>1, <1>2, <1>3
<1>6. arrived # << >>
  BY <1>1, <1>2
<1> QED
  BY <1>1, <1>2, <1>4, <1>5, <1>6

\* Taking a frame, with the requests as they were.
LEMMA WireTakes ==
  ASSUME RxInv, WireSound, try_recv, UNCHANGED <<pings, asked>>
  PROVE  WireSound'
<1>1. \A k \in 1 .. Len(arrived') : k + 1 \in 1 .. Len(arrived) /\ arrived'[k] = arrived[k + 1]
  BY TakeGenuine
<1>2. \A k \in 1 .. Len(arrived') : Genuine(arrived[k + 1])
  BY <1>1 DEF WireSound
<1> QED
  BY <1>1, <1>2 DEF WireSound, Genuine

\* The rest of a call once the address is known: one more ping is on the
\* wire, or a datagram is sent.
LEMMA WithMacSound ==
  ASSUME WireSound, CallSound, NEW mac \in Nat, NEW ip \in Hosts, NEW what,
         what = "ping" => pings < MaxPings, WithMac(mac, what, ip),
         \A k \in 1 .. Len(arrived') : \E l \in 1 .. Len(arrived) : arrived'[k] = arrived[l]
  PROVE  WireSound' /\ CallSound'
<1>1. pings \in Nat /\ pings <= MaxPings /\ MaxPings \in Nat
  BY NetAssumption DEF CallSound
<1>2. CASE /\ what = "ping" /\ net_pc' = "echo" /\ result' = Nobody /\ pings' = pings + 1
           /\ asked' = asked \cup {Packet("echo_request", ip, mac, pings + 1)}
  <2>1. PICK g : g = Packet("echo_request", ip, mac, pings + 1)
    OBVIOUS
  <2>2. g \in Frame /\ g.ping = pings + 1
    BY <1>1, <2>1 DEF Packet, Frame, Kinds, Addresses
  <2>3. \A x \in 1 .. pings : x \in 1 .. pings'
    BY <1>1, <1>2
  <2>4. asked' \subseteq Frame
    BY <1>2, <2>1, <2>2 DEF WireSound
  <2>5. \A h \in asked' : h.kind = "echo_request" => h.ping \in 1 .. pings'
    <3>1. g.ping \in 1 .. pings'
      BY <1>1, <1>2, <2>2
    <3> QED
      BY <1>2, <2>1, <2>3, <3>1 DEF WireSound
  <2>6. \A l \in 1 .. Len(arrived) : Genuine(arrived[l])
    BY DEF WireSound
  <2>7. \A k \in 1 .. Len(arrived') :
           /\ arrived'[k].kind = "echo_reply" => arrived'[k].ping \in 1 .. pings'
           /\ arrived'[k].kind = "arp_reply" => arrived'[k].ip \in Hosts /\ arrived'[k].mac \in Macs
    BY <2>3, <2>6 DEF Genuine
  <2>8. WireSound'
    BY <2>4, <2>5, <2>7 DEF WireSound, Genuine
  <2>9. CallSound'
    BY <1>1, <1>2 DEF CallSound, PingsMatchReplies, Nobody
  <2> QED
    BY <2>8, <2>9
<1>3. CASE (\E sent \in BOOLEAN : Return([ok |-> sent, ping |-> 0])) /\ UNCHANGED <<pings, asked>>
  <2>1. WireSound'
    BY <1>3 DEF WireSound, Genuine
  <2>2. CallSound'
    BY <1>1, <1>3 DEF CallSound, PingsMatchReplies, Return
  <2> QED
    BY <2>1, <2>2
<1> QED
  BY <1>2, <1>3 DEF WithMac

\* Going on with a loop, or giving up at the deadline.
LEMMA CallGoesOn ==
  ASSUME CallSound, OrGiveUp \/ Return(Nobody), UNCHANGED pings
  PROVE  CallSound'
<1>1. CASE Return(Nobody)
  BY <1>1 DEF CallSound, PingsMatchReplies, Return, Nobody
<1>2. CASE Continue
  BY <1>2 DEF CallSound, PingsMatchReplies, Continue
<1> QED
  BY <1>1, <1>2 DEF OrGiveUp

LEMMA LearnSound ==
  ASSUME CacheSound, NEW f, Genuine(f), f.kind = "arp_reply", Learn(f)
  PROVE  CacheSound'
BY CacheLearns DEF Learn, Genuine

LEMMA CallInv ==
  ASSUME NetInv, NEW what \in {"ping", "udp"}, NEW ip \in Hosts, Call(what, ip)
  PROVE  NetInv'
<1>1. net_pc = "idle" /\ (what = "ping" => pings < MaxPings)
  BY DEF Call
<1>2. UNCHANGED <<arp, heard>> /\ UNCHANGED rxVars
  BY DEF Call
<1>3. RxInv' /\ arrived' = arrived
  BY <1>2 DEF NetInv, RxInv, RxShape, Positions, Circulating, Held, rxVars
<1>4. CacheSound'
  BY <1>2 DEF NetInv, CacheSound, ArpCacheTruthful
<1>5. CASE arp_lookup(arp, ip) # Nothing /\ WithMac(arp_lookup(arp, ip), what, ip)
  <2>1. arp \in Seq(Hosts \X Macs)
    BY DEF NetInv, CacheSound
  <2>2. PICK mac \in Macs : mac = arp_lookup(arp, ip)
    BY <1>5, <2>1, LookupFinds
  <2>3. mac \in Nat /\ WithMac(mac, what, ip)
    BY <1>5, <2>2 DEF Macs
  <2>4. \A k \in 1 .. Len(arrived') : \E l \in 1 .. Len(arrived) : arrived'[k] = arrived[l]
    BY <1>3
  <2>5. WireSound' /\ CallSound'
    BY <1>1, <2>3, <2>4, WithMacSound DEF NetInv
  <2> QED
    BY <1>3, <1>4, <2>5 DEF NetInv
<1>6. CASE /\ net_pc' = "arp" /\ left' = Patience /\ target' = ip /\ purpose' = what
           /\ asked' = asked \cup {Packet("arp_request", ip, 0, 0)}
           /\ result' = Nobody /\ UNCHANGED pings
  <2>1. PICK g : g = Packet("arp_request", ip, 0, 0)
    OBVIOUS
  <2>2. g \in Frame /\ g.kind = "arp_request"
    BY <2>1 DEF Packet, Frame, Kinds, Addresses
  <2>3. WireSound'
    BY <1>3, <1>6, <2>1, <2>2 DEF NetInv, WireSound, Genuine
  <2>4. CallSound'
    BY <1>1, <1>6 DEF NetInv, CallSound, PingsMatchReplies, Nobody
  <2> QED
    BY <1>3, <1>4, <2>3, <2>4 DEF NetInv
<1> QED
  BY <1>5, <1>6 DEF Call

LEMMA ResolveInv ==
  ASSUME NetInv, arp_resolve
  PROVE  NetInv'
<1>1. net_pc = "arp" /\ target \in Hosts /\ (purpose = "ping" => pings < MaxPings)
  BY DEF arp_resolve, NetInv, CallSound
<1>2. CASE /\ NextFrame.kind = "arp_reply" /\ try_recv /\ Learn(NextFrame)
           /\ \/ NextFrame.ip = target /\ WithMac(NextFrame.mac, purpose, target)
              \/ NextFrame.ip # target /\ OrGiveUp /\ UNCHANGED <<pings, asked>>
  <2>1. PICK f : f = NextFrame
    OBVIOUS
  <2>2. RxInv' /\ Genuine(f) /\ f.kind = "arp_reply" /\ Learn(f) /\ f.mac \in Nat
    BY <1>2, <2>1, TakeGenuine DEF NetInv, Genuine, Macs
  <2>3. CacheSound'
    BY <2>2, LearnSound DEF NetInv
  <2>4. CASE WithMac(f.mac, purpose, target)
    <3>1. \A k \in 1 .. Len(arrived') : \E l \in 1 .. Len(arrived) : arrived'[k] = arrived[l]
      BY <1>2, TakeGenuine DEF NetInv
    <3>2. WireSound' /\ CallSound'
      BY <1>1, <2>2, <2>4, <3>1, WithMacSound DEF NetInv
    <3> QED
      BY <2>2, <2>3, <3>2 DEF NetInv
  <2>5. CASE OrGiveUp /\ UNCHANGED <<pings, asked>>
    <3>1. WireSound' /\ CallSound'
      BY <1>2, <2>5, WireTakes, CallGoesOn DEF NetInv
    <3> QED
      BY <2>2, <2>3, <3>1 DEF NetInv
  <2> QED
    BY <1>2, <2>1, <2>4, <2>5
<1>3. CASE try_recv /\ OrGiveUp /\ UNCHANGED <<arp, heard, pings, asked>>
  <2>1. RxInv' /\ WireSound' /\ CallSound'
    BY <1>3, TakeGenuine, WireTakes, CallGoesOn DEF NetInv
  <2>2. CacheSound'
    BY <1>3 DEF NetInv, CacheSound, ArpCacheTruthful
  <2> QED
    BY <2>1, <2>2 DEF NetInv
<1>4. CASE Return(Nobody) /\ UNCHANGED <<arp, heard, pings, asked, rxVars>>
  <2>1. RxInv' /\ WireSound' /\ CacheSound'
    BY <1>4 DEF NetInv, RxInv, RxShape, Positions, Circulating, Held, rxVars, WireSound, Genuine,
                CacheSound, ArpCacheTruthful
  <2>2. CallSound'
    BY <1>4, CallGoesOn DEF NetInv
  <2> QED
    BY <2>1, <2>2 DEF NetInv
<1> QED
  BY <1>2, <1>3, <1>4 DEF arp_resolve

LEMMA ParseSound ==
  ASSUME CacheSound, NEW f, Genuine(f), parse_frame(f)
  PROVE  CacheSound'
<1>1. CASE f.kind = "arp_reply" /\ Learn(f)
  BY <1>1, LearnSound
<1>2. CASE UNCHANGED <<arp, heard>>
  BY <1>2 DEF CacheSound, ArpCacheTruthful
<1> QED
  BY <1>1, <1>2 DEF parse_frame

LEMMA PingInv ==
  ASSUME NetInv, ping
  PROVE  NetInv'
<1>1. UNCHANGED <<pings, asked>>
  BY DEF ping
<1>2. CASE /\ try_recv /\ parse_frame(NextFrame)
           /\ \/ IsReply(NextFrame) /\ Return([ok |-> TRUE, ping |-> NextFrame.ping])
              \/ OrGiveUp
  <2>1. PICK f : f = NextFrame
    OBVIOUS
  <2>2. RxInv' /\ Genuine(f) /\ f \in Frame
    BY <1>2, <2>1, TakeGenuine DEF NetInv
  <2>3. WireSound' /\ CacheSound'
    BY <1>1, <1>2, <2>1, <2>2, WireTakes, ParseSound DEF NetInv
  <2>4. CASE OrGiveUp
    BY <1>1, <2>2, <2>3, <2>4, CallGoesOn DEF NetInv
  <2>5. CASE IsReply(f) /\ Return([ok |-> TRUE, ping |-> f.ping])
    <3>1. /\ pings \in 0 .. MaxPings /\ MaxPings \in Nat /\ SEQ_MOD \in Nat /\ MaxPings < SEQ_MOD
          /\ f.ping \in 1 .. pings /\ f.ping % SEQ_MOD = pings % SEQ_MOD
      BY <2>2, <2>5, NetAssumption DEF Genuine, IsReply, NetInv, CallSound
    <3>2. f.ping % SEQ_MOD = f.ping /\ pings % SEQ_MOD = pings
      <4>1. SEQ_MOD \in Nat \ {0} /\ f.ping \in 0 .. SEQ_MOD - 1 /\ pings \in 0 .. SEQ_MOD - 1
        BY <3>1
      <4> QED
        BY <4>1, ModSmall
    <3>3. CallSound'
      BY <1>1, <2>5, <3>1, <3>2 DEF NetInv, CallSound, PingsMatchReplies, Return
    <3> QED
      BY <2>2, <2>3, <3>3 DEF NetInv
  <2> QED
    BY <1>2, <2>1, <2>4, <2>5
<1>3. CASE Return(Nobody) /\ UNCHANGED <<arp, heard, rxVars>>
  <2>1. RxInv' /\ WireSound' /\ CacheSound'
    BY <1>1, <1>3 DEF NetInv, RxInv, RxShape, Positions, Circulating, Held, rxVars, WireSound,
                      Genuine, CacheSound, ArpCacheTruthful
  <2>2. CallSound'
    BY <1>1, <1>3, CallGoesOn DEF NetInv
  <2> QED
    BY <2>1, <2>2 DEF NetInv
<1> QED
  BY <1>2, <1>3 DEF ping

LEMMA PollInv ==
  ASSUME NetInv, poll
  PROVE  NetInv'
<1>1. PICK f : f = NextFrame
  OBVIOUS
<1>2. RxInv' /\ Genuine(f)
  BY <1>1, TakeGenuine DEF poll, NetInv
<1>3. WireSound' /\ CacheSound'
  BY <1>1, <1>2, WireTakes, ParseSound DEF poll, NetInv
<1>4. CallSound'
  BY DEF poll, NetInv, CallSound, PingsMatchReplies
<1> QED
  BY <1>2, <1>3, <1>4 DEF NetInv

LEMMA ReceiveInv ==
  ASSUME NetInv, NetReceive
  PROVE  NetInv'
<1>1. PICK f \in OnTheWire : DeviceReceive(f) /\ UNCHANGED netVars
  BY DEF NetReceive
<1>2. f \in Frame /\ Genuine(f) /\ Genuine(f)'
  <2>1. f \in Frame /\ Genuine(f)
    BY <1>1, OnTheWireIsGenuine DEF NetInv
  <2> QED
    BY <1>1, <2>1 DEF Genuine, netVars
<1>3. RxInv'
  BY <1>1, <1>2, RxReceive DEF NetInv
<1>4. arrived \in Seq(Frame) /\ arrived' = Append(arrived, f)
  BY <1>1 DEF NetInv, RxInv, RxShape, DeviceReceive
<1>5. \A k \in 1 .. Len(arrived') :
         arrived'[k] = f \/ (k \in 1 .. Len(arrived) /\ arrived'[k] = arrived[k])
  BY <1>2, <1>4
<1>6. WireSound'
  BY <1>1, <1>2, <1>5 DEF NetInv, WireSound, Genuine, netVars
<1>7. CallSound' /\ CacheSound'
  BY <1>1 DEF NetInv, CallSound, PingsMatchReplies, CacheSound, ArpCacheTruthful, netVars
<1> QED
  BY <1>3, <1>6, <1>7 DEF NetInv

\* NetInv is an inductive invariant of the stack: every buffer circulates,
\* what is on its way was asked for, and the cache is what was heard.
THEOREM NetInvariant == NetSpec => []NetInv
<1>1. NetInv /\ [NetNext]_<<rxVars, netVars>> => NetInv'
  <2> SUFFICES ASSUME NetInv, [NetNext]_<<rxVars, netVars>> PROVE NetInv'
    OBVIOUS
  <2>1. CASE UNCHANGED <<rxVars, netVars>>
    BY <2>1 DEF NetInv, RxInv, RxShape, Positions, Circulating, Held, rxVars, netVars, WireSound,
                Genuine, CallSound, PingsMatchReplies, CacheSound, ArpCacheTruthful
  <2>2. CASE NetTick
    BY <2>2 DEF NetTick, NetInv, RxInv, RxShape, Positions, Circulating, Held, rxVars, WireSound,
                Genuine, CallSound, PingsMatchReplies, CacheSound, ArpCacheTruthful
  <2>3. ASSUME NEW what \in {"ping", "udp"}, NEW ip \in Hosts, Call(what, ip) PROVE NetInv'
    BY <2>3, CallInv
  <2> QED
    BY <2>1, <2>2, <2>3, ResolveInv, PingInv, PollInv, ReceiveInv DEF NetNext
<1> QED
  BY <1>1, NetInitInv, PTL DEF NetSpec

\* A ping believes only the reply to its own request, and the ARP cache only
\* the last reply of each host (net/), for every number of hosts, entries,
\* buffers and late replies, as long as icmp_seq has not wrapped.
THEOREM StackBelievesTheGenuine == NetSpec => []AnswersAreGenuine
<1>1. NetInv => AnswersAreGenuine
  BY DEF NetInv, CallSound, CacheSound, AnswersAreGenuine
<1> QED
  BY <1>1, NetInvariant, PTL

\* The receive queue returns the frames in their order (virtio/queue.rs), and
\* the block driver its own answers, for every size of the rings.
THEOREM RingsAreReadRight == BlkSpec /\ NetSpec => []RingsReadRight
<1>1. NetInv => FramesInOrder
  <2> SUFFICES ASSUME NetInv PROVE FramesInOrder
    OBVIOUS
  <2>1. /\ rx_lu \in Index /\ Len(arrived) \in 0 .. RX_BUFS /\ Len(arrived) \in Index
        /\ RX_BUFS \in Index /\ RX_BUFS \in Nat
    BY RxConstants DEF NetInv, RxInv, RxShape, Index
  <2>2. (rx_ui + IDX_MOD - rx_lu) % IDX_MOD = Len(arrived)
    BY <2>1, IndexAhead DEF NetInv, RxInv, Positions, Index
  <2>3. (rx_ai + IDX_MOD - rx_lu) % IDX_MOD = RX_BUFS % IDX_MOD
    <3>1. RX_BUFS % IDX_MOD = RX_BUFS
      BY <2>1, RxConstants, ModSmall DEF Index
    <3> QED
      BY <2>1, <3>1, IndexAhead DEF NetInv, RxInv, Positions, Index
  <2>4. ASSUME NEW k \in 1 .. Len(arrived)
        PROVE  rx_buf[rx_used[Slot(rx_lu + k - 1)]] = arrived[k]
    <3>1. PICK l \in Buffers : l = k - 1 /\ l < Len(arrived) /\ l + 1 = k
      BY <2>1 DEF Buffers
    <3>2. rx_lu + l = rx_lu + k - 1
      BY <2>1, <3>1 DEF Index
    <3>3. rx_buf[Held(l)] = arrived[l + 1]
      BY <3>1 DEF NetInv, RxInv, Circulating
    <3> QED
      BY <3>1, <3>2, <3>3 DEF Held
  <2> QED
    BY <2>2, <2>3, <2>4 DEF FramesInOrder
<1> QED
  BY <1>1, BlockAnswers, NetInvariant, PTL DEF RingsReadRight

-----------------------------------------------------------------------------
(* Rings.                                                                   *)

Cells == {"blank", "key", "click", "move", "a", "A", "1", "!", "x", "y"}
Places(c) == 0 .. c - 1
Rings(c) == [buf: [Places(c) -> Cells], head: Places(c), tail: Places(c), owed: Seq(Cells)]

\* A place at most one turn on, and how far one place is ahead of another.
Wrap(x, c) == IF x < c THEN x ELSE x - c
Gap(h, t, c) == IF t >= h THEN t - h ELSE t - h + c

\* The cells from head to tail hold what is owed.
Sound(r, c) ==
  /\ r \in Rings(c)
  /\ Len(r.owed) = Gap(r.head, r.tail, c)
  /\ \A i \in Nat : i < Len(r.owed) => r.buf[Wrap(r.head + i, c)] = r.owed[i + 1]

LEMMA WrapMod ==
  ASSUME NEW c \in Nat \ {0}, NEW x \in Nat, x < 2 * c
  PROVE  x % c = Wrap(x, c) /\ Wrap(x, c) \in Places(c)
<1>1. PICK q \in Nat, r \in 0 .. c - 1 : x = c * q + r /\ x % c = r
  OBVIOUS
<1>2. q \in {0, 1}
  <2>1. SUFFICES ASSUME q >= 2 PROVE FALSE
    OBVIOUS
  <2>2. PICK k \in Nat : q = 2 + k
    <3>1. q - 2 \in Nat /\ q = 2 + (q - 2)
      BY <2>1
    <3> QED
      BY <3>1
  <2>3. c * q = 2 * c + c * k /\ c * k \in Nat
    BY <2>2
  <2> QED
    BY <1>1, <2>3
<1>3. CASE q = 0
  BY <1>1, <1>3 DEF Wrap, Places
<1>4. CASE q = 1
  BY <1>1, <1>4 DEF Wrap, Places
<1> QED
  BY <1>2, <1>3, <1>4

LEMMA GapMod ==
  ASSUME NEW c \in Nat \ {0}, NEW h \in Places(c), NEW t \in Places(c)
  PROVE  /\ (t - h + c) % c = Gap(h, t, c) /\ Gap(h, t, c) \in Places(c)
         /\ Gap(h, t, c) \in Nat /\ Gap(h, t, c) < c
<1>1. PICK x \in Nat : x = t - h + c /\ x < 2 * c
  BY DEF Places
<1>2. x % c = Wrap(x, c) /\ Wrap(x, c) \in Places(c)
  BY <1>1, WrapMod
<1>3. Wrap(x, c) = Gap(h, t, c)
  BY <1>1 DEF Wrap, Gap, Places
<1> QED
  BY <1>1, <1>2, <1>3 DEF Places

LEMMA SuccWrap ==
  ASSUME NEW c \in Nat \ {0}, NEW h \in Places(c)
  PROVE  Succ(h, c) = Wrap(h + 1, c) /\ Succ(h, c) \in Places(c)
<1>1. PICK x \in Nat : x = h + 1 /\ x < 2 * c
  BY DEF Places
<1> QED
  BY <1>1, WrapMod DEF Succ

\* One step of tail, one step of head.
LEMMA GapSteps ==
  ASSUME NEW c \in Nat \ {0}, NEW h \in Places(c), NEW t \in Places(c)
  PROVE  /\ Wrap(t + 1, c) # h => Gap(h, Wrap(t + 1, c), c) = Gap(h, t, c) + 1
         /\ h # t => Gap(Wrap(h + 1, c), t, c) = Gap(h, t, c) - 1
         /\ \A i \in Nat : i + 1 < Gap(h, t, c) => Wrap(Wrap(h + 1, c) + i, c) = Wrap(h + (i + 1), c)
<1>1. Wrap(t + 1, c) # h => Gap(h, Wrap(t + 1, c), c) = Gap(h, t, c) + 1
  <2>1. CASE t + 1 < c
    <3>1. Wrap(t + 1, c) = t + 1
      BY <2>1 DEF Wrap
    <3> QED
      BY <3>1 DEF Gap, Places
  <2>2. CASE t + 1 = c
    <3>1. Wrap(t + 1, c) = 0
      BY <2>2 DEF Wrap
    <3> QED
      BY <2>2, <3>1 DEF Gap, Places
  <2> QED
    BY <2>1, <2>2 DEF Places
<1>2. h # t => Gap(Wrap(h + 1, c), t, c) = Gap(h, t, c) - 1
  <2>1. CASE h + 1 < c
    <3>1. Wrap(h + 1, c) = h + 1
      BY <2>1 DEF Wrap
    <3> QED
      BY <3>1 DEF Gap, Places
  <2>2. CASE h + 1 = c
    <3>1. Wrap(h + 1, c) = 0
      BY <2>2 DEF Wrap
    <3> QED
      BY <2>2, <3>1 DEF Gap, Places
  <2> QED
    BY <2>1, <2>2 DEF Places
<1>3. ASSUME NEW i \in Nat, i + 1 < Gap(h, t, c)
      PROVE  Wrap(Wrap(h + 1, c) + i, c) = Wrap(h + (i + 1), c)
  <2>0. i + 1 < c
    BY <1>3 DEF Gap, Places
  <2>1. CASE h + 1 < c
    <3>1. Wrap(h + 1, c) = h + 1 /\ h + 1 + i = h + (i + 1)
      BY <2>1 DEF Wrap, Places
    <3> QED
      BY <3>1
  <2>2. CASE h + 1 = c
    <3>1. Wrap(h + 1, c) = 0
      BY <2>2 DEF Wrap
    <3>2. Wrap(0 + i, c) = i /\ Wrap(h + (i + 1), c) = i
      BY <2>0, <2>2 DEF Wrap, Places
    <3> QED
      BY <3>1, <3>2
  <2> QED
    BY <2>1, <2>2 DEF Places
<1> QED
  BY <1>1, <1>2, <1>3

\* Many steps of head.
LEMMA GapDrop ==
  ASSUME NEW c \in Nat \ {0}, NEW h \in Places(c), NEW t \in Places(c), NEW n \in Nat,
         n <= Gap(h, t, c)
  PROVE  /\ h + n \in Nat /\ h + n < 2 * c
         /\ Gap(Wrap(h + n, c), t, c) = Gap(h, t, c) - n
         /\ \A i \in Nat : n + i < Gap(h, t, c) => Wrap(Wrap(h + n, c) + i, c) = Wrap(h + (n + i), c)
<1>1. h \in Nat /\ h < c /\ t \in Nat /\ t < c
  BY DEF Places
<1>2. PICK g \in Nat : g = Gap(h, t, c) /\ g < c /\ g = (IF t >= h THEN t - h ELSE t - h + c) /\ n <= g
  BY GapMod DEF Gap
<1>3. Gap(Wrap(h + n, c), t, c) = g - n
  BY <1>1, <1>2 DEF Gap, Wrap
<1>4. ASSUME NEW i \in Nat, n + i < g PROVE Wrap(Wrap(h + n, c) + i, c) = Wrap(h + (n + i), c)
  BY <1>1, <1>2, <1>4 DEF Wrap
<1> QED
  BY <1>1, <1>2, <1>3, <1>4

\* Many steps of tail.
LEMMA GapWrite ==
  ASSUME NEW c \in Nat \ {0}, NEW h \in Places(c), NEW t \in Places(c), NEW n \in Nat,
         n + Gap(h, t, c) < c
  PROVE  /\ t + n \in Nat /\ t + n < 2 * c
         /\ Gap(h, Wrap(t + n, c), c) = Gap(h, t, c) + n
         /\ \A i \in Nat : i < Gap(h, t, c) + n => Wrap(h + i, c) \in Places(c)
         /\ \A i \in Nat : i < Gap(h, t, c) => ~(Gap(t, Wrap(h + i, c), c) < n)
         /\ \A j \in Nat : j < n => Gap(t, Wrap(h + (Gap(h, t, c) + j), c), c) = j
<1>1. h \in Nat /\ h < c /\ t \in Nat /\ t < c
  BY DEF Places
<1>2. PICK g \in Nat : g = Gap(h, t, c) /\ g < c /\ g = (IF t >= h THEN t - h ELSE t - h + c)
  BY GapMod DEF Gap
<1>3. Gap(h, Wrap(t + n, c), c) = g + n
  BY <1>1, <1>2 DEF Gap, Wrap
<1>4. ASSUME NEW i \in Nat, i < g + n PROVE Wrap(h + i, c) \in Places(c)
  BY <1>1, <1>2, <1>4 DEF Wrap, Places
<1>5. ASSUME NEW i \in Nat, i < g PROVE ~(Gap(t, Wrap(h + i, c), c) < n)
  BY <1>1, <1>2, <1>5 DEF Wrap, Gap
<1>6. ASSUME NEW j \in Nat, j < n PROVE Gap(t, Wrap(h + (g + j), c), c) = j
  BY <1>1, <1>2, <1>6 DEF Wrap, Gap
<1> QED
  BY <1>1, <1>2, <1>3, <1>4, <1>5, <1>6

(* Sequences of cells.                                                      *)

LEMMA DropFacts ==
  ASSUME NEW s \in Seq(Cells), NEW k \in Nat, k <= Len(s)
  PROVE  \E r \in Seq(Cells) : /\ r = SubSeq(s, k + 1, Len(s)) /\ Len(r) = Len(s) - k
                               /\ \A i \in 1 .. Len(r) : r[i] = s[k + i]
<1>1. /\ SubSeq(s, k + 1, Len(s)) \in Seq(Cells)
      /\ Len(SubSeq(s, k + 1, Len(s))) = Len(s) - k
      /\ \A i \in 1 .. Len(s) - k : SubSeq(s, k + 1, Len(s))[i] = s[k + i]
  OBVIOUS
<1> QED
  BY <1>1

\* r is s and the first n of d.
Joins(r, s, d, n) ==
  /\ r = s \o SubSeq(d, 1, n) /\ Len(r) = Len(s) + n
  /\ \A i \in Nat : i < Len(s) => r[i + 1] = s[i + 1]
  /\ \A i \in Nat : i < n => r[Len(s) + i + 1] = d[i + 1]

LEMMA AppendFacts ==
  ASSUME NEW s \in Seq(Cells), NEW d \in Seq(Cells), NEW n \in Nat, n <= Len(d)
  PROVE  \E r \in Seq(Cells) : Joins(r, s, d, n)
<1>1. /\ SubSeq(d, 1, n) \in Seq(Cells) /\ Len(SubSeq(d, 1, n)) = n
      /\ \A i \in 1 .. n : SubSeq(d, 1, n)[i] = d[i]
  OBVIOUS
<1>2. PICK e \in Seq(Cells) : e = SubSeq(d, 1, n) /\ Len(e) = n /\ \A i \in 1 .. n : e[i] = d[i]
  BY <1>1
<1>3. /\ s \o e \in Seq(Cells) /\ Len(s \o e) = Len(s) + n
      /\ \A i \in 1 .. Len(s) + n : (s \o e)[i] = IF i <= Len(s) THEN s[i] ELSE e[i - Len(s)]
  BY <1>2
<1>4. ASSUME NEW i \in Nat, i < Len(s) PROVE (s \o e)[i + 1] = s[i + 1]
  <2>1. PICK k \in 1 .. Len(s) + n : k = i + 1 /\ k <= Len(s)
    BY <1>4
  <2> QED
    BY <1>3, <2>1
<1>5. ASSUME NEW i \in Nat, i < n PROVE (s \o e)[Len(s) + i + 1] = d[i + 1]
  <2>1. PICK k \in 1 .. Len(s) + n, j \in 1 .. n :
           k = Len(s) + i + 1 /\ ~(k <= Len(s)) /\ j = i + 1 /\ k - Len(s) = j
    BY <1>5
  <2> QED
    BY <1>2, <1>3, <2>1
<1> QED
  BY <1>2, <1>3, <1>4, <1>5 DEF Joins

(* The operations on a ring.                                                *)

LEMMA Fields ==
  ASSUME NEW c \in Nat \ {0}, NEW r \in Rings(c)
  PROVE  /\ r.buf \in [Places(c) -> Cells] /\ r.head \in Places(c) /\ r.tail \in Places(c)
         /\ r.owed \in Seq(Cells) /\ Len(r.owed) \in Nat
BY DEF Rings

\* What is owed is what the ring holds.
LEMMA RingHolds ==
  ASSUME NEW c \in Nat \ {0}, NEW r, Sound(r, c)
  PROVE  Contents(r, c) = r.owed
<1>1. r \in Rings(c)
  BY DEF Sound
<1>2. /\ r.buf \in [Places(c) -> Cells] /\ r.head \in Places(c) /\ r.tail \in Places(c)
      /\ r.owed \in Seq(Cells) /\ Len(r.owed) \in Nat
  BY <1>1, Fields
<1>3. (r.tail - r.head + c) % c = Len(r.owed) /\ Len(r.owed) \in Places(c)
  BY <1>2, GapMod DEF Sound
<1>4. ASSUME NEW i \in 1 .. Len(r.owed) PROVE r.buf[(r.head + i - 1) % c] = r.owed[i]
  <2>1. PICK j \in Nat : j = i - 1 /\ j < Len(r.owed) /\ j + 1 = i
    BY <1>2
  <2>2. PICK x \in Nat : x = r.head + j /\ x = r.head + i - 1 /\ x < 2 * c
    BY <1>2, <1>3, <2>1 DEF Places
  <2>3. x % c = Wrap(r.head + j, c)
    BY <2>2, WrapMod
  <2>4. r.buf[Wrap(r.head + j, c)] = r.owed[j + 1]
    BY <2>1 DEF Sound
  <2> QED
    BY <2>1, <2>2, <2>3, <2>4
<1>5. Contents(r, c) = [i \in 1 .. Len(r.owed) |-> r.owed[i]]
  BY <1>3, <1>4 DEF Contents
<1> QED
  BY <1>2, <1>5

\* The cell at tail is free.
LEMMA StoreKeeps ==
  ASSUME NEW c \in Nat \ {0}, NEW r, Sound(r, c), NEW v \in Cells
  PROVE  /\ Sound([r EXCEPT !.buf[r.tail] = v], c)
         /\ [r EXCEPT !.buf[r.tail] = v].buf[r.tail] = v
         /\ r.head # r.tail => [r EXCEPT !.buf[r.tail] = v].buf[r.head] = r.buf[r.head]
<1>1. r \in Rings(c)
  BY DEF Sound
<1>2. /\ r.buf \in [Places(c) -> Cells] /\ r.head \in Places(c) /\ r.tail \in Places(c)
      /\ r.owed \in Seq(Cells) /\ Len(r.owed) \in Nat
  BY <1>1, Fields
<1>3. PICK p : p = [r EXCEPT !.buf[r.tail] = v]
  OBVIOUS
<1>4. PICK b : b = [r.buf EXCEPT ![r.tail] = v]
  OBVIOUS
<1>5. b \in [Places(c) -> Cells]
  BY <1>2, <1>4
<1>6. p = [r EXCEPT !.buf = b]
  BY <1>3, <1>4
<1>7. p \in Rings(c) /\ p.buf = b /\ p.head = r.head /\ p.tail = r.tail /\ p.owed = r.owed
  BY <1>1, <1>5, <1>6 DEF Rings
<1>8. ASSUME NEW i \in Nat, i < Len(r.owed) PROVE b[Wrap(r.head + i, c)] = r.owed[i + 1]
  <2>1. Wrap(r.head + i, c) \in Places(c) /\ Wrap(r.head + i, c) # r.tail
    BY <1>2, <1>8 DEF Sound, Gap, Wrap, Places
  <2>2. r.buf[Wrap(r.head + i, c)] = r.owed[i + 1]
    BY <1>8 DEF Sound
  <2> QED
    BY <1>2, <1>4, <2>1, <2>2
<1>9. Sound(p, c)
  BY <1>7, <1>8 DEF Sound
<1>10. b[r.tail] = v /\ (r.head # r.tail => b[r.head] = r.buf[r.head])
  BY <1>2, <1>4
<1> QED
  BY <1>3, <1>7, <1>9, <1>10

\* Moving tail over a cell owes its value.
LEMMA CommitKeeps ==
  ASSUME NEW c \in Nat \ {0}, NEW r, Sound(r, c), Succ(r.tail, c) # r.head
  PROVE  \E p : /\ p = [r EXCEPT !.tail = Succ(r.tail, c), !.owed = Append(r.owed, r.buf[r.tail])]
                /\ Sound(p, c) /\ p.head = r.head /\ p.buf = r.buf /\ p.head # p.tail
<1>1. r \in Rings(c)
  BY DEF Sound
<1>2. /\ r.buf \in [Places(c) -> Cells] /\ r.head \in Places(c) /\ r.tail \in Places(c)
      /\ r.owed \in Seq(Cells) /\ Len(r.owed) \in Nat
  BY <1>1, Fields
<1>3. PICK t \in Places(c), v \in Cells : t = Succ(r.tail, c) /\ t = Wrap(r.tail + 1, c) /\ v = r.buf[r.tail]
  BY <1>2, SuccWrap
<1>4. PICK o \in Seq(Cells) : o = Append(r.owed, v)
  <2>1. \A s \in Seq(Cells) : Append(s, v) \in Seq(Cells)
    OBVIOUS
  <2> QED
    BY <1>2, <2>1
<1>5. PICK p : p = [r EXCEPT !.tail = t, !.owed = o]
  OBVIOUS
<1>6. p \in Rings(c) /\ p.buf = r.buf /\ p.head = r.head /\ p.tail = t /\ p.owed = o
  BY <1>1, <1>5 DEF Rings
<1>7. Len(o) = Len(r.owed) + 1 /\ \A i \in Nat : i < Len(o) =>
         o[i + 1] = IF i < Len(r.owed) THEN r.owed[i + 1] ELSE v
  BY <1>2, <1>4
<1>8. Len(r.owed) = Gap(r.head, r.tail, c) /\ t # r.head
  BY <1>3 DEF Sound
<1>9. Len(o) = Gap(r.head, t, c)
  BY <1>2, <1>3, <1>7, <1>8, GapSteps
<1>10. ASSUME NEW i \in Nat, i < Len(o) PROVE r.buf[Wrap(r.head + i, c)] = o[i + 1]
  <2>1. CASE i < Len(r.owed)
    BY <1>7, <1>10, <2>1 DEF Sound
  <2>2. CASE i = Len(r.owed)
    <3>1. Wrap(r.head + i, c) = r.tail
      BY <1>2, <1>8, <2>2 DEF Gap, Wrap, Places
    <3> QED
      BY <1>3, <1>7, <1>10, <2>2, <3>1
  <2> QED
    BY <1>2, <1>7, <1>10, <2>1, <2>2
<1>11. Sound(p, c)
  BY <1>6, <1>9, <1>10 DEF Sound
<1> QED
  BY <1>3, <1>4, <1>5, <1>6, <1>8, <1>11

LEMMA PushKeeps ==
  ASSUME NEW c \in Nat \ {0}, NEW r, Sound(r, c), NEW v \in Cells, NEW p, p = Pushed(r, v, c)
  PROVE  /\ Sound(p, c) /\ p.head = r.head
         /\ r.head # r.tail => p.head # p.tail /\ p.buf[p.head] = r.buf[r.head]
<1>1. CASE Succ(r.tail, c) = r.head
  BY <1>1 DEF Pushed
<1>2. CASE Succ(r.tail, c) # r.head
  <2>1. PICK s : s = [r EXCEPT !.buf[r.tail] = v]
    OBVIOUS
  <2>2. r \in Rings(c)
    BY DEF Sound
  <2>3. /\ Sound(s, c) /\ s.buf[r.tail] = v
        /\ r.head # r.tail => s.buf[r.head] = r.buf[r.head]
    BY <2>1, StoreKeeps
  <2>4. s.head = r.head /\ s.tail = r.tail /\ s.owed = r.owed
    BY <2>1, <2>2 DEF Rings
  <2>5. p = [s EXCEPT !.tail = Succ(s.tail, c), !.owed = Append(s.owed, s.buf[s.tail])]
    <3>1. p = [r EXCEPT !.buf[r.tail] = v, !.tail = Succ(r.tail, c), !.owed = Append(r.owed, v)]
      BY <1>2, <2>2 DEF Pushed, Rings
    <3>2. [s EXCEPT !.tail = Succ(r.tail, c), !.owed = Append(r.owed, v)] =
          [r EXCEPT !.buf[r.tail] = v, !.tail = Succ(r.tail, c), !.owed = Append(r.owed, v)]
      BY <2>1
    <3> QED
      BY <2>3, <2>4, <3>1, <3>2
  <2>6. /\ Sound(p, c) /\ p.head = s.head /\ p.buf = s.buf /\ p.head # p.tail
    <3>1. Succ(s.tail, c) # s.head
      BY <1>2, <2>4
    <3>2. PICK q : /\ q = [s EXCEPT !.tail = Succ(s.tail, c), !.owed = Append(s.owed, s.buf[s.tail])]
                   /\ Sound(q, c) /\ q.head = s.head /\ q.buf = s.buf /\ q.head # q.tail
      BY <2>3, <3>1, CommitKeeps, Zenon
    <3>3. p = q
      BY <2>5, <3>2, Zenon
    <3> QED
      BY <3>2, <3>3, Zenon
  <2> QED
    BY <2>3, <2>4, <2>6
<1> QED
  BY <1>1, <1>2

\* A ring with something in it owes what is at head first; taking it moves
\* head.
LEMMA PopKeeps ==
  ASSUME NEW c \in Nat \ {0}, NEW r, Sound(r, c), r.head # r.tail
  PROVE  /\ r.owed # << >> /\ Head(r.owed) = r.buf[r.head]
         /\ Sound([r EXCEPT !.head = Succ(r.head, c), !.owed = Tail(r.owed)], c)
<1>1. r \in Rings(c)
  BY DEF Sound
<1>2. /\ r.buf \in [Places(c) -> Cells] /\ r.head \in Places(c) /\ r.tail \in Places(c)
      /\ r.owed \in Seq(Cells) /\ Len(r.owed) \in Nat
  BY <1>1, Fields
<1>3. Len(r.owed) = Gap(r.head, r.tail, c) /\ Len(r.owed) > 0
  BY <1>2 DEF Sound, Gap, Places
<1>4. r.owed # << >>
  BY <1>2, <1>3
<1>5. Head(r.owed) = r.buf[r.head]
  <2>1. r.buf[Wrap(r.head + 0, c)] = r.owed[0 + 1]
    BY <1>3 DEF Sound
  <2>2. Wrap(r.head + 0, c) = r.head
    BY <1>2 DEF Wrap, Places
  <2> QED
    BY <1>2, <1>4, <2>1, <2>2
<1>6. PICK h \in Places(c) : h = Succ(r.head, c) /\ h = Wrap(r.head + 1, c)
  BY <1>2, SuccWrap
<1>7. PICK o \in Seq(Cells) : /\ o = Tail(r.owed) /\ Len(o) = Len(r.owed) - 1
                              /\ \A i \in 1 .. Len(o) : o[i] = r.owed[i + 1]
  <2>1. ASSUME NEW s \in Seq(Cells), s # << >>
        PROVE  /\ Tail(s) \in Seq(Cells) /\ Len(Tail(s)) = Len(s) - 1
               /\ \A i \in 1 .. Len(Tail(s)) : Tail(s)[i] = s[i + 1]
    BY <2>1
  <2> QED
    BY <1>2, <1>4, <2>1
<1>8. PICK p : p = [r EXCEPT !.head = h, !.owed = o]
  OBVIOUS
<1>9. p \in Rings(c) /\ p.buf = r.buf /\ p.head = h /\ p.tail = r.tail /\ p.owed = o
  BY <1>1, <1>8 DEF Rings
<1>10. Len(o) = Gap(h, r.tail, c)
  BY <1>2, <1>3, <1>6, <1>7, GapSteps
<1>11. ASSUME NEW i \in Nat, i < Len(o) PROVE r.buf[Wrap(h + i, c)] = o[i + 1]
  <2>2. i + 1 \in Nat /\ i + 1 < Len(r.owed) /\ i + 1 \in 1 .. Len(o)
    BY <1>2, <1>7, <1>11
  <2>1. Wrap(h + i, c) = Wrap(r.head + (i + 1), c)
    BY <1>2, <1>3, <1>6, <2>2, GapSteps
  <2>3. r.buf[Wrap(r.head + (i + 1), c)] = r.owed[i + 1 + 1]
    BY <2>2 DEF Sound
  <2> QED
    BY <1>7, <2>1, <2>2, <2>3
<1>12. Sound(p, c)
  BY <1>9, <1>10, <1>11 DEF Sound
<1> QED
  BY <1>4, <1>5, <1>6, <1>7, <1>8, <1>12

\* Reading n bytes of the pipe.
LEMMA DropKeeps ==
  ASSUME NEW c \in Nat \ {0}, NEW r, Sound(r, c), NEW n \in Nat, n <= Len(r.owed)
  PROVE  Sound([r EXCEPT !.head = (r.head + n) % c, !.owed = SubSeq(r.owed, n + 1, Len(r.owed))], c)
<1>1. r \in Rings(c)
  BY DEF Sound
<1>2. PICK b, h, t, o : b = r.buf /\ h = r.head /\ t = r.tail /\ o = r.owed
  OBVIOUS
<1>3. /\ b \in [Places(c) -> Cells] /\ h \in Places(c) /\ t \in Places(c)
      /\ o \in Seq(Cells) /\ Len(o) \in Nat /\ Len(o) = Gap(h, t, c) /\ n <= Len(o)
      /\ \A i \in Nat : i < Len(o) => b[Wrap(h + i, c)] = o[i + 1]
  BY <1>1, <1>2, Fields DEF Sound
<1>4. /\ h + n \in Nat /\ h + n < 2 * c
      /\ Gap(Wrap(h + n, c), t, c) = Len(o) - n
      /\ \A i \in Nat : n + i < Len(o) => Wrap(Wrap(h + n, c) + i, c) = Wrap(h + (n + i), c)
  BY <1>3, GapDrop
<1>5. PICK h2 \in Places(c) : h2 = (h + n) % c /\ h2 = Wrap(h + n, c)
  BY <1>4, WrapMod
<1>6. PICK o2 \in Seq(Cells) : /\ o2 = SubSeq(o, n + 1, Len(o)) /\ Len(o2) = Len(o) - n
                               /\ \A i \in 1 .. Len(o2) : o2[i] = o[n + i]
  BY <1>3, DropFacts
<1>7. PICK p : p = [r EXCEPT !.head = h2, !.owed = o2]
  OBVIOUS
<1>8. p \in Rings(c) /\ p.buf = b /\ p.head = h2 /\ p.tail = t /\ p.owed = o2
  BY <1>1, <1>2, <1>7 DEF Rings
<1>9. ASSUME NEW i \in Nat, i < Len(o2) PROVE b[Wrap(h2 + i, c)] = o2[i + 1]
  <2>1. PICK k \in Nat : k = n + i /\ k < Len(o) /\ i + 1 \in 1 .. Len(o2) /\ n + (i + 1) = k + 1
    BY <1>3, <1>6, <1>9
  <2>2. Wrap(h2 + i, c) = Wrap(h + k, c)
    BY <1>4, <1>5, <2>1
  <2>3. b[Wrap(h + k, c)] = o[k + 1]
    BY <1>3, <2>1
  <2> QED
    BY <1>6, <2>1, <2>2, <2>3
<1>10. Sound(p, c)
  BY <1>4, <1>5, <1>6, <1>8, <1>9 DEF Sound
<1> QED
  BY <1>2, <1>5, <1>6, <1>7, <1>10

\* Writing data to the pipe, as far as there is room.
LEMMA WriteKeeps ==
  ASSUME PIPE_CAP \in Nat \ {0}, Sound(pipe, PIPE_CAP), NEW data \in Seq(Cells)
  PROVE  Sound(pipe_write(data), PIPE_CAP)
<1>0. PICK c \in Nat \ {0} : c = PIPE_CAP
  OBVIOUS
<1>1. pipe \in Rings(c)
  BY <1>0 DEF Sound
<1>2. PICK b, h, t, o : b = pipe.buf /\ h = pipe.head /\ t = pipe.tail /\ o = pipe.owed
  OBVIOUS
<1>3. /\ b \in [Places(c) -> Cells] /\ h \in Places(c) /\ t \in Places(c)
      /\ o \in Seq(Cells) /\ Len(o) = Gap(h, t, c)
      /\ \A i \in Nat : i < Len(o) => b[Wrap(h + i, c)] = o[i + 1]
  BY <1>0, <1>1, <1>2, Fields DEF Sound
<1>4. PICK l \in Nat : l = Len(o) /\ l = Gap(h, t, c) /\ l < c
  BY <1>3, GapMod
<1>5. PICK room \in Nat : room = (h - t - 1 + c) % c /\ room + l < c
  <2>1. PICK x \in Nat : x = h - t - 1 + c /\ x < 2 * c
    BY <1>3 DEF Places
  <2>2. x % c = Wrap(x, c) /\ Wrap(x, c) \in Nat
    BY <2>1, WrapMod DEF Places
  <2>3. Wrap(x, c) + l = c - 1
    BY <1>3, <1>4, <2>1 DEF Wrap, Gap, Places
  <2> QED
    BY <1>4, <2>1, <2>2, <2>3
<1>6. PICK n \in Nat : n = (IF Len(data) < room THEN Len(data) ELSE room) /\ n <= room /\ n <= Len(data)
  BY <1>5
<1>7. n + Gap(h, t, c) < c
  BY <1>4, <1>5, <1>6
<1>8. /\ t + n \in Nat /\ t + n < 2 * c
      /\ Gap(h, Wrap(t + n, c), c) = l + n
      /\ \A i \in Nat : i < l + n => Wrap(h + i, c) \in Places(c)
      /\ \A i \in Nat : i < l => ~(Gap(t, Wrap(h + i, c), c) < n)
      /\ \A j \in Nat : j < n => Gap(t, Wrap(h + (l + j), c), c) = j
  BY <1>3, <1>4, <1>7, GapWrite
<1>9. \A i \in Places(c) : (i - t + c) % c = Gap(t, i, c) /\ Gap(t, i, c) \in Nat
  BY <1>3, GapMod
<1>10. PICK b2 : b2 = [i \in 0 .. (c - 1) |->
                         IF (i - t + c) % c < n THEN data[((i - t + c) % c) + 1] ELSE b[i]]
  OBVIOUS
<1>11. b2 = [i \in Places(c) |-> IF Gap(t, i, c) < n THEN data[Gap(t, i, c) + 1] ELSE b[i]]
  BY <1>9, <1>10 DEF Places
<1>12. b2 \in [Places(c) -> Cells]
  <2>1. ASSUME NEW i \in Places(c), Gap(t, i, c) < n PROVE data[Gap(t, i, c) + 1] \in Cells
    <3>1. PICK k \in 1 .. Len(data) : k = Gap(t, i, c) + 1
      BY <1>6, <1>9, <2>1
    <3> QED
      BY <3>1
  <2> QED
    BY <1>3, <1>11, <2>1
<1>13. PICK t2 \in Places(c) : t2 = (t + n) % c /\ t2 = Wrap(t + n, c)
  BY <1>8, WrapMod
<1>14. PICK o2 \in Seq(Cells) :
          /\ o2 = o \o SubSeq(data, 1, n) /\ Len(o2) = l + n
          /\ \A i \in Nat : i < l => o2[i + 1] = o[i + 1]
          /\ \A i \in Nat : i < n => o2[l + i + 1] = data[i + 1]
  <2>1. o \in Seq(Cells) /\ n <= Len(data)
    BY <1>3, <1>6
  <2>2. PICK r \in Seq(Cells) : Joins(r, o, data, n)
    BY <2>1, AppendFacts, Zenon
  <2> QED
    BY <1>4, <2>2 DEF Joins
<1>15. PICK p : p = [pipe EXCEPT !.buf = b2, !.tail = t2, !.owed = o2]
  OBVIOUS
<1>16. p \in Rings(c) /\ p.buf = b2 /\ p.head = h /\ p.tail = t2 /\ p.owed = o2
  BY <1>1, <1>2, <1>12, <1>15 DEF Rings
<1>17. pipe_write(data) = p
  BY <1>0, <1>2, <1>5, <1>6, <1>10, <1>13, <1>14, <1>15 DEF pipe_write
<1>18. ASSUME NEW i \in Nat, i < l PROVE b2[Wrap(h + i, c)] = o2[i + 1]
  <2>1. PICK w \in Places(c) : w = Wrap(h + i, c)
    <3>1. i < l + n
      BY <1>18
    <3> QED
      BY <1>8, <3>1
  <2>2. ~(Gap(t, w, c) < n) /\ b[w] = o[i + 1]
    BY <1>3, <1>4, <1>8, <1>18, <2>1
  <2> QED
    BY <1>11, <1>14, <1>18, <2>1, <2>2
<1>19. ASSUME NEW j \in Nat, j < n PROVE b2[Wrap(h + (l + j), c)] = o2[l + j + 1]
  <2>1. PICK w \in Places(c) : w = Wrap(h + (l + j), c)
    <3>1. l + j \in Nat /\ l + j < l + n
      BY <1>19
    <3> QED
      BY <1>8, <3>1
  <2>2. Gap(t, w, c) = j
    BY <1>8, <1>19, <2>1
  <2> QED
    BY <1>11, <1>14, <1>19, <2>1, <2>2
<1>20. ASSUME NEW i \in Nat, i < Len(o2) PROVE b2[Wrap(h + i, c)] = o2[i + 1]
  <2>1. CASE i < l
    BY <1>18, <2>1
  <2>2. CASE ~(i < l)
    <3>1. PICK j \in Nat : i = l + j /\ j < n
      <4>1. i - l \in Nat /\ i = l + (i - l) /\ i - l < n
        BY <1>14, <1>20, <2>2
      <4> QED
        BY <4>1
    <3> QED
      BY <1>19, <3>1
  <2> QED
    BY <2>1, <2>2
<1>21. Sound(p, c)
  BY <1>8, <1>13, <1>14, <1>16, <1>20 DEF Sound
<1> QED
  BY <1>0, <1>17, <1>21

LEMMA EmptySound ==
  ASSUME NEW c \in Nat \ {0}
  PROVE  Sound(EmptyRing(c), c)
<1>1. 0 \in Places(c) /\ BlankCell \in Cells
  BY DEF Places, Cells, BlankCell
<1>2. PICK b \in [Places(c) -> Cells] : b = [i \in 0 .. (c - 1) |-> BlankCell]
  BY <1>1 DEF Places
<1>3. EmptyRing(c) = [buf |-> b, head |-> 0, tail |-> 0, owed |-> << >>]
  BY <1>2 DEF EmptyRing
<1>4. EmptyRing(c) \in Rings(c)
  BY <1>1, <1>3 DEF Rings
<1>5. EmptyRing(c).owed = << >> /\ EmptyRing(c).head = 0 /\ EmptyRing(c).tail = 0
  BY <1>3
<1>6. Len(EmptyRing(c).owed) = 0 /\ Gap(0, 0, c) = 0
  BY <1>5 DEF Gap
<1> QED
  BY <1>4, <1>5, <1>6 DEF Sound

---------------------------------------------------------------------------
(* Keys, events and bytes.                                                  *)

ReaderSteps == {"user", "try", "store", "none", "hlt"}

KeysSound ==
  /\ Sound(kbd, BUF_CAP) /\ reader \in [pc: ReaderSteps, key: Cells]
  /\ reader.pc = "store" => kbd.head # kbd.tail /\ reader.key = kbd.buf[kbd.head]

\* What a read event and a half-done push of key_gen rely on.
EventsSound ==
  /\ torn \in BOOLEAN /\ gen \in [pc: {"idle", "loaded", "stored"}, tail: Places(EVT_CAP)]
  /\ ~torn =>
       /\ Sound(ring, EVT_CAP)
       /\ drv.pc = "read" => ring.head # ring.tail /\ drv.val = ring.buf[ring.head]
       /\ gen.pc # "idle" => gen.tail = ring.tail
       /\ gen.pc = "stored" => Succ(ring.tail, EVT_CAP) # ring.head /\ ring.buf[ring.tail] = "key"

RingsInv == KeysSound /\ EventsSound /\ Sound(pipe, PIPE_CAP)

LEMMA Caps == BUF_CAP \in Nat \ {0} /\ EVT_CAP \in Nat \ {0} /\ PIPE_CAP \in Nat \ {0}
BY KeyboardAssumption, RingAssumption, PipesAssumption

LEMMA RingsInit == InputInit => RingsInv
<1> SUFFICES ASSUME InputInit PROVE RingsInv
  OBVIOUS
<1>1. /\ kbd = EmptyRing(BUF_CAP) /\ reader = [pc |-> "user", key |-> BlankCell]
      /\ ring = EmptyRing(EVT_CAP) /\ drv = [pc |-> "idle", val |-> BlankCell]
      /\ gen = [pc |-> "idle", tail |-> 0] /\ torn = FALSE /\ pipe = EmptyRing(PIPE_CAP)
  BY DEF InputInit, KbdInit, RingInit, PipesInit
<1>2. KeysSound
  BY <1>1, Caps, EmptySound DEF KeysSound, ReaderSteps, BlankCell, Cells
<1>3. EventsSound
  <2>1. 0 \in Places(EVT_CAP)
    BY Caps DEF Places
  <2> QED
    BY <1>1, <2>1, Caps, EmptySound DEF EventsSound
<1>4. Sound(pipe, PIPE_CAP)
  BY <1>1, Caps, EmptySound
<1> QED
  BY <1>2, <1>3, <1>4 DEF RingsInv

\* The ring r is s with something more at its end, or s.
Grown(s, r, c) ==
  /\ Sound(r, c) /\ r.head = s.head
  /\ s.head # s.tail => (r.head # r.tail /\ r.buf[r.head] = s.buf[s.head])

\* An interrupt handler that pushed events, or none.
LEMMA IrqKeepsEvents ==
  ASSUME EventsSound, NEW r, IrqPush(r), Sound(ring, EVT_CAP) => Grown(ring, r, EVT_CAP)
  PROVE  EventsSound'
<1>1. ring' = r /\ torn' = (torn \/ (gen.pc # "idle" /\ r # ring)) /\ drv' = drv /\ gen' = gen
  BY DEF IrqPush
<1>2. CASE torn'
  BY <1>1, <1>2 DEF EventsSound
<1>3. CASE ~torn' /\ r = ring
  BY <1>1, <1>3 DEF EventsSound
<1>4. CASE ~torn' /\ gen.pc = "idle"
  BY <1>1, <1>4 DEF EventsSound, Grown
<1> QED
  BY <1>1, <1>2, <1>3, <1>4 DEF EventsSound

LEMMA EventPush ==
  ASSUME NEW r, Sound(r, EVT_CAP), NEW v \in Cells
  PROVE  Grown(r, push_event(r, v), EVT_CAP)
BY Caps, PushKeeps DEF push_event, Grown

LEMMA KeyboardIrq ==
  ASSUME RingsInv, NEW code \in ScanCodes, irq_handler_keyboard(code), UNCHANGED pipe
  PROVE  RingsInv'
<1>1. CASE /\ code.make \in {"alpha", "other"}
           /\ push_key(IF use_upper(code.make) THEN UPPER[code.make] ELSE LOWER[code.make])
  <2>1. PICK v \in Cells : v = IF use_upper(code.make) THEN UPPER[code.make] ELSE LOWER[code.make]
    BY <1>1 DEF UPPER, LOWER, Cells
  <2>2. PICK after : after = Pushed(kbd, v, BUF_CAP)
    OBVIOUS
  <2>3. PICK r : r = IF after = kbd THEN ring ELSE push_event(ring, "key")
    OBVIOUS
  <2>4. kbd' = after /\ IrqPush(r) /\ reader' = reader
    BY <1>1, <2>1, <2>2, <2>3 DEF push_key, irq_handler_keyboard
  <2>5. KeysSound'
    <3>1. Sound(kbd, BUF_CAP)
      BY DEF RingsInv, KeysSound
    <3>2. /\ Sound(after, BUF_CAP)
          /\ kbd.head # kbd.tail => after.head # after.tail /\ after.buf[after.head] = kbd.buf[kbd.head]
      BY <2>2, <3>1, Caps, PushKeeps
    <3> QED
      BY <2>4, <3>2 DEF RingsInv, KeysSound
  <2>6. EventsSound'
    <3>1. "key" \in Cells
      BY DEF Cells
    <3>2. Sound(ring, EVT_CAP) => Grown(ring, r, EVT_CAP)
      BY <2>3, <3>1, EventPush DEF Grown
    <3> QED
      BY <2>4, <3>2, IrqKeepsEvents DEF RingsInv
  <2> QED
    BY <2>5, <2>6 DEF RingsInv
<1>2. CASE UNCHANGED <<kbd, ringVars>>
  BY <1>2 DEF irq_handler_keyboard, RingsInv, KeysSound, EventsSound, ringVars
<1> QED
  BY <1>1, <1>2 DEF irq_handler_keyboard

LEMMA KeyboardRead ==
  ASSUME RingsInv, (\E entry \in Entries : ReadBegin(entry)) \/ ReadStep, UNCHANGED pipe
  PROVE  RingsInv'
<1>1. UNCHANGED ringVars
  BY DEF ReadBegin, ReadStep, TryPop, TryPopStore, TryPopNone, ReadSerial, ReadHalt, ReadWake
<1>2. EventsSound'
  BY <1>1 DEF RingsInv, EventsSound, ringVars
<1>3. CASE TryPopStore
  <2>1. Sound(kbd, BUF_CAP) /\ kbd.head # kbd.tail
    BY <1>3 DEF RingsInv, KeysSound, TryPopStore
  <2>2. kbd' = [kbd EXCEPT !.head = Succ(kbd.head, BUF_CAP), !.owed = Tail(kbd.owed)]
    <3>1. kbd \in Rings(BUF_CAP)
      BY <2>1 DEF Sound
    <3> QED
      BY <1>3, <3>1 DEF TryPopStore, Rings
  <2>3. Sound(kbd', BUF_CAP)
    BY <2>1, <2>2, Caps, PopKeeps
  <2>4. reader' \in [pc: ReaderSteps, key: Cells] /\ reader'.pc = "user"
    BY <1>3 DEF TryPopStore, ReaderSteps, Cells, BlankCell
  <2> QED
    BY <1>2, <2>3, <2>4 DEF RingsInv, KeysSound
<1>4. CASE TryPop
  <2>1. kbd' = kbd /\ kbd.head # kbd.tail /\ reader' = [pc |-> "store", key |-> kbd.buf[kbd.head]]
    BY <1>4 DEF TryPop, has_key
  <2>2. kbd.buf[kbd.head] \in Cells
    <3>1. kbd \in Rings(BUF_CAP)
      BY DEF RingsInv, KeysSound, Sound
    <3> QED
      BY <3>1, Caps, Fields
  <2>3. reader' \in [pc: ReaderSteps, key: Cells] /\ reader'.key = kbd.buf[kbd.head]
    BY <2>1, <2>2 DEF ReaderSteps
  <2> QED
    BY <1>2, <2>1, <2>3 DEF RingsInv, KeysSound
<1>5. CASE (\E entry \in Entries : ReadBegin(entry)) \/ TryPopNone \/ ReadSerial \/ ReadHalt \/ ReadWake
  <2>1. kbd' = kbd
    BY <1>5 DEF ReadBegin, TryPopNone, ReadSerial, ReadHalt, ReadWake
  <2>2. PICK s \in {"try", "none", "user", "hlt"} : reader' = [reader EXCEPT !.pc = s]
    BY <1>5 DEF ReadBegin, TryPopNone, ReadSerial, ReadHalt, ReadWake
  <2>3. reader' \in [pc: ReaderSteps, key: Cells] /\ reader'.pc # "store"
    BY <2>2 DEF RingsInv, KeysSound, ReaderSteps
  <2> QED
    BY <1>2, <2>1, <2>3 DEF RingsInv, KeysSound
<1> QED
  BY <1>3, <1>4, <1>5 DEF ReadStep

LEMMA SuccInjective ==
  ASSUME NEW c \in Nat \ {0}, NEW h \in Places(c), NEW t \in Places(c), Succ(h, c) = Succ(t, c)
  PROVE  h = t
<1>1. Wrap(h + 1, c) = Wrap(t + 1, c)
  BY SuccWrap
<1> QED
  BY <1>1 DEF Wrap, Places

\* key_gen's push, step by step, and input_drv's pop.
LEMMA EventTasks ==
  ASSUME EventsSound, RingTasks
  PROVE  EventsSound'
<1>1. ~torn
  BY DEF RingTasks
<1>2. PICK c \in Nat \ {0} : c = EVT_CAP
  BY Caps
<1>3. Sound(ring, c) /\ ring \in Rings(c)
  BY <1>1, <1>2 DEF EventsSound, Sound
<1>4. /\ ring.buf \in [Places(c) -> Cells] /\ ring.head \in Places(c) /\ ring.tail \in Places(c)
      /\ ring.owed \in Seq(Cells)
  BY <1>3, Fields
<1>5. gen \in [pc: {"idle", "loaded", "stored"}, tail: Places(c)]
  BY <1>2 DEF EventsSound
<1>6. CASE GenLoad
  <2>1. UNCHANGED <<ring, drv, torn>> /\ gen' = [pc |-> "loaded", tail |-> ring.tail]
    BY <1>6 DEF GenLoad
  <2>2. /\ gen' \in [pc: {"idle", "loaded", "stored"}, tail: Places(c)]
        /\ gen'.tail = ring.tail /\ gen'.pc = "loaded"
    BY <1>4, <2>1
  <2> QED
    BY <1>2, <2>1, <2>2 DEF EventsSound
<1>7. CASE GenFull
  <2>1. UNCHANGED <<ring, drv, torn>> /\ gen' = [gen EXCEPT !.pc = "idle"]
    BY <1>7 DEF GenFull
  <2>2. gen' \in [pc: {"idle", "loaded", "stored"}, tail: Places(c)] /\ gen'.pc = "idle"
    BY <1>5, <2>1
  <2> QED
    BY <1>2, <2>1, <2>2 DEF EventsSound
<1>8. CASE GenStore
  <2>1. /\ gen.tail = ring.tail /\ Succ(ring.tail, c) # ring.head
        /\ ring' = [ring EXCEPT !.buf[ring.tail] = "key"]
        /\ gen' = [gen EXCEPT !.pc = "stored"] /\ UNCHANGED <<drv, torn>>
    BY <1>1, <1>2, <1>8 DEF GenStore, EventsSound
  <2>2. /\ gen' \in [pc: {"idle", "loaded", "stored"}, tail: Places(c)]
        /\ gen'.pc = "stored" /\ gen'.tail = ring.tail
    BY <1>5, <2>1
  <2>3. "key" \in Cells
    BY DEF Cells
  <2>4. PICK r : r = [ring EXCEPT !.buf[ring.tail] = "key"]
    OBVIOUS
  <2>5. /\ Sound(r, c) /\ r.buf[ring.tail] = "key"
        /\ ring.head # ring.tail => r.buf[ring.head] = ring.buf[ring.head]
    BY <1>3, <2>3, <2>4, StoreKeeps
  <2>6. r.head = ring.head /\ r.tail = ring.tail
    BY <1>3, <2>4 DEF Rings
  <2>7. ring' = r
    BY <2>1, <2>4
  <2> QED
    BY <1>1, <1>2, <2>1, <2>2, <2>5, <2>6, <2>7 DEF EventsSound
<1>9. CASE GenCommit
  <2>1. /\ gen.tail = ring.tail /\ Succ(ring.tail, c) # ring.head /\ ring.buf[ring.tail] = "key"
    BY <1>1, <1>2, <1>9 DEF GenCommit, EventsSound
  <2>2. /\ ring' = [ring EXCEPT !.tail = Succ(ring.tail, c), !.owed = Append(ring.owed, ring.buf[ring.tail])]
        /\ gen' = [gen EXCEPT !.pc = "idle"] /\ UNCHANGED <<drv, torn>>
    BY <1>1, <1>2, <1>3, <1>9, <2>1 DEF GenCommit, Rings
  <2>3. gen' \in [pc: {"idle", "loaded", "stored"}, tail: Places(c)] /\ gen'.pc = "idle"
    BY <1>5, <2>2
  <2>4. PICK p : /\ p = [ring EXCEPT !.tail = Succ(ring.tail, c), !.owed = Append(ring.owed, ring.buf[ring.tail])]
                 /\ Sound(p, c) /\ p.head = ring.head /\ p.buf = ring.buf /\ p.head # p.tail
    BY <1>3, <2>1, CommitKeeps, Zenon
  <2>5. ring' = p
    BY <2>2, <2>4, Zenon
  <2> QED
    BY <1>1, <1>2, <2>2, <2>3, <2>4, <2>5 DEF EventsSound
<1>10. CASE set_foreground
  BY <1>10 DEF set_foreground, EventsSound
<1>11. CASE PopRead
  <2>1. /\ UNCHANGED <<ring, gen, torn>> /\ ring.head # ring.tail
        /\ drv' = [pc |-> "read", val |-> ring.buf[ring.head]]
    BY <1>11 DEF PopRead
  <2> QED
    BY <2>1 DEF EventsSound
<1>12. CASE PopCommit
  <2>1. ring.head # ring.tail
    BY <1>1, <1>12 DEF PopCommit, EventsSound
  <2>2. /\ ring.owed # << >>
        /\ Sound([ring EXCEPT !.head = Succ(ring.head, c), !.owed = Tail(ring.owed)], c)
    BY <1>3, <2>1, PopKeeps
  <2>3. /\ ring' = [ring EXCEPT !.head = Succ(ring.head, c), !.owed = Tail(ring.owed)]
        /\ drv' = [pc |-> "idle", val |-> BlankCell] /\ UNCHANGED <<gen, torn>>
    BY <1>1, <1>2, <1>3, <1>12, <2>2 DEF PopCommit, Rings
  <2>4. Sound(ring', c)
    BY <2>2, <2>3, Zenon
  <2>5. ring'.head = Succ(ring.head, c) /\ ring'.tail = ring.tail /\ ring'.buf = ring.buf
    BY <1>3, <2>3 DEF Rings
  <2>6. Succ(ring.tail, c) # Succ(ring.head, c)
    BY <1>4, <2>1, SuccInjective
  <2> QED
    BY <1>1, <1>2, <2>3, <2>4, <2>5, <2>6 DEF EventsSound
<1> QED
  BY <1>6, <1>7, <1>8, <1>9, <1>10, <1>11, <1>12 DEF RingTasks

\* The mouse pushes at most two events.
LEMMA MouseIrq ==
  ASSUME EventsSound, NEW click \in BOOLEAN, NEW move \in BOOLEAN, IrqPush(MouseEvents(click, move))
  PROVE  EventsSound'
<1>1. PICK r : r = IF click THEN push_event(ring, "click") ELSE ring
  OBVIOUS
<1>2. PICK s : s = IF move THEN push_event(r, "move") ELSE r
  OBVIOUS
<1>3. MouseEvents(click, move) = s
  BY <1>1, <1>2 DEF MouseEvents
<1>4. "click" \in Cells /\ "move" \in Cells
  BY DEF Cells
<1>5. ASSUME Sound(ring, EVT_CAP) PROVE Grown(ring, s, EVT_CAP)
  <2>1. Grown(ring, r, EVT_CAP)
    BY <1>1, <1>4, <1>5, EventPush DEF Grown
  <2>2. Grown(r, s, EVT_CAP)
    BY <1>2, <1>4, <2>1, EventPush DEF Grown
  <2> QED
    BY <2>1, <2>2 DEF Grown
<1> QED
  BY <1>3, <1>5, IrqKeepsEvents

LEMMA PipeKeeps ==
  ASSUME Sound(pipe, PIPE_CAP), PipeCalls
  PROVE  Sound(pipe', PIPE_CAP)
<1>0. PIPE_CAP \in Nat \ {0}
  BY Caps
<1>1. CASE sys_pipe
  <2>1. PICK c \in Nat \ {0} : c = PIPE_CAP
    BY <1>0
  <2>2. PICK p : p = [pipe EXCEPT !.head = 0, !.tail = 0, !.owed = << >>]
    OBVIOUS
  <2>3. pipe \in Rings(c) /\ 0 \in Places(c)
    BY <2>1 DEF Sound, Places
  <2>4. p \in Rings(c) /\ p.owed = << >> /\ p.head = 0 /\ p.tail = 0
    BY <2>2, <2>3 DEF Rings
  <2>5. Len(p.owed) = 0 /\ Gap(0, 0, c) = 0
    BY <2>4 DEF Gap
  <2>6. Sound(p, c)
    BY <2>4, <2>5 DEF Sound
  <2> QED
    BY <1>1, <2>1, <2>2, <2>6 DEF sys_pipe
<1>2. CASE \E entry \in Entries : sys_read_pipe_empty(entry)
  BY <1>2 DEF sys_read_pipe_empty, KeepsPipe
<1>3. ASSUME NEW b \in PipeBytes, NEW d \in PipeBytes, sys_write_pipe(<<b>>) \/ sys_write_pipe(<<b, d>>)
      PROVE  Sound(pipe', PIPE_CAP)
  <2>1. b \in Cells /\ d \in Cells
    BY DEF Cells, PipeBytes
  <2>2. <<b>> \in Seq(Cells) /\ <<b, d>> \in Seq(Cells)
    BY <2>1
  <2>3. PICK data \in Seq(Cells) : pipe' = pipe_write(data)
    BY <1>3, <2>2, Zenon DEF sys_write_pipe
  <2> QED
    BY <1>0, <2>3, WriteKeeps, Zenon
<1>4. ASSUME NEW count \in 1 .. 2, sys_read_pipe(count)
      PROVE  Sound(pipe', PIPE_CAP)
  <2>1. Contents(pipe, PIPE_CAP) = pipe.owed
    BY <1>0, RingHolds
  <2>2. pipe \in Rings(PIPE_CAP)
    BY DEF Sound
  <2>3. pipe.owed \in Seq(Cells)
    BY <1>0, <2>2, Fields
  <2>4. PICK n \in Nat : n = (IF count < Len(pipe.owed) THEN count ELSE Len(pipe.owed)) /\ n <= Len(pipe.owed)
    BY <2>3
  <2>5. pipe' = [pipe EXCEPT !.head = (pipe.head + n) % PIPE_CAP,
                             !.owed = SubSeq(pipe.owed, n + 1, Len(pipe.owed))]
    BY <1>4, <2>1, <2>2, <2>4 DEF sys_read_pipe, pipe_read, Rings
  <2> QED
    BY <1>0, <2>4, <2>5, DropKeeps
<1> QED
  BY <1>1, <1>2, <1>3, <1>4 DEF PipeCalls

\* A step of the mouse leaves the keys and the pipe alone.
LEMMA RingsStep == RingsInv /\ [InputNext]_inputVars => RingsInv'
<1> SUFFICES ASSUME RingsInv, [InputNext]_inputVars PROVE RingsInv'
  OBVIOUS
<1>1. CASE (KbdIrq \/ (\E entry \in Entries : ReadBegin(entry)) \/ ReadStep) /\ UNCHANGED <<pipeVars, desktopVars>>
  <2>1. UNCHANGED pipe
    BY <1>1 DEF pipeVars
  <2>2. CASE \E code \in ScanCodes : irq_handler_keyboard(code)
    BY <2>1, <2>2, KeyboardIrq
  <2>3. CASE (\E entry \in Entries : ReadBegin(entry)) \/ ReadStep
    BY <2>1, <2>3, KeyboardRead
  <2> QED
    BY <1>1, <2>2, <2>3 DEF KbdIrq
<1>2. CASE RingTasks /\ UNCHANGED <<kbdVars, pipeVars, desktopVars>>
  <2>1. UNCHANGED <<kbd, reader, pipe>>
    BY <1>2 DEF kbdVars, pipeVars
  <2>2. EventsSound'
    BY <1>2, EventTasks DEF RingsInv
  <2> QED
    BY <2>1, <2>2 DEF RingsInv, KeysSound
<1>3. CASE (PipeCalls \/ EpollCalls \/ WaitingCalls) /\ UNCHANGED desktopVars
  <2>1. UNCHANGED <<kbd, reader, ringVars>>
    BY <1>3 DEF PipeCalls, EpollCalls, WaitingCalls, WaitStep, sys_pipe, sys_read_pipe_empty,
       sys_write_pipe, sys_read_pipe, sys_epoll_create, sys_epoll_ctl_del, sys_epoll_ctl_set,
       WaitBegin, WaitEnd, WaitHalt, WaitWake, KeepsInput, kbdVars
  <2>2. KeysSound' /\ EventsSound'
    BY <2>1 DEF RingsInv, KeysSound, EventsSound, ringVars
  <2>3. CASE PipeCalls
    BY <2>2, <2>3, PipeKeeps DEF RingsInv
  <2>4. CASE EpollCalls \/ WaitingCalls
    <3>1. pipe' = pipe
      BY <2>4 DEF EpollCalls, WaitingCalls, WaitStep, sys_epoll_create, sys_epoll_ctl_del,
         sys_epoll_ctl_set, WaitBegin, WaitEnd, WaitHalt, WaitWake, KeepsPipe
    <3> QED
      BY <2>2, <3>1 DEF RingsInv
  <2> QED
    BY <1>3, <2>3, <2>4
<1>4. CASE DesktopNext /\ UNCHANGED <<kbdVars, pipeVars>>
  <2>1. UNCHANGED <<kbd, reader, pipe>>
    BY <1>4 DEF kbdVars, pipeVars
  <2>2. CASE UNCHANGED ringVars
    BY <2>1, <2>2 DEF RingsInv, KeysSound, EventsSound, ringVars
  <2>3. CASE \E b \in Bytes : CompletePacket(b)
    <3>1. PICK b1, b2, b3 : process_packet(b1, b2, b3)
      BY <2>3 DEF CompletePacket
    <3>2. PICK click \in BOOLEAN, move \in BOOLEAN : IrqPush(MouseEvents(click, move))
      BY <3>1, Zenon DEF process_packet
    <3>3. EventsSound'
      BY <3>2, MouseIrq DEF RingsInv
    <3> QED
      BY <2>1, <3>3 DEF RingsInv, KeysSound
  <2> QED
    BY <1>4, <2>2, <2>3 DEF DesktopNext, CollectByte, DropPacket
<1>5. CASE UNCHANGED inputVars
  BY <1>5 DEF inputVars, ringVars, kbdVars, pipeVars, RingsInv, KeysSound, EventsSound
<1> QED
  BY <1>1, <1>2, <1>3, <1>4, <1>5 DEF InputNext

LEMMA RingsGood == RingsInv => InputInOrder
<1> SUFFICES ASSUME RingsInv PROVE InputInOrder
  OBVIOUS
<1>1. KeysInOrder
  BY Caps, RingHolds, PopKeeps DEF RingsInv, KeysSound, KeysInOrder
<1>2. EventsInOrder
  BY Caps, RingHolds, PopKeeps DEF RingsInv, EventsSound, EventsInOrder
<1>3. PipeInOrder
  BY Caps, RingHolds DEF RingsInv, PipeInOrder
<1> QED
  BY <1>1, <1>2, <1>3 DEF InputInOrder

\* Keys, input events and pipe bytes come out of their rings in the order they
\* went in, each once, for every size of the rings, wherever interrupts fall
\* among the loads and stores of a pop, and, for the events, as long as none
\* has fallen inside a push of key_gen.
THEOREM InputComesInOrder == InputSpec => []InputInOrder
<1>1. InputInit => RingsInv
  BY RingsInit
<1>2. RingsInv /\ [InputNext]_inputVars => RingsInv'
  BY RingsStep
<1>3. RingsInv => InputInOrder
  BY RingsGood
<1> QED
  BY <1>1, <1>2, <1>3, PTL DEF InputSpec

---------------------------------------------------------------------------
(* The desktop.                                                             *)

Xs == 0 .. ScreenW - WinW
Ys == 0 .. ScreenH - TaskbarH - WinH
Drags == [win: Windows, ox: Int, oy: Int] \cup {NoDrag}
Layouts == [vis: [Windows -> BOOLEAN], x: [Windows -> Xs], y: [Windows -> Ys], drag: Drags]

\* The window that is dragged is where the pointer at (px, py) holds it.
HeldByPointer(s, px, py) ==
  s.drag # NoDrag => /\ s.vis[s.drag.win]
                     /\ s.x[s.drag.win] = Clamp(px - s.drag.ox, ScreenW - WinW)
                     /\ s.y[s.drag.win] = Clamp(py - s.drag.oy, ScreenH - TaskbarH - WinH)

\* The windows and the pointer are on the screen; a window is dragged only
\* with the button down and is where the pointer took hold of it.
DesktopInv ==
  /\ pkt \in Seq(Bytes) /\ prev_btn \in BOOLEAN
  /\ mouse_x \in 0 .. ScreenW - 1 /\ mouse_y \in 0 .. ScreenH - 1
  /\ Standing \in Layouts /\ HeldByPointer(Standing, mouse_x, mouse_y) /\ (drag # NoDrag => prev_btn)

LEMMA ClampFacts ==
  ASSUME NEW top \in Nat, NEW v \in Int
  PROVE  Clamp(v, top) \in 0 .. top /\ (v \in 0 .. top => Clamp(v, top) = v)
BY DEF Clamp, Low

LEMMA ScreenFacts ==
  /\ ScreenW - WinW \in Nat /\ ScreenH - TaskbarH - WinH \in Nat
  /\ ScreenW - 1 \in Nat /\ ScreenH - 1 \in Nat
  /\ InitX \in [Windows -> Xs] /\ InitY \in [Windows -> Ys]
BY DesktopAssumption DEF Xs, Ys

LEMMA LayoutFields ==
  ASSUME NEW s \in Layouts
  PROVE  /\ s.vis \in [Windows -> BOOLEAN] /\ s.x \in [Windows -> Xs] /\ s.y \in [Windows -> Ys]
         /\ s.drag \in Drags
         /\ s.drag # NoDrag => s.drag.win \in Windows /\ s.drag.ox \in Int /\ s.drag.oy \in Int
<1>1. s.vis \in [Windows -> BOOLEAN] /\ s.x \in [Windows -> Xs] /\ s.y \in [Windows -> Ys] /\ s.drag \in Drags
  BY DEF Layouts
<1>2. s.drag # NoDrag => s.drag.win \in Windows /\ s.drag.ox \in Int /\ s.drag.oy \in Int
  BY <1>1 DEF Drags
<1> QED
  BY <1>1, <1>2

\* A drag takes its window along.
LEMMA DragHolds ==
  ASSUME NEW s \in Layouts, NEW px \in Int, NEW py \in Int, s.drag # NoDrag => s.vis[s.drag.win]
  PROVE  on_drag(s, px, py) \in Layouts /\ HeldByPointer(on_drag(s, px, py), px, py)
         /\ on_drag(s, px, py).drag = s.drag
<1>1. CASE s.drag = NoDrag
  BY <1>1 DEF on_drag, HeldByPointer
<1>2. CASE s.drag # NoDrag
  <2>1. PICK w \in Windows, ox \in Int, oy \in Int : w = s.drag.win /\ ox = s.drag.ox /\ oy = s.drag.oy
    BY <1>2, LayoutFields
  <2>2. PICK nx \in Xs, ny \in Ys : /\ nx = Clamp(px - ox, ScreenW - WinW)
                                    /\ ny = Clamp(py - oy, ScreenH - TaskbarH - WinH)
    <3>1. px - ox \in Int /\ py - oy \in Int
      OBVIOUS
    <3> QED
      BY <3>1, ScreenFacts, ClampFacts DEF Xs, Ys
  <2>3. PICK fx, fy : fx = [s.x EXCEPT ![w] = nx] /\ fy = [s.y EXCEPT ![w] = ny]
    OBVIOUS
  <2>4. fx \in [Windows -> Xs] /\ fy \in [Windows -> Ys] /\ fx[w] = nx /\ fy[w] = ny
    BY <2>3, LayoutFields
  <2>5. PICK a : a = [s EXCEPT !.x = fx, !.y = fy]
    OBVIOUS
  <2>6. a \in Layouts /\ a.x = fx /\ a.y = fy /\ a.vis = s.vis /\ a.drag = s.drag
    BY <2>4, <2>5 DEF Layouts
  <2>7. on_drag(s, px, py) = a
    BY <1>2, <2>1, <2>2, <2>3, <2>5 DEF on_drag
  <2> QED
    BY <1>2, <2>1, <2>2, <2>4, <2>6, <2>7 DEF HeldByPointer
<1> QED
  BY <1>1, <1>2

LEMMA StandingFields ==
  /\ Standing.vis = win_vis /\ Standing.x = win_x /\ Standing.y = win_y /\ Standing.drag = drag
BY DEF Standing

\* A click takes hold of a window, or of none.
LEMMA ClickHolds ==
  ASSUME Standing \in Layouts, drag = NoDrag, NEW px \in Int, NEW py \in Int
  PROVE  on_click(px, py) \in Layouts /\ HeldByPointer(on_click(px, py), px, py)
<1>1. win_vis \in [Windows -> BOOLEAN] /\ win_x \in [Windows -> Xs] /\ win_y \in [Windows -> Ys] /\ NoDrag \in Drags
  BY StandingFields, LayoutFields DEF Drags
<1>2. ClickTaskbar(px) \in Layouts /\ ClickTaskbar(px).drag = NoDrag
  <2>1. CASE px \in StartBtn
    <3>1. PICK v \in [Windows -> BOOLEAN] : v = [i \in Windows |-> TRUE]
      OBVIOUS
    <3>2. ClickTaskbar(px) = [vis |-> v, x |-> InitX, y |-> InitY, drag |-> NoDrag]
      BY <2>1, <3>1 DEF ClickTaskbar
    <3> QED
      BY <1>1, <3>1, <3>2, ScreenFacts DEF Layouts
  <2>2. CASE px \notin StartBtn
    <3>1. PICK v \in [Windows -> BOOLEAN] : v = [i \in Windows |-> win_vis[i] # (px \in TaskBtn[i])]
      OBVIOUS
    <3>2. ClickTaskbar(px) = [vis |-> v, x |-> win_x, y |-> win_y, drag |-> NoDrag]
      BY <2>2, <3>1 DEF ClickTaskbar
    <3> QED
      BY <1>1, <3>1, <3>2 DEF Layouts
  <2> QED
    BY <2>1, <2>2
<1>3. ClickWindows(px, py) \in Layouts /\ HeldByPointer(ClickWindows(px, py), px, py)
  <2>1. PICK close : close = {i \in Hit(px, py) : OnClose(i, px, py)}
    OBVIOUS
  <2>2. PICK title : title = {i \in Hit(px, py) \ close : OnTitle(i, px, py)}
    OBVIOUS
  <2>3. PICK v \in [Windows -> BOOLEAN] : v = [i \in Windows |-> win_vis[i] /\ i \notin close]
    OBVIOUS
  <2>4. PICK d : d = IF title = {} THEN drag
                     ELSE LET i == CHOOSE j \in title : TRUE
                          IN  [win |-> i, ox |-> px - win_x[i], oy |-> py - win_y[i]]
    OBVIOUS
  <2>5. ClickWindows(px, py) = [vis |-> v, x |-> win_x, y |-> win_y, drag |-> d]
    BY <2>1, <2>2, <2>3, <2>4, Zenon DEF ClickWindows
  <2>6. CASE title = {}
    <3>1. d = NoDrag
      BY <2>4, <2>6
    <3> QED
      BY <1>1, <2>3, <2>5, <3>1 DEF Layouts, HeldByPointer
  <2>7. CASE title # {}
    <3>1. PICK i : i = CHOOSE j \in title : TRUE
      OBVIOUS
    <3>2. i \in title
      BY <2>7, <3>1
    <3>3. i \in Windows /\ win_vis[i] /\ i \notin close
      BY <2>2, <3>2 DEF Hit, OnWindow
    <3>4. PICK ox \in Int, oy \in Int : ox = px - win_x[i] /\ oy = py - win_y[i]
      BY <1>1, <3>3 DEF Xs, Ys
    <3>5. d = [win |-> i, ox |-> ox, oy |-> oy]
      BY <2>4, <2>7, <3>1, <3>4
    <3>6. d \in Drags /\ d.win = i /\ d.ox = ox /\ d.oy = oy
      BY <3>3, <3>5 DEF Drags
    <3>7. v[i]
      BY <2>3, <3>3
    <3>8. /\ win_x[i] \in 0 .. ScreenW - WinW /\ win_y[i] \in 0 .. ScreenH - TaskbarH - WinH
      BY <1>1, <3>3 DEF Xs, Ys
    <3>9. px - ox = win_x[i] /\ py - oy = win_y[i] /\ win_x[i] \in Int /\ win_y[i] \in Int
      BY <3>4, <3>8, ScreenFacts
    <3>10. win_x[i] = Clamp(px - ox, ScreenW - WinW) /\ win_y[i] = Clamp(py - oy, ScreenH - TaskbarH - WinH)
      BY <3>8, <3>9, ScreenFacts, ClampFacts
    <3>11. PICK s : s = [vis |-> v, x |-> win_x, y |-> win_y, drag |-> d]
      OBVIOUS
    <3>12. s \in Layouts /\ s.vis = v /\ s.x = win_x /\ s.y = win_y /\ s.drag = d
      BY <1>1, <2>3, <3>6, <3>11 DEF Layouts
    <3> QED
      BY <2>5, <3>6, <3>7, <3>10, <3>11, <3>12 DEF HeldByPointer
  <2> QED
    BY <2>6, <2>7
<1> QED
  BY <1>2, <1>3 DEF on_click, HeldByPointer

LEMMA PacketKeeps ==
  ASSUME DesktopInv, NEW b0 \in Bytes, NEW b1 \in Bytes, NEW b2 \in Bytes, process_packet(b0, b1, b2),
         pkt' = << >>
  PROVE  DesktopInv'
<1>1. PICK dx \in Int, dy \in Int : dx = Signed(Bit(b0, 4), b1) /\ dy = Signed(Bit(b0, 5), b2)
  BY DesktopAssumption DEF Signed
<1>2. mouse_x \in 0 .. ScreenW - 1 /\ mouse_y \in 0 .. ScreenH - 1
  BY DEF DesktopInv
<1>3. mouse_x + dx \in Int /\ mouse_y - dy \in Int /\ mouse_x \in Int /\ mouse_y \in Int
  BY <1>2, ScreenFacts
<1>4. PICK px \in 0 .. ScreenW - 1, py \in 0 .. ScreenH - 1 :
         px = Clamp(mouse_x + dx, ScreenW - 1) /\ py = Clamp(mouse_y - dy, ScreenH - 1)
  BY <1>3, ScreenFacts, ClampFacts
<1>5. px \in Int /\ py \in Int
  BY <1>4, ScreenFacts
<1>6. PICK btn \in BOOLEAN : btn <=> Bit(b0, 0)
  BY DEF Bit
<1>7. PICK moved \in BOOLEAN : moved <=> (dx # 0 \/ dy # 0)
  OBVIOUS
<1>8. PICK clicked : clicked = IF btn /\ ~prev_btn THEN on_click(px, py) ELSE Standing
  OBVIOUS
<1>9. PICK after : after = IF btn /\ moved THEN on_drag(clicked, px, py) ELSE clicked
  OBVIOUS
<1>10. /\ mouse_x' = px /\ mouse_y' = py /\ (prev_btn' <=> btn) /\ prev_btn' \in BOOLEAN
       /\ win_vis' = after.vis /\ win_x' = after.x /\ win_y' = after.y
       /\ drag' = IF prev_btn /\ ~btn THEN NoDrag ELSE after.drag
  BY <1>1, <1>4, <1>6, <1>7, <1>8, <1>9 DEF process_packet, Bit
<1>11. Standing \in Layouts /\ HeldByPointer(Standing, mouse_x, mouse_y) /\ (drag # NoDrag => prev_btn)
  BY DEF DesktopInv
<1>12. ASSUME btn PROVE after \in Layouts /\ HeldByPointer(after, px, py)
  <2>1. CASE ~prev_btn
    <3>1. clicked \in Layouts /\ HeldByPointer(clicked, px, py)
      BY <1>5, <1>8, <1>11, <1>12, <2>1, ClickHolds
    <3> QED
      BY <1>5, <1>9, <3>1, DragHolds DEF HeldByPointer
  <2>2. CASE prev_btn /\ moved
    <3>1. clicked = Standing /\ after = on_drag(Standing, px, py)
      BY <1>8, <1>9, <1>12, <2>2
    <3> QED
      BY <1>5, <1>11, <3>1, DragHolds DEF HeldByPointer
  <2>3. CASE prev_btn /\ ~moved
    <3>1. after = Standing
      BY <1>8, <1>9, <2>3
    <3>2. dx = 0 /\ dy = 0
      BY <1>7, <2>3
    <3>3. mouse_x + dx = mouse_x /\ mouse_y - dy = mouse_y
      BY <1>3, <3>2
    <3>4. px = mouse_x /\ py = mouse_y
      <4>1. Clamp(mouse_x, ScreenW - 1) = mouse_x
        BY <1>2, <1>3, ScreenFacts, ClampFacts
      <4>2. Clamp(mouse_y, ScreenH - 1) = mouse_y
        BY <1>2, <1>3, ScreenFacts, ClampFacts
      <4> QED
        BY <1>4, <3>3, <4>1, <4>2
    <3> QED
      BY <1>11, <3>1, <3>4
  <2> QED
    BY <2>1, <2>2, <2>3 DEF DesktopInv
<1>13. ASSUME ~btn PROVE after = Standing /\ drag' = NoDrag
  <2>1. after = Standing
    BY <1>8, <1>9, <1>13
  <2> QED
    BY <1>10, <1>11, <1>13, <2>1, StandingFields DEF DesktopInv
<1>14. PICK l : l = [vis |-> win_vis', x |-> win_x', y |-> win_y', drag |-> drag']
  OBVIOUS
<1>15. l.vis = win_vis' /\ l.x = win_x' /\ l.y = win_y' /\ l.drag = drag'
  BY <1>14
<1>16. l \in Layouts /\ HeldByPointer(l, px, py) /\ (drag' # NoDrag => btn)
  <2>1. CASE btn
    <3>1. drag' = after.drag
      BY <1>10, <2>1
    <3>2. after \in Layouts /\ HeldByPointer(after, px, py)
      BY <1>12, <2>1
    <3>3. l \in Layouts
      <4>1. /\ after.vis \in [Windows -> BOOLEAN] /\ after.x \in [Windows -> Xs]
            /\ after.y \in [Windows -> Ys] /\ after.drag \in Drags
        BY <3>2, LayoutFields
      <4> QED
        BY <1>10, <1>14, <3>1, <4>1 DEF Layouts
    <3> QED
      BY <1>10, <1>15, <2>1, <3>1, <3>2, <3>3 DEF HeldByPointer
  <2>2. CASE ~btn
    <3>1. after = Standing /\ drag' = NoDrag
      BY <1>13, <2>2
    <3>2. /\ after.vis \in [Windows -> BOOLEAN] /\ after.x \in [Windows -> Xs]
          /\ after.y \in [Windows -> Ys] /\ NoDrag \in Drags
      BY <1>11, <3>1, LayoutFields DEF Drags
    <3>3. l \in Layouts
      BY <1>10, <1>14, <3>1, <3>2 DEF Layouts
    <3> QED
      BY <1>15, <3>1, <3>3 DEF HeldByPointer
  <2> QED
    BY <2>1, <2>2
<1>17. Standing' = l
  BY <1>14 DEF Standing
<1>18. HeldByPointer(Standing, mouse_x, mouse_y)' = HeldByPointer(l, px, py)
  BY <1>10, <1>17 DEF HeldByPointer
<1>19. << >> \in Seq(Bytes)
  OBVIOUS
<1> QED
  BY <1>4, <1>10, <1>16, <1>17, <1>18, <1>19 DEF DesktopInv

LEMMA DesktopStarts == InputInit => DesktopInv
<1> SUFFICES ASSUME InputInit PROVE DesktopInv
  OBVIOUS
<1>1. /\ pkt = << >> /\ prev_btn = FALSE
      /\ mouse_x = ScreenW \div 2 /\ mouse_y = ScreenH \div 2
      /\ win_x = InitX /\ win_y = InitY /\ win_vis = [i \in Windows |-> TRUE] /\ drag = NoDrag
  BY DEF InputInit, DesktopInit
<1>2. mouse_x \in 0 .. ScreenW - 1 /\ mouse_y \in 0 .. ScreenH - 1
  <2>1. \A n \in Nat \ {0} : n \div 2 \in 0 .. n - 1
    OBVIOUS
  <2> QED
    BY <1>1, <2>1, DesktopAssumption
<1>3. Standing \in Layouts
  <2>1. win_vis \in [Windows -> BOOLEAN] /\ NoDrag \in Drags
    BY <1>1 DEF Drags
  <2> QED
    BY <1>1, <2>1, ScreenFacts DEF Standing, Layouts
<1>4. HeldByPointer(Standing, mouse_x, mouse_y)
  BY <1>1, StandingFields DEF HeldByPointer
<1>5. << >> \in Seq(Bytes)
  OBVIOUS
<1> QED
  BY <1>1, <1>2, <1>3, <1>4, <1>5 DEF DesktopInv

LEMMA DesktopStep == DesktopInv /\ [InputNext]_inputVars => DesktopInv'
<1> SUFFICES ASSUME DesktopInv, [InputNext]_inputVars PROVE DesktopInv'
  OBVIOUS
<1>1. CASE UNCHANGED desktopVars
  BY <1>1 DEF DesktopInv, desktopVars, mouseVars, winVars, Standing, HeldByPointer
<1>2. ASSUME NEW b \in Bytes, CompletePacket(b) PROVE DesktopInv'
  <2>1. pkt[1] \in Bytes /\ pkt[2] \in Bytes
    <3>1. pkt \in Seq(Bytes) /\ Len(pkt) = 2
      BY <1>2 DEF DesktopInv, CompletePacket
    <3>2. 1 \in 1 .. Len(pkt) /\ 2 \in 1 .. Len(pkt)
      BY <3>1
    <3>3. \A s \in Seq(Bytes) : \A i \in 1 .. Len(s) : s[i] \in Bytes
      OBVIOUS
    <3> QED
      BY <3>1, <3>2, <3>3
  <2> QED
    BY <1>2, <2>1, PacketKeeps DEF CompletePacket
<1>3. ASSUME pkt' \in Seq(Bytes), UNCHANGED <<mouse_x, mouse_y, prev_btn, winVars>> PROVE DesktopInv'
  BY <1>3 DEF DesktopInv, winVars, Standing, HeldByPointer
<1>4. ASSUME NEW b \in Bytes, CollectByte(b) PROVE DesktopInv'
  <2>1. Append(pkt, b) \in Seq(Bytes)
    BY DEF DesktopInv
  <2> QED
    BY <1>3, <1>4, <2>1 DEF CollectByte
<1>5. CASE DropPacket
  <2>1. << >> \in Seq(Bytes)
    OBVIOUS
  <2> QED
    BY <1>3, <1>5, <2>1 DEF DropPacket
<1> QED
  BY <1>1, <1>2, <1>4, <1>5 DEF InputNext, DesktopNext, inputVars

\* On every screen, with any number of windows and whatever bytes the mouse
\* sends, in packets or out of step with them, a window is dragged only while
\* the last packet processed had the left button down (PREV_BTN, which is not
\* always the button of the mouse) and stays where the pointer took hold of it,
\* as far as the edges of the screen let it.
THEOREM WindowsFollowThePointer == InputSpec => []DragFollowsPointer
<1>1. InputInit => DesktopInv
  BY DesktopStarts
<1>2. DesktopInv /\ [InputNext]_inputVars => DesktopInv'
  BY DesktopStep
<1>3. DesktopInv => DragFollowsPointer
  BY StandingFields DEF DesktopInv, HeldByPointer, DragFollowsPointer
<1> QED
  BY <1>1, <1>2, <1>3, PTL DEF InputSpec

---------------------------------------------------------------------------
(* The list of epoll.                                                       *)

SlotNumbers == 1 .. EPOLL_MAX
DataRead == (Words \cup WatchedFds) \X (Words \cup {0})
Watching == [fd: WatchedFds, ev: EvSets, data: DataRead]
SlotType == [fd: WatchedFds \cup {NoFd}, ev: EvSets \cup {{}}, data: DataRead \cup {<<0, 0>>}]

\* The first n of the slots are in use, for different watched descriptors.
Listed(n, sl) ==
  /\ n \in 0 .. EPOLL_MAX /\ sl \in [SlotNumbers -> SlotType]
  /\ \A i \in 1 .. n : sl[i] \in Watching
  /\ \A i, j \in 1 .. n : sl[i].fd = sl[j].fd => i = j

EpollInv == ep = [cnt |-> ep.cnt, slots |-> ep.slots] /\ Listed(ep.cnt, ep.slots)

\* The map such slots stand for.
Body(s) == [ev |-> s.ev, data |-> s.data]
Fds(n, sl) == {sl[i].fd : i \in 1 .. n}
MapOf(n, sl) == [f \in Fds(n, sl) |-> Body(sl[CHOOSE i \in 1 .. n : sl[i].fd = f])]

LEMMA WatchedIsMap == WatchedMap = MapOf(ep.cnt, ep.slots)
BY Zenon DEF WatchedMap, MapOf, Fds, Body

LEMMA MapAt ==
  ASSUME NEW n, NEW sl, Listed(n, sl), NEW i \in 1 .. n
  PROVE  sl[i].fd \in Fds(n, sl) /\ MapOf(n, sl)[sl[i].fd] = Body(sl[i])
<1>1. sl[i].fd \in Fds(n, sl)
  BY DEF Fds
<1>2. (CHOOSE k \in 1 .. n : sl[k].fd = sl[i].fd) = i
  BY DEF Listed
<1> QED
  BY <1>1, <1>2, Zenon DEF MapOf

\* A function that says the same of every slot is that map.
Says(g, n, sl) ==
  g = [f \in Fds(n, sl) |-> g[f]] /\ \A i \in 1 .. n : g[sl[i].fd] = Body(sl[i])

LEMMA MapIs ==
  ASSUME NEW n, NEW sl, Listed(n, sl), NEW g, Says(g, n, sl)
  PROVE  MapOf(n, sl) = g
<1>1. ASSUME NEW f \in Fds(n, sl) PROVE MapOf(n, sl)[f] = g[f]
  <2>1. PICK i \in 1 .. n : f = sl[i].fd
    BY DEF Fds
  <2>2. MapOf(n, sl)[sl[i].fd] = Body(sl[i])
    BY MapAt, Zenon
  <2> QED
    BY <2>1, <2>2 DEF Says
<1>2. MapOf(n, sl) = [f \in Fds(n, sl) |-> MapOf(n, sl)[f]]
  BY DEF MapOf
<1> QED
  BY <1>1, <1>2, Zenon DEF Says

LEMMA MapDomain ==
  ASSUME NEW n, NEW sl
  PROVE  DOMAIN MapOf(n, sl) = Fds(n, sl)
BY DEF MapOf

\* There are as many descriptors as slots in use.
LEMMA MapCounts ==
  ASSUME NEW n, NEW sl, Listed(n, sl)
  PROVE  Cardinality(Fds(n, sl)) = n
<1>1. n \in Nat
  BY PipesAssumption DEF Listed
<1>2. PICK m : m = [i \in 1 .. n |-> sl[i].fd]
  OBVIOUS
<1>3. m \in [1 .. n -> Fds(n, sl)] /\ \A i \in 1 .. n : m[i] = sl[i].fd
  BY <1>2 DEF Fds
<1>4. \A i, j \in 1 .. n : m[i] = m[j] => i = j
  BY <1>3 DEF Listed
<1>5. \A f \in Fds(n, sl) : \E i \in 1 .. n : m[i] = f
  BY <1>3 DEF Fds
<1>6. m \in Bijection(1 .. n, Fds(n, sl))
  BY <1>3, <1>4, <1>5 DEF Bijection, Injection, Surjection, IsInjective
<1>7. ExistsBijection(1 .. n, Fds(n, sl))
  BY <1>6 DEF ExistsBijection
<1> QED
  BY <1>1, <1>7, FS_CountingElements

\* The map with the entry x put in, and without the entry of a descriptor.
With(n, sl, x) ==
  [f \in Fds(n, sl) \cup {x.fd} |-> IF f = x.fd THEN Body(x) ELSE MapOf(n, sl)[f]]
Without(n, sl, fd) == [f \in Fds(n, sl) \ {fd} |-> MapOf(n, sl)[f]]

\* A change to the entry of slot i.
LEMMA ChangeSlot ==
  ASSUME NEW n, NEW sl, Listed(n, sl), NEW i \in 1 .. n, NEW x \in Watching, x.fd = sl[i].fd,
         NEW sl2, sl2 = [sl EXCEPT ![i] = x]
  PROVE  Listed(n, sl2) /\ MapOf(n, sl2) = With(n, sl, x)
<1>0. PICK w : w = MapOf(n, sl)
  OBVIOUS
<1>1. x \in SlotType /\ i \in SlotNumbers /\ 1 .. n \subseteq SlotNumbers
  BY PipesAssumption DEF Watching, SlotType, Listed, SlotNumbers
<1>2. sl2 \in [SlotNumbers -> SlotType] /\ \A k \in 1 .. n : sl2[k] = IF k = i THEN x ELSE sl[k]
  BY <1>1 DEF Listed
<1>3. \A k \in 1 .. n : sl2[k].fd = sl[k].fd
  BY <1>2
<1>4. Listed(n, sl2)
  BY <1>2, <1>3 DEF Listed
<1>5. Fds(n, sl2) = Fds(n, sl) /\ x.fd \in Fds(n, sl)
  BY <1>3 DEF Fds
<1>6. PICK g : g = [f \in Fds(n, sl) \cup {x.fd} |-> IF f = x.fd THEN Body(x) ELSE w[f]]
  OBVIOUS
<1>7. /\ g = [f \in Fds(n, sl2) |-> g[f]]
      /\ \A f \in Fds(n, sl) : g[f] = IF f = x.fd THEN Body(x) ELSE w[f]
  BY <1>5, <1>6
<1>8. ASSUME NEW k \in 1 .. n PROVE g[sl2[k].fd] = Body(sl2[k])
  <2>1. sl[k].fd \in Fds(n, sl) /\ w[sl[k].fd] = Body(sl[k])
    BY <1>0, MapAt, Zenon
  <2>2. CASE k = i
    <3>1. g[x.fd] = Body(x) /\ sl2[k] = x
      BY <1>2, <1>5, <1>7, <2>2
    <3> QED
      BY <3>1
  <2>3. CASE k # i
    <3>1. sl[k].fd # x.fd
      BY <2>3 DEF Listed
    <3> QED
      BY <1>2, <1>7, <2>1, <2>3, <3>1
  <2> QED
    BY <2>2, <2>3
<1>9. MapOf(n, sl2) = g
  <2>1. Says(g, n, sl2)
    BY <1>7, <1>8, Zenon DEF Says
  <2> QED
    BY <1>4, <2>1, MapIs, Zenon
<1> QED
  BY <1>0, <1>4, <1>6, <1>9 DEF With

\* A new entry after the others.
LEMMA AddSlot ==
  ASSUME NEW n, NEW sl, Listed(n, sl), n < EPOLL_MAX, NEW x \in Watching, x.fd \notin Fds(n, sl),
         NEW sl2, sl2 = [sl EXCEPT ![n + 1] = x]
  PROVE  Listed(n + 1, sl2) /\ MapOf(n + 1, sl2) = With(n, sl, x)
<1>0. PICK w : w = MapOf(n, sl)
  OBVIOUS
<1>1. /\ x \in SlotType /\ n \in Nat /\ n + 1 \in SlotNumbers /\ 1 .. n + 1 \subseteq SlotNumbers
      /\ 1 .. n + 1 = (1 .. n) \cup {n + 1} /\ n + 1 \in 0 .. EPOLL_MAX /\ n + 1 \notin 1 .. n
  BY PipesAssumption DEF Watching, SlotType, Listed, SlotNumbers
<1>2. PICK m : m = n + 1
  OBVIOUS
<1>3. sl2 \in [SlotNumbers -> SlotType] /\ sl2[m] = x /\ \A k \in 1 .. n : sl2[k] = sl[k]
  BY <1>1, <1>2 DEF Listed
<1>4. \A k \in 1 .. n : sl[k].fd \in Fds(n, sl)
  BY DEF Fds
<1>5. Listed(m, sl2)
  <2>1. \A k \in 1 .. m : sl2[k] \in Watching
    BY <1>1, <1>2, <1>3 DEF Listed
  <2>2. ASSUME NEW k \in 1 .. m, NEW j \in 1 .. m, sl2[k].fd = sl2[j].fd PROVE k = j
    <3>1. CASE k = m /\ j = m
      BY <3>1
    <3>2. CASE k = m /\ j # m
      BY <1>1, <1>2, <1>3, <1>4, <2>2, <3>2
    <3>3. CASE k # m /\ j = m
      BY <1>1, <1>2, <1>3, <1>4, <2>2, <3>3
    <3>4. CASE k # m /\ j # m
      BY <1>1, <1>2, <1>3, <2>2, <3>4 DEF Listed
    <3> QED
      BY <3>1, <3>2, <3>3, <3>4
  <2> QED
    BY <1>1, <1>2, <1>3, <2>1, <2>2 DEF Listed
<1>6. Fds(m, sl2) = Fds(n, sl) \cup {x.fd}
  <2>1. ASSUME NEW f \in Fds(m, sl2) PROVE f \in Fds(n, sl) \cup {x.fd}
    <3>1. PICK k \in 1 .. m : f = sl2[k].fd
      BY DEF Fds
    <3> QED
      BY <1>1, <1>2, <1>3, <1>4, <3>1
  <2>2. ASSUME NEW f \in Fds(n, sl) \cup {x.fd} PROVE f \in Fds(m, sl2)
    <3>1. CASE f = x.fd
      BY <1>1, <1>2, <1>3, <3>1 DEF Fds
    <3>2. CASE f \in Fds(n, sl)
      <4>1. PICK k \in 1 .. n : f = sl[k].fd
        BY <3>2 DEF Fds
      <4>2. k \in 1 .. m /\ f = sl2[k].fd
        BY <1>1, <1>2, <1>3, <4>1
      <4> QED
        BY <4>2 DEF Fds
    <3> QED
      BY <3>1, <3>2
  <2> QED
    BY <2>1, <2>2
<1>7. PICK g : g = [f \in Fds(n, sl) \cup {x.fd} |-> IF f = x.fd THEN Body(x) ELSE w[f]]
  OBVIOUS
<1>8. /\ g = [f \in Fds(m, sl2) |-> g[f]]
      /\ g[x.fd] = Body(x) /\ \A f \in Fds(n, sl) : g[f] = w[f]
  BY <1>6, <1>7
<1>9. ASSUME NEW k \in 1 .. m PROVE g[sl2[k].fd] = Body(sl2[k])
  <2>1. CASE k = m
    BY <1>3, <1>8, <2>1
  <2>2. CASE k \in 1 .. n
    <3>1. sl[k].fd \in Fds(n, sl) /\ w[sl[k].fd] = Body(sl[k])
      BY <1>0, <2>2, MapAt, Zenon
    <3> QED
      BY <1>3, <1>8, <2>2, <3>1
  <2> QED
    BY <1>1, <1>2, <2>1, <2>2
<1>10. MapOf(m, sl2) = g
  <2>1. Says(g, m, sl2)
    BY <1>8, <1>9, Zenon DEF Says
  <2> QED
    BY <1>5, <2>1, MapIs, Zenon
<1> QED
  BY <1>0, <1>2, <1>5, <1>7, <1>10 DEF With

\* The last entry takes the place of the one that goes.
LEMMA DropSlot ==
  ASSUME NEW n, NEW sl, Listed(n, sl), NEW i \in 1 .. n,
         NEW sl2, sl2 = [sl EXCEPT ![i] = sl[n], ![n].fd = NoFd]
  PROVE  Listed(n - 1, sl2) /\ MapOf(n - 1, sl2) = Without(n, sl, sl[i].fd)
<1>0. PICK w : w = MapOf(n, sl)
  OBVIOUS
<1>1. /\ n \in Nat /\ n \in 1 .. n /\ n \in SlotNumbers /\ i \in SlotNumbers /\ 1 .. n \subseteq SlotNumbers
      /\ n - 1 \in 0 .. EPOLL_MAX /\ 1 .. n = (1 .. n - 1) \cup {n} /\ n \notin 1 .. n - 1
  BY PipesAssumption DEF Listed, SlotNumbers
<1>2. PICK m : m = n - 1
  OBVIOUS
<1>3. /\ sl2 \in [SlotNumbers -> SlotType]
      /\ \A k \in 1 .. m : sl2[k] = IF k = i THEN sl[n] ELSE sl[k]
  <2>1. PICK a : a = [sl EXCEPT ![i] = sl[n]]
    OBVIOUS
  <2>2. a \in [SlotNumbers -> SlotType] /\ \A k \in SlotNumbers : a[k] = IF k = i THEN sl[n] ELSE sl[k]
    BY <1>1, <2>1 DEF Listed
  <2>3. PICK z : z = [a[n] EXCEPT !.fd = NoFd]
    OBVIOUS
  <2>4. z \in SlotType
    <3>1. a[n] \in SlotType
      BY <1>1, <2>2
    <3> QED
      BY <2>3, <3>1 DEF SlotType
  <2>5. sl2 = [a EXCEPT ![n] = z]
    BY <2>1, <2>3
  <2>6. sl2 \in [SlotNumbers -> SlotType] /\ \A k \in SlotNumbers : k # n => sl2[k] = a[k]
    BY <1>1, <2>2, <2>4, <2>5
  <2> QED
    BY <1>1, <1>2, <2>2, <2>6
<1>4. \A k \in 1 .. n : sl[k].fd \in Fds(n, sl) /\ (k # i => sl[k].fd # sl[i].fd)
  BY DEF Fds, Listed
<1>5. Listed(m, sl2)
  <2>1. \A k \in 1 .. m : sl2[k] \in Watching
    BY <1>1, <1>2, <1>3 DEF Listed
  <2>2. ASSUME NEW k \in 1 .. m, NEW j \in 1 .. m, sl2[k].fd = sl2[j].fd PROVE k = j
    <3>1. CASE k = i /\ j # i
      BY <1>1, <1>2, <1>3, <2>2, <3>1 DEF Listed
    <3>2. CASE k # i /\ j = i
      BY <1>1, <1>2, <1>3, <2>2, <3>2 DEF Listed
    <3>3. CASE k # i /\ j # i
      BY <1>1, <1>2, <1>3, <2>2, <3>3 DEF Listed
    <3> QED
      BY <3>1, <3>2, <3>3
  <2> QED
    BY <1>1, <1>2, <1>3, <2>1, <2>2 DEF Listed
<1>6. Fds(m, sl2) = Fds(n, sl) \ {sl[i].fd}
  <2>1. ASSUME NEW f \in Fds(m, sl2) PROVE f \in Fds(n, sl) \ {sl[i].fd}
    <3>1. PICK k \in 1 .. m : f = sl2[k].fd
      BY DEF Fds
    <3>2. CASE k = i
      BY <1>1, <1>2, <1>3, <1>4, <3>1, <3>2
    <3>3. CASE k # i
      BY <1>1, <1>2, <1>3, <1>4, <3>1, <3>3
    <3> QED
      BY <3>2, <3>3
  <2>2. ASSUME NEW f \in Fds(n, sl) \ {sl[i].fd} PROVE f \in Fds(m, sl2)
    <3>1. PICK k \in 1 .. n : f = sl[k].fd /\ k # i
      BY <2>2 DEF Fds
    <3>2. CASE k = n
      <4>1. i \in 1 .. m /\ sl2[i] = sl[n]
        BY <1>1, <1>2, <1>3, <3>1, <3>2
      <4> QED
        BY <3>1, <3>2, <4>1 DEF Fds
    <3>3. CASE k # n
      <4>1. k \in 1 .. m /\ sl2[k] = sl[k]
        BY <1>1, <1>2, <1>3, <3>1, <3>3
      <4> QED
        BY <3>1, <4>1 DEF Fds
    <3> QED
      BY <3>2, <3>3
  <2> QED
    BY <2>1, <2>2
<1>7. PICK g : g = [f \in Fds(n, sl) \ {sl[i].fd} |-> w[f]]
  OBVIOUS
<1>8. g = [f \in Fds(m, sl2) |-> g[f]] /\ \A f \in Fds(m, sl2) : g[f] = w[f]
  BY <1>6, <1>7
<1>9. ASSUME NEW k \in 1 .. m PROVE g[sl2[k].fd] = Body(sl2[k])
  <2>1. PICK j \in 1 .. n : sl2[k] = sl[j]
    BY <1>1, <1>2, <1>3
  <2>2. w[sl[j].fd] = Body(sl[j])
    BY <1>0, MapAt, Zenon
  <2>3. sl2[k].fd \in Fds(m, sl2)
    BY DEF Fds
  <2> QED
    BY <1>8, <2>1, <2>2, <2>3, Zenon
<1>10. MapOf(m, sl2) = g
  <2>1. Says(g, m, sl2)
    BY <1>8, <1>9, Zenon DEF Says
  <2> QED
    BY <1>5, <2>1, MapIs, Zenon
<1> QED
  BY <1>0, <1>2, <1>5, <1>7, <1>10 DEF Without

\* What is watched, in a state with n slots of sl in use, and in the next.
LEMMA Watched ==
  ASSUME EpollInv, NEW n, NEW sl, n = ep.cnt, sl = ep.slots
  PROVE  /\ WatchedMap = MapOf(n, sl) /\ DOMAIN WatchedMap = Fds(n, sl)
         /\ Cardinality(DOMAIN WatchedMap) = n
         /\ \A fd : At(fd) = {i \in 1 .. n : sl[i].fd = fd}
         /\ \A fd : At(fd) = {} <=> fd \notin Fds(n, sl)
<1>1. WatchedMap = MapOf(n, sl)
  BY WatchedIsMap
<1>2. DOMAIN WatchedMap = Fds(n, sl)
  BY <1>1, MapDomain
<1>3. Cardinality(DOMAIN WatchedMap) = n
  BY <1>2, MapCounts DEF EpollInv
<1>4. \A fd : At(fd) = {i \in 1 .. n : sl[i].fd = fd}
  BY DEF At
<1>5. \A fd : At(fd) = {} <=> fd \notin Fds(n, sl)
  BY DEF At, Fds
<1> QED
  BY <1>1, <1>2, <1>3, <1>4, <1>5

LEMMA WatchedNext ==
  ASSUME NEW n, NEW sl, ep' = [cnt |-> n, slots |-> sl]
  PROVE  WatchedMap' = MapOf(n, sl) /\ (Listed(n, sl) => EpollInv')
<1>1. ep'.cnt = n /\ ep'.slots = sl
  OBVIOUS
<1>2. WatchedMap' = MapOf(ep'.cnt, ep'.slots)
  BY Zenon DEF WatchedMap, MapOf, Fds, Body
<1>3. Listed(n, sl) => EpollInv'
  BY <1>1 DEF EpollInv, Listed
<1> QED
  BY <1>1, <1>2, <1>3

LEMMA CreateEmpties ==
  ASSUME EpollInv, sys_epoll_create
  PROVE  EpollInv' /\ List!Create
<1>1. PICK sl : sl = [i \in 1 .. EPOLL_MAX |-> [ep.slots[i] EXCEPT !.fd = NoFd]]
  OBVIOUS
<1>2. ep' = [cnt |-> 0, slots |-> sl]
  BY <1>1 DEF sys_epoll_create
<1>3. ASSUME NEW s \in SlotType PROVE [s EXCEPT !.fd = NoFd] \in SlotType
  BY DEF SlotType
<1>4. sl \in [SlotNumbers -> SlotType]
  BY <1>1, <1>3 DEF EpollInv, Listed, SlotNumbers
<1>5. Listed(0, sl)
  BY <1>4, PipesAssumption DEF Listed
<1>6. WatchedMap' = MapOf(0, sl) /\ EpollInv'
  BY <1>2, <1>5, WatchedNext
<1>7. Fds(0, sl) = {}
  BY DEF Fds
<1>8. MapOf(0, sl) = [f \in {} |-> 0]
  BY <1>7 DEF MapOf
<1> QED
  BY <1>6, <1>8 DEF List!Create

LEMMA SameCount == \A S : List!Cardinality(S) = Cardinality(S)
BY DEF List!Cardinality, Cardinality, List!IsFiniteSet, IsFiniteSet

\* What epoll_ctl takes from its argument is an entry.
LEMMA EntryRead ==
  ASSUME NEW fd \in WatchedFds, NEW a \in EventArgs
  PROVE  EntryOf(fd, a) \in EpEntry
<1>1. CASE a = NULL
  BY <1>1 DEF EntryOf, EpEntry, EvSets
<1>2. CASE a # NULL
  <2>1. a \in epoll_event
    BY <1>2 DEF EventArgs
  <2>2. a.events \in EvSets /\ a.at8 \in Words /\ a.at12 \in Words
    BY <2>1 DEF epoll_event
  <2> QED
    BY <1>2, <2>2 DEF EntryOf, EpEntry
<1> QED
  BY <1>1, <1>2

LEMMA SetWatches ==
  ASSUME EpollInv, NEW fd \in WatchedFds, NEW a \in EventArgs, sys_epoll_ctl_set(fd, a)
  PROVE  EpollInv' /\ IF Past(fd) THEN UNCHANGED WatchedMap ELSE List!Set(fd, EntryOf(fd, a))
<1>0. PICK e \in EpEntry : e = EntryOf(fd, a)
  BY EntryRead
<1> SUFFICES EpollInv' /\ IF Past(fd) THEN UNCHANGED WatchedMap ELSE List!Set(fd, e)
  BY <1>0
<1>1. PICK n, sl, w : n = ep.cnt /\ sl = ep.slots /\ w = WatchedMap
  OBVIOUS
<1>2. Listed(n, sl) /\ ep = [cnt |-> n, slots |-> sl]
  BY <1>1 DEF EpollInv
<1>3. /\ w = MapOf(n, sl) /\ DOMAIN w = Fds(n, sl) /\ Cardinality(DOMAIN w) = n
      /\ At(fd) = {i \in 1 .. n : sl[i].fd = fd} /\ (At(fd) = {} <=> fd \notin Fds(n, sl))
  BY <1>1, Watched
<1>4. PICK x : x = [fd |-> fd, ev |-> e.ev, data |-> e.data]
  OBVIOUS
<1>5. x \in Watching /\ x.fd = fd /\ Body(x) = e
  BY <1>4 DEF EpEntry, Watching, Body, DataRead
<1>6. n \in Nat /\ n <= EPOLL_MAX
  BY <1>2, PipesAssumption DEF Listed
<1>7. ASSUME NEW m, NEW sl2, ep' = [cnt |-> m, slots |-> sl2], Listed(m, sl2), ~Past(fd),
             fd \in DOMAIN w \/ n < EPOLL_MAX,
             MapOf(m, sl2) = With(n, sl, x)
      PROVE  EpollInv' /\ IF Past(fd) THEN UNCHANGED WatchedMap ELSE List!Set(fd, e)
  <2>1. WatchedMap' = MapOf(m, sl2) /\ EpollInv'
    BY <1>7, WatchedNext
  <2>2. WatchedMap' = [f \in DOMAIN WatchedMap \cup {fd} |-> IF f = fd THEN e ELSE WatchedMap[f]]
    <3>1. With(n, sl, x) = [f \in DOMAIN w \cup {fd} |-> IF f = fd THEN e ELSE w[f]]
      BY <1>3, <1>5 DEF With
    <3> QED
      BY <1>1, <1>7, <2>1, <3>1
  <2>3. fd \in DOMAIN WatchedMap \/ Cardinality(DOMAIN WatchedMap) < EPOLL_MAX
    BY <1>1, <1>3, <1>7
  <2>4. List!Set(fd, e)
    BY <2>2, <2>3, SameCount DEF List!Set, List!Update
  <2> QED
    BY <1>7, <2>1, <2>4
<1>8. CASE \E i \in At(fd) : ep' = [ep EXCEPT !.slots[i] = x]
  <2>1. PICK i \in At(fd) : ep' = [ep EXCEPT !.slots[i] = x]
    BY <1>8
  <2>2. i \in 1 .. n /\ sl[i].fd = x.fd /\ fd \in Fds(n, sl)
    BY <1>3, <1>5
  <2>3. PICK sl2 : sl2 = [sl EXCEPT ![i] = x]
    OBVIOUS
  <2>4. ep' = [cnt |-> n, slots |-> sl2]
    BY <1>2, <2>1, <2>3
  <2>5. Listed(n, sl2) /\ MapOf(n, sl2) = With(n, sl, x)
    BY <1>2, <1>5, <2>2, <2>3, ChangeSlot
  <2>6. ~Past(fd) /\ fd \in DOMAIN w
    BY <1>1, <1>3, <2>2 DEF Past
  <2> QED
    BY <1>7, <2>4, <2>5, <2>6
<1>9. CASE /\ At(fd) = {} /\ ep.cnt < EPOLL_MAX
           /\ ep' = [cnt |-> ep.cnt + 1, slots |-> [ep.slots EXCEPT ![ep.cnt + 1] = x]]
  <2>1. PICK sl2 : sl2 = [sl EXCEPT ![n + 1] = x]
    OBVIOUS
  <2>2. ep' = [cnt |-> n + 1, slots |-> sl2]
    BY <1>1, <1>9, <2>1
  <2>3. n < EPOLL_MAX /\ x.fd \notin Fds(n, sl)
    BY <1>1, <1>3, <1>5, <1>9
  <2>4. Listed(n + 1, sl2) /\ MapOf(n + 1, sl2) = With(n, sl, x)
    BY <1>2, <1>5, <2>1, <2>3, AddSlot
  <2>5. ~Past(fd)
    BY <1>1, <1>3, <1>6, <2>3, PipesAssumption DEF Past
  <2> QED
    BY <1>7, <2>2, <2>3, <2>4, <2>5
<1>10. CASE At(fd) = {} /\ ep.cnt >= EPOLL_MAX /\ ep' = ep
  <2>1. n = EPOLL_MAX
    BY <1>1, <1>6, <1>10, PipesAssumption
  <2>2. Past(fd)
    BY <1>1, <1>3, <1>10, <2>1 DEF Past
  <2>3. WatchedMap' = MapOf(n, sl) /\ EpollInv'
    BY <1>2, <1>10, WatchedNext
  <2> QED
    BY <1>1, <1>3, <2>2, <2>3
<1> QED
  BY <1>0, <1>4, <1>8, <1>9, <1>10, Zenon DEF sys_epoll_ctl_set

LEMMA DelUnwatches ==
  ASSUME EpollInv, NEW fd \in WatchedFds, sys_epoll_ctl_del(fd)
  PROVE  EpollInv' /\ List!Remove(fd)
<1>1. PICK n, sl, w : n = ep.cnt /\ sl = ep.slots /\ w = WatchedMap
  OBVIOUS
<1>2. Listed(n, sl) /\ ep = [cnt |-> n, slots |-> sl]
  BY <1>1 DEF EpollInv
<1>3. /\ w = MapOf(n, sl) /\ DOMAIN w = Fds(n, sl)
      /\ At(fd) = {i \in 1 .. n : sl[i].fd = fd} /\ (At(fd) = {} <=> fd \notin Fds(n, sl))
  BY <1>1, Watched
<1>4. ASSUME NEW m, NEW sl2, ep' = [cnt |-> m, slots |-> sl2], Listed(m, sl2),
             MapOf(m, sl2) = Without(n, sl, fd)
      PROVE  EpollInv' /\ List!Remove(fd)
  <2>1. WatchedMap' = MapOf(m, sl2) /\ EpollInv'
    BY <1>4, WatchedNext
  <2>2. WatchedMap' = [f \in DOMAIN WatchedMap \ {fd} |-> WatchedMap[f]]
    BY <1>1, <1>3, <1>4, <2>1, Zenon DEF Without
  <2> QED
    BY <2>1, <2>2 DEF List!Remove
<1>5. CASE \E i \in At(fd) : ep' = [cnt |-> ep.cnt - 1, slots |-> [ep.slots EXCEPT ![i] = ep.slots[ep.cnt], ![ep.cnt].fd = NoFd]]
  <2>1. PICK i \in At(fd) : ep' = [cnt |-> ep.cnt - 1, slots |-> [ep.slots EXCEPT ![i] = ep.slots[ep.cnt], ![ep.cnt].fd = NoFd]]
    BY <1>5
  <2>2. i \in 1 .. n /\ sl[i].fd = fd
    BY <1>3
  <2>3. PICK sl2 : sl2 = [sl EXCEPT ![i] = sl[n], ![n].fd = NoFd]
    OBVIOUS
  <2>4. ep' = [cnt |-> n - 1, slots |-> sl2]
    BY <1>1, <2>1, <2>3, Zenon
  <2>5. Listed(n - 1, sl2) /\ MapOf(n - 1, sl2) = Without(n, sl, sl[i].fd)
    BY <1>2, <2>2, <2>3, DropSlot, Zenon
  <2> QED
    BY <1>4, <2>2, <2>4, <2>5
<1>6. CASE At(fd) = {} /\ ep' = ep
  <2>1. ep' = [cnt |-> n, slots |-> sl]
    BY <1>2, <1>6
  <2>2. Fds(n, sl) \ {fd} = Fds(n, sl)
    BY <1>3, <1>6
  <2>3. w = [f \in Fds(n, sl) |-> w[f]]
    BY <1>3 DEF MapOf
  <2>4. MapOf(n, sl) = Without(n, sl, fd)
    BY <1>3, <2>2, <2>3, Zenon DEF Without
  <2> QED
    BY <1>2, <1>4, <2>1, <2>4
<1> QED
  BY <1>5, <1>6 DEF sys_epoll_ctl_del

LEMMA EpollStarts == InputInit => EpollInv /\ WatchedMap = [f \in {} |-> 0]
<1> SUFFICES ASSUME InputInit PROVE EpollInv /\ WatchedMap = [f \in {} |-> 0]
  OBVIOUS
<1>1. ep = [cnt |-> 0, slots |-> [i \in 1 .. EPOLL_MAX |-> BlankEntry]]
  BY DEF InputInit, PipesInit
<1>2. PICK sl : sl = [i \in 1 .. EPOLL_MAX |-> BlankEntry]
  OBVIOUS
<1>3. ep.cnt = 0 /\ ep.slots = sl
  BY <1>1, <1>2
<1>4. BlankEntry \in SlotType
  BY DEF BlankEntry, SlotType
<1>5. Listed(0, sl)
  BY <1>2, <1>4, PipesAssumption DEF Listed, SlotNumbers
<1>6. EpollInv
  BY <1>1, <1>2, <1>3, <1>5 DEF EpollInv
<1>7. Fds(0, sl) = {}
  BY DEF Fds
<1>8. MapOf(0, sl) = [f \in {} |-> 0]
  BY <1>7 DEF MapOf
<1> QED
  BY <1>3, <1>6, <1>8, WatchedIsMap

LEMMA EpollStep == EpollInv /\ [InputNext]_inputVars => EpollInv' /\ [List!Next]_WatchedMap
<1> SUFFICES ASSUME EpollInv, [InputNext]_inputVars PROVE EpollInv' /\ [List!Next]_WatchedMap
  OBVIOUS
<1>1. CASE ep' = ep
  BY <1>1 DEF EpollInv, WatchedMap
<1>2. CASE sys_epoll_create
  BY <1>2, CreateEmpties DEF List!Next
<1>3. ASSUME NEW fd \in WatchedFds, sys_epoll_ctl_del(fd) PROVE EpollInv' /\ [List!Next]_WatchedMap
  BY <1>3, DelUnwatches DEF List!Next
<1>4. ASSUME NEW fd \in WatchedFds, NEW a \in EventArgs, sys_epoll_ctl_set(fd, a)
      PROVE  EpollInv' /\ [List!Next]_WatchedMap
  BY <1>4, SetWatches, EntryRead DEF List!Next
<1>5. CASE EpollCalls
  BY <1>2, <1>3, <1>4, <1>5 DEF EpollCalls
<1>6. CASE PipeCalls \/ WaitingCalls
  BY <1>1, <1>6 DEF PipeCalls, WaitingCalls, sys_pipe, sys_read_pipe_empty, sys_write_pipe,
     sys_read_pipe, WaitStep, WaitBegin, WaitEnd, WaitHalt, WaitWake
<1> QED
  BY <1>1, <1>5, <1>6 DEF InputNext, inputVars, pipeVars

\* For every set of descriptors and every length of the list, the arrays of
\* epoll and their count implement a set of watched descriptors with the entry
\* epoll_ctl last read for each, and each call does to that set what it was
\* asked to; the data read is not the data of the packed struct.
THEOREM EpollKeepsItsList == InputSpec => EpollIsAWatchList
<1>1. InputInit => EpollInv /\ WatchedMap = [f \in {} |-> 0]
  BY EpollStarts
<1>2. EpollInv /\ [InputNext]_inputVars => EpollInv' /\ [List!Next]_WatchedMap
  BY EpollStep
<1>3. EpollInv => [EpollDoesAsAsked]_ep
  BY SetWatches, DelUnwatches DEF EpollDoesAsAsked
<1>4. InputSpec => [][List!Next]_WatchedMap
  BY <1>1, <1>2, PTL DEF InputSpec
<1>5. InputSpec => [][EpollDoesAsAsked]_ep
  BY <1>1, <1>2, <1>3, PTL DEF InputSpec
<1> QED
  BY <1>1, <1>4, <1>5, PTL DEF InputSpec, EpollIsAWatchList, List!Spec
=============================================================================
