------------------------ MODULE FrameAllocatorProofs ------------------------
(***************************************************************************)
(* Proofs about FrameAllocator for contexts that do not interleave inside  *)
(* an operation: a frame has one owner, no frame is lost and FREE_FRAMES   *)
(* counts the free frames, and an allocation fails only when there is      *)
(* nothing to give, for every size of the bitmap, every memory map and     *)
(* every number of contexts.                                               *)
(***************************************************************************)
EXTENDS FrameAllocator, FiniteSetTheorems, WellFoundedInduction, TLAPS

OpType ==
  [pc: {"idle", "scan", "mark", "contig", "check", "release"}, at: Nat,
   seen: SUBSET Usable, start: Nat, len: Nat, want: Nat]

FrameType ==
  /\ free \in SUBSET Usable
  /\ held \in [Contexts -> SUBSET Usable]
  /\ op \in [Contexts -> OpType]

\* At most one context is inside the allocator.
OneBusy == \A c, d \in Contexts : c # d => Idle(c) \/ Idle(d)

Freeing(c) == op[c].pc \in {"check", "release"}
RunOf(o) == o.start..(o.start + o.len - 1)

\* What a context that is inside an operation knows of the bitmap.
Knows(c) ==
  /\ op[c].pc = "mark" =>
       op[c].seen = free \cap FramesOf(op[c].at) /\ op[c].seen # {}
  /\ op[c].pc = "contig" =>
       /\ RunOf(op[c]) \subseteq free
       /\ op[c].len <= op[c].want
       /\ op[c].len # 0 => op[c].start + op[c].len = op[c].at
  /\ Freeing(c) => op[c].want \in Usable /\ \A d \in Contexts : op[c].want \notin held[d]
  /\ op[c].pc = "release" =>
       /\ op[c].want \notin free
       /\ op[c].seen = free \cap FramesOf(op[c].want \div WordBits)

\* Every usable frame is free, held, or just being freed.
Accounted ==
  \A f \in Usable :
    \/ f \in free
    \/ \E c \in Contexts : f \in held[c]
    \/ \E c \in Contexts : Freeing(c) /\ op[c].want = f

FrameInv ==
  /\ FrameType
  /\ OneBusy
  /\ \A c \in Contexts : Knows(c)
  /\ Accounted
  /\ OneOwner
  /\ freeFrames = Cardinality(free)

---------------------------------------------------------------------------

\* A set of natural numbers that is not empty has a least member, which is
\* what trailing_zeros returns.
LEMMA LeastFrame ==
  ASSUME NEW S \in SUBSET Nat, S # {}
  PROVE  trailing_zeros(S) \in S
<1>1. IsWellFoundedOn(OpToRel(<, Nat), Nat)
  BY NatLessThanWellFounded
<1>2. \E x \in S : \A y \in S : ~(<<y, x>> \in OpToRel(<, Nat))
  BY <1>1, WFMin
<1>3. PICK x \in S : \A y \in S : ~(<<y, x>> \in OpToRel(<, Nat))
  BY <1>2
<1>4. \A y \in S : ~(y < x)
  BY <1>3 DEF OpToRel
<1>5. \A y \in S : x <= y
  BY <1>4
<1> QED
  BY <1>5 DEF trailing_zeros

LEMMA UsableFacts ==
  /\ Usable \subseteq Nat
  /\ IsFiniteSet(Usable)
  /\ WordBits \in Nat \ {0} /\ BitmapWords \in Nat \ {0} /\ MAX_FRAMES \in Nat
<1>1. WordBits * BitmapWords \in Nat
  BY FrameConstants
<1> QED
  BY <1>1, FrameConstants DEF MAX_FRAMES

LEMMA InitFrames == Init => FrameInv
<1> SUFFICES ASSUME Init PROVE FrameInv
  OBVIOUS
<1>1. FrameType
  BY DEF Init, FrameType, OpType, IdleOp
<1>2. \A c \in Contexts : Knows(c)
  BY DEF Init, Knows, IdleOp, Freeing
<1> QED
  BY <1>1, <1>2 DEF Init, FrameInv, OneBusy, Idle, Accounted, OneOwner

\* While one context acts all others are outside the allocator.
LEMMA OthersIdle ==
  ASSUME ~Preemptive, FrameInv, NEW c \in Contexts, ContextStep(c)
  PROVE  \A d \in Contexts : d # c => op[d] = IdleOp /\ op'[d] = IdleOp
<1>1. \A d \in Contexts : d # c => op[d] = IdleOp
  <2>1. CASE MayStart(c)
    BY <2>1 DEF MayStart, Idle
  <2>2. CASE op[c].pc # "idle"
    BY <2>2 DEF FrameInv, OneBusy, Idle, IdleOp
  <2>3. MayStart(c) \/ op[c].pc # "idle"
    BY DEF ContextStep, AllocStart, AllocSkip, AllocLoad, AllocStore, ContigStart,
           ContigScan, ContigTake, FreeStart, FreeCheck, FreeStore
  <2> QED
    BY <2>1, <2>2, <2>3
<1>2. \A d \in Contexts : d # c => op'[d] = op[d]
  BY DEF ContextStep, AllocStart, AllocSkip, AllocLoad, AllocStore, ContigStart,
         ContigScan, ContigTake, FreeStart, FreeCheck, FreeStore, FrameInv, FrameType
<1> QED
  BY <1>1, <1>2

\* The invariant after a step, from what the step does to the acting context.
LEMMA FrameInvAfter ==
  ASSUME ~Preemptive, FrameInv, NEW c \in Contexts, ContextStep(c),
         FrameType', Knows(c)', Accounted', OneOwner', freeFrames' = Cardinality(free')
  PROVE  FrameInv'
<1>1. \A d \in Contexts : d # c => op'[d] = IdleOp
  BY OthersIdle
<1>2. OneBusy'
  BY <1>1 DEF OneBusy, Idle
<1>3. \A d \in Contexts : Knows(d)'
  BY <1>1 DEF Knows, Freeing, IdleOp
<1> QED
  BY <1>2, <1>3 DEF FrameInv

\* A step that only moves the acting context on, outside free_frame.
LEMMA ReadingStep ==
  ASSUME ~Preemptive, FrameInv, NEW c \in Contexts, ContextStep(c), NEW o \in OpType,
         op' = [op EXCEPT ![c] = o], UNCHANGED <<free, freeFrames, held>>,
         op[c].pc \notin {"check", "release"}, o.pc \notin {"check", "release"},
         Knows(c)'
  PROVE  FrameInv'
<1> USE DEF FrameInv
<1>1. FrameType'
  BY DEF FrameType
<1>2. Accounted'
  <2> SUFFICES ASSUME NEW f \in Usable, NEW d \in Contexts, Freeing(d), op[d].want = f
               PROVE  \E e \in Contexts : Freeing(e)' /\ op'[e].want = f
    BY DEF Accounted
  <2>1. d # c
    BY DEF Freeing
  <2> QED
    BY <2>1 DEF FrameType, Freeing
<1>3. OneOwner'
  BY DEF OneOwner
<1> QED
  BY <1>1, <1>2, <1>3, FrameInvAfter

LEMMA AllocStartSafe ==
  ASSUME ~Preemptive, FrameInv, NEW c \in Contexts, ContextStep(c), AllocStart(c)
  PROVE  FrameInv'
<1> DEFINE o == [IdleOp EXCEPT !.pc = "scan"]
<1>1. o \in OpType /\ o.pc = "scan"
  BY DEF OpType, IdleOp
<1>2. op' = [op EXCEPT ![c] = o] /\ op[c].pc = "idle"
  BY DEF AllocStart, MayStart, Idle, IdleOp
<1>3. op'[c] = o
  BY <1>2 DEF FrameInv, FrameType
<1>4. Knows(c)'
  BY <1>1, <1>3 DEF Knows, Freeing
<1> HIDE DEF o
<1> QED
  BY <1>1, <1>2, <1>4, ReadingStep DEF AllocStart

LEMMA AllocSkipSafe ==
  ASSUME ~Preemptive, FrameInv, NEW c \in Contexts, ContextStep(c), AllocSkip(c)
  PROVE  FrameInv'
<1> DEFINE o == IF op[c].at + 1 = BitmapWords THEN IdleOp ELSE [op[c] EXCEPT !.at = op[c].at + 1]
<1>1. op[c] \in OpType /\ op[c].pc = "scan"
  BY DEF FrameInv, FrameType, AllocSkip
<1>2. o \in OpType /\ o.pc \in {"idle", "scan"}
  BY <1>1 DEF OpType, IdleOp
<1>3. op' = [op EXCEPT ![c] = o]
  BY DEF AllocSkip
<1>4. op'[c] = o
  BY <1>3 DEF FrameInv, FrameType
<1>5. Knows(c)'
  BY <1>2, <1>4 DEF Knows, Freeing
<1> HIDE DEF o
<1> QED
  BY <1>1, <1>2, <1>3, <1>5, ReadingStep DEF AllocSkip

LEMMA AllocLoadSafe ==
  ASSUME ~Preemptive, FrameInv, NEW c \in Contexts, ContextStep(c), AllocLoad(c)
  PROVE  FrameInv'
<1> DEFINE o == [op[c] EXCEPT !.pc = "mark", !.seen = free \cap FramesOf(op[c].at)]
<1>1. op[c] \in OpType /\ op[c].pc = "scan" /\ free \in SUBSET Usable
  BY DEF FrameInv, FrameType, AllocLoad
<1>2. /\ o \in OpType /\ o.pc = "mark" /\ o.at = op[c].at
      /\ o.seen = free \cap FramesOf(op[c].at)
  BY <1>1 DEF OpType
<1>3. op' = [op EXCEPT ![c] = o]
  BY <1>1 DEF AllocLoad, FrameInv, FrameType, OpType
<1>4. op'[c] = o
  BY <1>3 DEF FrameInv, FrameType
<1> HIDE DEF o
<1>5. Knows(c)'
  BY <1>2, <1>4 DEF Knows, Freeing, AllocLoad
<1> QED
  BY <1>1, <1>2, <1>3, <1>5, ReadingStep DEF AllocLoad

LEMMA ContigStartSafe ==
  ASSUME ~Preemptive, FrameInv, NEW c \in Contexts, ContextStep(c),
         NEW count \in Counts, ContigStart(c, count)
  PROVE  FrameInv'
<1> DEFINE o == [IdleOp EXCEPT !.pc = "contig", !.want = count]
<1>1. count \in Nat
  BY FrameConstants
<1>2. o \in OpType /\ o.pc = "contig" /\ o.start = 0 /\ o.len = 0 /\ o.want = count
  BY <1>1 DEF OpType, IdleOp
<1>3. op' = [op EXCEPT ![c] = o] /\ op[c].pc = "idle"
  BY DEF ContigStart, MayStart, Idle, IdleOp
<1>4. op'[c] = o
  BY <1>3 DEF FrameInv, FrameType
<1> HIDE DEF o
<1>5. Knows(c)'
  BY <1>1, <1>2, <1>4 DEF Knows, Freeing, RunOf
<1> QED
  BY <1>2, <1>3, <1>5, ReadingStep DEF ContigStart
LEMMA ContigScanSafe ==
  ASSUME ~Preemptive, FrameInv, NEW c \in Contexts, ContextStep(c), ContigScan(c)
  PROVE  FrameInv'
<1> DEFINE r == RunStep(op[c])
           n == [r EXCEPT !.at = op[c].at + 1]
           o == IF n.len # n.want /\ n.at = MAX_FRAMES THEN IdleOp ELSE n
<1>1. /\ op[c] \in OpType /\ op[c].pc = "contig" /\ op[c].len # op[c].want
      /\ free \in SUBSET Usable /\ Knows(c)
  BY DEF FrameInv, FrameType, ContigScan
<1>2. /\ n \in OpType /\ n.pc = "contig" /\ n.at = op[c].at + 1 /\ n.want = op[c].want
      /\ n.len = IF op[c].at \in free THEN op[c].len + 1 ELSE 0
      /\ n.start = IF op[c].at \in free /\ op[c].len = 0 THEN op[c].at ELSE op[c].start
  <2> DEFINE x == op[c]
             rest == r \in OpType /\ r.pc = x.pc /\ r.want = x.want
  <2>1. CASE x.at \in free
    <3> DEFINE s == IF x.len = 0 THEN x.at ELSE x.start
    <3>1. r = [x EXCEPT !.start = s, !.len = x.len + 1]
      BY <2>1 DEF RunStep
    <3>2. s \in Nat
      BY <1>1 DEF OpType
    <3>3. s = IF x.len = 0 THEN x.at ELSE x.start
      OBVIOUS
    <3>4. x \in OpType
      BY <1>1
    <3> HIDE DEF s, r, x
    <3>5. rest /\ r.len = x.len + 1 /\ r.start = s
      <4>1. x.len + 1 \in Nat
        BY <3>4 DEF OpType
      <4>2. r \in OpType
        BY <3>1, <3>2, <3>4, <4>1 DEF OpType
      <4>3. r.pc = x.pc /\ r.want = x.want /\ r.len = x.len + 1 /\ r.start = s
        BY <3>1, <3>4 DEF OpType
      <4> QED
        BY <4>2, <4>3
    <3> QED
      BY <1>1, <2>1, <3>3, <3>5 DEF OpType, x
  <2>2. CASE x.at \notin free
    <3>1. r = [x EXCEPT !.len = 0]
      BY <2>2 DEF RunStep
    <3>2. rest /\ r.len = 0 /\ r.start = x.start
      BY <1>1, <3>1 DEF OpType
    <3> HIDE DEF x, r
    <3> QED
      BY <1>1, <2>2, <3>2 DEF OpType, x
  <2> QED
    BY <2>1, <2>2
<1>3. op' = [op EXCEPT ![c] = o]
  BY DEF ContigScan
<1>4. o \in OpType /\ (o = n \/ o = IdleOp)
  BY <1>2 DEF OpType, IdleOp
<1>5. op'[c] = o
  BY <1>3 DEF FrameInv, FrameType
<1> HIDE DEF r, n, o
<1>6. RunOf(n) \subseteq free /\ n.len <= n.want /\ (n.len # 0 => n.start + n.len = n.at)
  <2>1. /\ op[c].at \in Nat /\ op[c].len \in Nat /\ op[c].start \in Nat /\ op[c].want \in Nat
    BY <1>1 DEF OpType
  <2>2. /\ op[c].start..(op[c].start + op[c].len - 1) \subseteq free
        /\ op[c].len <= op[c].want
        /\ op[c].len # 0 => op[c].start + op[c].len = op[c].at
    BY <1>1 DEF Knows, RunOf
  <2>3. CASE op[c].at \notin free
    BY <1>2, <2>1, <2>3 DEF RunOf
  <2>4. CASE op[c].at \in free /\ op[c].len = 0
    BY <1>1, <1>2, <2>1, <2>4 DEF RunOf
  <2>5. CASE op[c].at \in free /\ op[c].len # 0
    <3>1. n.start = op[c].start /\ n.len = op[c].len + 1
      BY <1>2, <2>5
    <3>2. \A x \in n.start..(n.start + n.len - 1) :
            x = op[c].at \/ x \in op[c].start..(op[c].start + op[c].len - 1)
      BY <3>1, <2>1, <2>2, <2>5
    <3>3. RunOf(n) \subseteq free
      BY <3>2, <2>2, <2>5 DEF RunOf
    <3> QED
      BY <1>1, <1>2, <2>1, <2>2, <2>5, <3>1, <3>3
  <2> QED
    BY <2>3, <2>4, <2>5
<1>7. Knows(c)'
  <2>1. CASE o = n
    BY <1>2, <1>5, <1>6, <2>1 DEF Knows, Freeing, ContigScan
  <2>2. CASE o = IdleOp
    BY <1>5, <2>2 DEF Knows, Freeing, IdleOp
  <2> QED
    BY <1>4, <2>1, <2>2
<1>8. o.pc \notin {"check", "release"}
  BY <1>2, <1>4 DEF IdleOp
<1> QED
  BY <1>1, <1>3, <1>4, <1>7, <1>8, ReadingStep DEF ContigScan

\* A context that ends its operation knows nothing more.
LEMMA EndsIdle ==
  ASSUME FrameInv, NEW c \in Contexts, op' = [op EXCEPT ![c] = IdleOp]
  PROVE  op'[c] = IdleOp /\ Knows(c)' /\ op' \in [Contexts -> OpType]
<1>1. op'[c] = IdleOp
  BY DEF FrameInv, FrameType
<1>2. IdleOp \in OpType
  BY DEF IdleOp, OpType
<1> QED
  BY <1>1, <1>2 DEF Knows, Freeing, IdleOp, FrameInv, FrameType

\* A step that gives free frames to the acting context and ends its operation.
LEMMA TakingStep ==
  ASSUME ~Preemptive, FrameInv, NEW c \in Contexts, ContextStep(c),
         NEW T \in SUBSET free, free' = free \ T, held' = [held EXCEPT ![c] = @ \cup T],
         freeFrames' = freeFrames - Cardinality(T), op' = [op EXCEPT ![c] = IdleOp],
         op[c].pc \notin {"check", "release"}
  PROVE  FrameInv'
<1>1. Knows(c)' /\ op' \in [Contexts -> OpType]
  BY EndsIdle
<1>2. FrameType'
  BY <1>1 DEF FrameInv, FrameType
<1>3. /\ held'[c] = held[c] \cup T
      /\ \A d \in Contexts : d # c => held'[d] = held[d]
      /\ \A d \in Contexts : d # c => op'[d] = op[d]
  BY DEF FrameInv, FrameType
<1>4. Accounted'
  <2> SUFFICES ASSUME NEW f \in Usable, f \notin free',
                      \A d \in Contexts : f \notin held'[d]
               PROVE  \E e \in Contexts : Freeing(e)' /\ op'[e].want = f
    BY DEF Accounted
  <2>1. f \notin free /\ \A d \in Contexts : f \notin held[d]
    BY <1>3
  <2>2. PICK e \in Contexts : Freeing(e) /\ op[e].want = f
    BY <2>1 DEF FrameInv, Accounted
  <2>3. e # c
    BY <2>2 DEF Freeing
  <2> QED
    BY <1>3, <2>2, <2>3 DEF Freeing
<1>5. OneOwner'
  BY <1>3 DEF FrameInv, OneOwner
<1>6. freeFrames' = Cardinality(free')
  <2>1. IsFiniteSet(free)
    BY UsableFacts, FS_Subset DEF FrameInv, FrameType
  <2>2. Cardinality(free \ T) = Cardinality(free) - Cardinality(free \cap T)
    BY <2>1, FS_Difference
  <2>3. free \cap T = T
    OBVIOUS
  <2> QED
    BY <2>2, <2>3 DEF FrameInv
<1> QED
  BY <1>1, <1>2, <1>4, <1>5, <1>6, FrameInvAfter

LEMMA AllocStoreSafe ==
  ASSUME ~Preemptive, FrameInv, NEW c \in Contexts, ContextStep(c), AllocStore(c)
  PROVE  FrameInv'
<1> DEFINE f == trailing_zeros(op[c].seen)
<1>1. /\ op[c].seen = free \cap FramesOf(op[c].at) /\ op[c].seen # {}
      /\ free \in SUBSET Usable
  BY DEF FrameInv, FrameType, Knows, AllocStore
<1>2. f \in op[c].seen
  BY <1>1, UsableFacts, LeastFrame
<1>3. /\ free' = (free \ FramesOf(op[c].at)) \cup (op[c].seen \ {f})
      /\ held' = [held EXCEPT ![c] = @ \cup {f}]
      /\ freeFrames' = freeFrames - 1 /\ op' = [op EXCEPT ![c] = IdleOp]
      /\ op[c].pc = "mark"
  BY DEF AllocStore
<1> HIDE DEF f
<1>4. free' = free \ {f} /\ {f} \in SUBSET free
  BY <1>1, <1>2, <1>3
<1>5. Cardinality({f}) = 1
  BY FS_Singleton
<1>6. freeFrames' = freeFrames - Cardinality({f})
  BY <1>3, <1>5
<1> QED
  BY <1>3, <1>4, <1>6, TakingStep

LEMMA ContigTakeSafe ==
  ASSUME ~Preemptive, FrameInv, NEW c \in Contexts, ContextStep(c), ContigTake(c)
  PROVE  FrameInv'
<1> DEFINE T == op[c].start..(op[c].start + op[c].want - 1)
<1>1. /\ op[c].start \in Nat /\ op[c].want \in Nat
  BY DEF FrameInv, FrameType, OpType
<1>2. T \in SUBSET free
  BY DEF FrameInv, Knows, RunOf, ContigTake
<1>3. Cardinality(T) = op[c].want
  <2> DEFINE a == op[c].start
             b == op[c].start + op[c].want - 1
  <2>1. a \in Int /\ b \in Int /\ (a > b => op[c].want = 0) /\ b - a + 1 = op[c].want
    BY <1>1
  <2> HIDE DEF a, b
  <2>2. Cardinality(a..b) = IF a > b THEN 0 ELSE b - a + 1
    BY <2>1, FS_Interval
  <2>3. Cardinality(a..b) = op[c].want
    BY <2>1, <2>2
  <2> QED
    BY <2>3 DEF a, b
<1>4. /\ free' = free \ T /\ held' = [held EXCEPT ![c] = @ \cup T]
      /\ freeFrames' = freeFrames - op[c].want /\ op' = [op EXCEPT ![c] = IdleOp]
      /\ op[c].pc = "contig"
  BY DEF ContigTake
<1> HIDE DEF T
<1> QED
  BY <1>2, <1>3, <1>4, TakingStep
LEMMA FreeStartSafe ==
  ASSUME ~Preemptive, FrameInv, NEW c \in Contexts, ContextStep(c),
         NEW f \in Frame, FreeStart(c, f)
  PROVE  FrameInv'
<1> DEFINE o == [IdleOp EXCEPT !.pc = "check", !.want = f]
<1>1. /\ op' = [op EXCEPT ![c] = o] /\ held' = [held EXCEPT ![c] = @ \ {f}]
      /\ op[c] = IdleOp /\ free' = free /\ freeFrames' = freeFrames
  BY DEF FreeStart, MayStart, Idle
<1>2. f \in Usable /\ f \in Nat
  BY UsableFacts DEF FreeStart, FrameInv, FrameType
<1>3. o \in OpType /\ o.pc = "check" /\ o.want = f
  BY <1>2 DEF OpType, IdleOp
<1> HIDE DEF o
<1>4. op'[c] = o /\ (\A d \in Contexts : d # c => op'[d] = op[d]) /\ op[c].pc = "idle"
  BY <1>1 DEF FrameInv, FrameType, IdleOp
<1>5. /\ held'[c] = held[c] \ {f}
      /\ \A d \in Contexts : d # c => held'[d] = held[d]
  BY <1>1 DEF FrameInv, FrameType
<1>6. \A d \in Contexts : f \notin held'[d]
  BY <1>5 DEF FreeStart, FrameInv, OneOwner
<1>7. FrameType'
  BY <1>1, <1>3 DEF FrameInv, FrameType
<1>8. Knows(c)'
  BY <1>2, <1>3, <1>4, <1>6 DEF Knows, Freeing
<1>9. Accounted'
  <2> SUFFICES ASSUME NEW g \in Usable, g \notin free',
                      \A d \in Contexts : g \notin held'[d]
               PROVE  \E e \in Contexts : Freeing(e)' /\ op'[e].want = g
    BY DEF Accounted
  <2>1. CASE g = f
    BY <1>3, <1>4, <2>1 DEF Freeing
  <2>2. CASE g # f
    <3>1. g \notin free /\ \A d \in Contexts : g \notin held[d]
      BY <1>1, <1>5, <2>2
    <3>2. PICK e \in Contexts : Freeing(e) /\ op[e].want = g
      BY <3>1 DEF FrameInv, Accounted
    <3>3. e # c
      BY <1>4, <3>2 DEF Freeing
    <3> QED
      BY <1>4, <3>2, <3>3 DEF Freeing
  <2> QED
    BY <2>1, <2>2
<1>10. OneOwner'
  BY <1>1, <1>5 DEF FrameInv, OneOwner
<1>11. freeFrames' = Cardinality(free')
  BY <1>1 DEF FrameInv
<1> QED
  BY <1>7, <1>8, <1>9, <1>10, <1>11, FrameInvAfter

LEMMA FreeCheckSafe ==
  ASSUME ~Preemptive, FrameInv, NEW c \in Contexts, ContextStep(c), FreeCheck(c)
  PROVE  FrameInv'
<1> DEFINE S == free \cap FramesOf(op[c].want \div WordBits)
           n == [op[c] EXCEPT !.pc = "release", !.seen = S]
           o == IF op[c].want \in free THEN IdleOp ELSE n
<1>1. /\ op[c] \in OpType /\ op[c].pc = "check" /\ Knows(c)
      /\ free \in SUBSET Usable /\ UNCHANGED <<free, freeFrames, held>>
  BY DEF FrameInv, FrameType, FreeCheck
<1>2. n \in OpType /\ n.pc = "release" /\ n.want = op[c].want /\ n.seen = S
  BY <1>1 DEF OpType
<1>3. op' = [op EXCEPT ![c] = o]
  BY DEF FreeCheck
<1>4. o \in OpType /\ (op[c].want \in free => o = IdleOp) /\ (op[c].want \notin free => o = n)
  BY <1>2 DEF OpType, IdleOp
<1> HIDE DEF n, o
<1>5. op'[c] = o /\ (\A d \in Contexts : d # c => op'[d] = op[d])
  BY <1>3 DEF FrameInv, FrameType
<1>6. Knows(c)'
  <2>1. CASE op[c].want \in free
    BY <1>4, <1>5, <2>1 DEF Knows, Freeing, IdleOp
  <2>2. CASE op[c].want \notin free
    <3>1. op'[c] = n
      BY <1>4, <1>5, <2>2
    <3>2. op[c].want \in Usable /\ \A d \in Contexts : op[c].want \notin held[d]
      BY <1>1 DEF Knows, Freeing
    <3> QED
      BY <1>1, <1>2, <2>2, <3>1, <3>2 DEF Knows, Freeing
  <2> QED
    BY <2>1, <2>2
<1>7. FrameType'
  BY <1>1, <1>3, <1>4 DEF FrameInv, FrameType
<1>8. Accounted'
  <2> SUFFICES ASSUME NEW g \in Usable, g \notin free',
                      \A d \in Contexts : g \notin held'[d]
               PROVE  \E e \in Contexts : Freeing(e)' /\ op'[e].want = g
    BY DEF Accounted
  <2>1. PICK e \in Contexts : Freeing(e) /\ op[e].want = g
    BY <1>1 DEF FrameInv, Accounted
  <2>2. CASE e # c
    BY <1>5, <2>1, <2>2 DEF Freeing
  <2>3. CASE e = c
    BY <1>1, <1>2, <1>4, <1>5, <2>1, <2>3 DEF Freeing
  <2> QED
    BY <2>2, <2>3
<1>9. OneOwner' /\ freeFrames' = Cardinality(free')
  BY <1>1 DEF FrameInv, OneOwner
<1> QED
  BY <1>6, <1>7, <1>8, <1>9, FrameInvAfter

LEMMA FreeStoreSafe ==
  ASSUME ~Preemptive, FrameInv, NEW c \in Contexts, ContextStep(c), FreeStore(c)
  PROVE  FrameInv'
<1> DEFINE f == op[c].want
<1>1. /\ op[c].pc = "release" /\ f \in Usable /\ f \notin free
      /\ \A d \in Contexts : f \notin held[d]
      /\ op[c].seen = free \cap FramesOf(f \div WordBits)
      /\ free \in SUBSET Usable
  BY DEF FreeStore, FrameInv, FrameType, Knows, Freeing
<1>2. /\ free' = free \cup {f} /\ freeFrames' = freeFrames + 1
      /\ op' = [op EXCEPT ![c] = IdleOp] /\ held' = held
  BY <1>1 DEF FreeStore
<1>3. Knows(c)' /\ op' \in [Contexts -> OpType]
  BY <1>2, EndsIdle
<1>4. FrameType'
  BY <1>1, <1>2, <1>3 DEF FrameInv, FrameType
<1>5. \A d \in Contexts : d # c => op'[d] = op[d]
  BY <1>2 DEF FrameInv, FrameType
<1>6. Accounted'
  <2> SUFFICES ASSUME NEW g \in Usable, g \notin free',
                      \A d \in Contexts : g \notin held'[d]
               PROVE  \E e \in Contexts : Freeing(e)' /\ op'[e].want = g
    BY DEF Accounted
  <2>1. PICK e \in Contexts : Freeing(e) /\ op[e].want = g
    BY <1>2 DEF FrameInv, Accounted
  <2>2. e # c
    BY <1>2, <2>1
  <2> QED
    BY <1>5, <2>1, <2>2 DEF Freeing
<1>7. OneOwner'
  BY <1>1, <1>2 DEF FrameInv, OneOwner
<1>8. freeFrames' = Cardinality(free')
  <2>1. IsFiniteSet(free)
    BY <1>1, UsableFacts, FS_Subset
  <2>2. Cardinality(free \cup {f}) = Cardinality(free) + 1
    BY <1>1, <2>1, FS_AddElement
  <2> QED
    BY <1>2, <2>2 DEF FrameInv
<1> QED
  BY <1>3, <1>4, <1>6, <1>7, <1>8, FrameInvAfter

---------------------------------------------------------------------------

LEMMA StepFrames ==
  ASSUME ~Preemptive, FrameInv, [Next]_vars
  PROVE  FrameInv'
<1>1. CASE Next
  <2>1. PICK c \in Contexts : ContextStep(c)
    BY <1>1 DEF Next
  <2>2. CASE AllocStart(c)
    BY <2>1, <2>2, AllocStartSafe
  <2>3. CASE AllocSkip(c)
    BY <2>1, <2>3, AllocSkipSafe
  <2>4. CASE AllocLoad(c)
    BY <2>1, <2>4, AllocLoadSafe
  <2>5. CASE AllocStore(c)
    BY <2>1, <2>5, AllocStoreSafe
  <2>6. CASE \E count \in Counts : ContigStart(c, count)
    BY <2>1, <2>6, ContigStartSafe
  <2>7. CASE ContigScan(c)
    BY <2>1, <2>7, ContigScanSafe
  <2>8. CASE ContigTake(c)
    BY <2>1, <2>8, ContigTakeSafe
  <2>9. CASE \E f \in Frame : FreeStart(c, f)
    BY <2>1, <2>9, FreeStartSafe
  <2>10. CASE FreeCheck(c)
    BY <2>1, <2>10, FreeCheckSafe
  <2>11. CASE FreeStore(c)
    BY <2>1, <2>11, FreeStoreSafe
  <2> QED
    BY <2>1, <2>2, <2>3, <2>4, <2>5, <2>6, <2>7, <2>8, <2>9, <2>10, <2>11 DEF ContextStep
<1>2. CASE UNCHANGED vars
  BY <1>2 DEF vars, FrameInv, FrameType, OneBusy, Idle, Knows, Freeing, RunOf, Accounted,
              OneOwner
<1> QED
  BY <1>1, <1>2

\* The inductive invariant of the allocator.
LEMMA FramesInvariant == ASSUME ~Preemptive PROVE Spec => []FrameInv
<1>1. Init => FrameInv
  BY InitFrames
<1>2. FrameInv /\ [Next]_vars => FrameInv'
  BY StepFrames
<1> QED
  BY <1>1, <1>2, PTL DEF Spec

\* alloc_frame and alloc_contiguous never hand out a frame that somebody
\* holds, and free_frame never frees one, for every bitmap and memory map.
THEOREM FramesHaveOneOwner == ASSUME ~Preemptive PROVE Spec => []OneOwner
<1>1. FrameInv => OneOwner
  BY DEF FrameInv
<1> QED
  BY <1>1, FramesInvariant, PTL

\* Between two operations every usable frame is free or held, and
\* FREE_FRAMES is the number of bits that are set in BITMAP.
THEOREM NoFrameLost == ASSUME ~Preemptive PROVE Spec => []NoLeak
<1>1. FrameInv => NoLeak
  <2> SUFFICES ASSUME FrameInv, Quiescent
               PROVE  free \cup Owned = Usable /\ freeFrames = Cardinality(free)
    BY DEF NoLeak
  <2>1. \A c \in Contexts : ~Freeing(c)
    BY DEF Quiescent, Idle, IdleOp, Freeing
  <2>2. \A f \in Usable : f \in free \/ f \in Owned
    BY <2>1 DEF FrameInv, Accounted, Owned
  <2>3. free \subseteq Usable /\ Owned \subseteq Usable
    BY DEF FrameInv, FrameType, Owned
  <2> QED
    BY <2>2, <2>3 DEF FrameInv
<1> QED
  BY <1>1, FramesInvariant, PTL
---------------------------------------------------------------------------
(* What a scan has shown of the frames it has passed                       *)

\* A word that alloc_frame has passed has no free frame.
WordsPassed(o) ==
  /\ o.at < BitmapWords
  /\ \A f \in free : f \div WordBits >= o.at

\* alloc_contiguous has passed no run of the length it wants, and the run it
\* has counted does not go on to the left.
RunsPassed(o) ==
  /\ o.want # 0 /\ o.len <= o.at /\ o.at <= MAX_FRAMES
  /\ o.len < o.want =>
       /\ o.at < MAX_FRAMES
       /\ \A s \in Nat : s + o.want <= o.at => ~(s..(s + o.want - 1) \subseteq free)
       /\ o.at - o.len # 0 => o.at - o.len - 1 \notin free

ScanKnows(c) ==
  /\ op[c].pc = "scan" => WordsPassed(op[c])
  /\ op[c].pc = "contig" => RunsPassed(op[c])

ScanInv == \A c \in Contexts : ScanKnows(c)

LEMMA InitScan == Init => ScanInv
  BY DEF Init, ScanInv, ScanKnows, IdleOp

\* A frame of the bitmap lies in one of its words.
LEMMA WordOfFrame ==
  ASSUME NEW f \in Frame
  PROVE  f \div WordBits \in Nat /\ f \div WordBits < BitmapWords
<1>1. WordBits \in Nat \ {0} /\ BitmapWords \in Nat \ {0}
  BY FrameConstants
<1>2. f \in Nat /\ f < WordBits * BitmapWords
  BY <1>1, UsableFacts DEF Frame, MAX_FRAMES
<1>3. PICK q \in Nat, r \in 0..(WordBits - 1) : f = WordBits * q + r /\ f \div WordBits = q
  BY <1>1, <1>2
<1>4. q < BitmapWords
  <2> SUFFICES ASSUME q >= BitmapWords PROVE FALSE
    BY <1>1, <1>3
  <2>1. PICK d \in Nat : q = BitmapWords + d
    BY <1>1, <1>3
  <2>2. WordBits * q = WordBits * BitmapWords + WordBits * d
    BY <1>1, <2>1
  <2>3. WordBits * d \in Nat /\ WordBits * BitmapWords \in Nat
    BY <1>1
  <2> QED
    BY <1>2, <1>3, <2>2, <2>3
<1> QED
  BY <1>3, <1>4

\* One more frame of the loop of alloc_contiguous that does not end it.
LEMMA RunsPassedStep ==
  ASSUME FrameInv, NEW c \in Contexts, op[c].pc = "contig", op[c].len # op[c].want,
         RunsPassed(op[c]), NEW at \in Nat, NEW len \in Nat, at = op[c].at + 1,
         len = IF op[c].at \in free THEN op[c].len + 1 ELSE 0
  PROVE  /\ len <= at /\ at <= MAX_FRAMES
         /\ len < op[c].want =>
              /\ \A s \in Nat : s + op[c].want <= at =>
                                  ~(s..(s + op[c].want - 1) \subseteq free)
              /\ at - len # 0 => at - len - 1 \notin free
<1>1. PICK a \in Nat, n \in Nat, w \in Nat : a = op[c].at /\ n = op[c].len /\ w = op[c].want
  BY DEF FrameInv, FrameType, OpType
<1>2. n < w
  BY <1>1 DEF FrameInv, Knows
<1>3. /\ w # 0 /\ n <= a /\ a < MAX_FRAMES
      /\ \A s \in Nat : s + w <= a => ~(s..(s + w - 1) \subseteq free)
      /\ a - n # 0 => a - n - 1 \notin free
  BY <1>1, <1>2 DEF RunsPassed
<1>4. at = a + 1 /\ len = IF a \in free THEN n + 1 ELSE 0
  BY <1>1
<1>5. len <= at /\ at <= MAX_FRAMES
  BY <1>3, <1>4, UsableFacts
<1>6. ASSUME len < w, NEW s \in Nat, s + w <= at, s..(s + w - 1) \subseteq free
      PROVE  FALSE
  <2>1. CASE s + w <= a
    BY <1>3, <1>6, <2>1
  <2>2. CASE s + w = a + 1
    <3>1. a \in s..(s + w - 1)
      BY <1>3, <1>6, <2>2
    <3>2. a \in free /\ len = n + 1
      BY <1>4, <1>6, <3>1
    <3>3. a - n - 1 \in s..(s + w - 1) /\ a - n # 0
      BY <1>3, <1>6, <2>2, <3>2
    <3> QED
      BY <1>3, <1>6, <3>3
  <2> QED
    BY <1>4, <1>6, <2>1, <2>2
<1>7. at - len # 0 => at - len - 1 \notin free
  <2>1. CASE a \in free
    <3>1. at - len = a - n
      BY <1>4, <2>1
    <3> QED
      BY <1>3, <3>1
  <2>2. CASE a \notin free
    <3>1. at - len - 1 = a
      BY <1>4, <2>2
    <3> QED
      BY <2>2, <3>1
  <2> QED
    BY <2>1, <2>2
<1> QED
  BY <1>1, <1>5, <1>6, <1>7

\* What ContigScan does to the fields of an operation.
LEMMA ContigFields ==
  ASSUME FrameInv, NEW c \in Contexts, ContigScan(c)
  PROVE  \E at \in Nat, len \in Nat :
           /\ at = op[c].at + 1 /\ len = IF op[c].at \in free THEN op[c].len + 1 ELSE 0
           /\ IF len # op[c].want /\ at = MAX_FRAMES THEN op'[c] = IdleOp
              ELSE /\ op'[c].pc = "contig" /\ op'[c].at = at /\ op'[c].len = len
                   /\ op'[c].want = op[c].want
<1> DEFINE r == RunStep(op[c])
           n == [r EXCEPT !.at = op[c].at + 1]
           o == IF n.len # n.want /\ n.at = MAX_FRAMES THEN IdleOp ELSE n
<1>1. op'[c] = o /\ op[c] \in OpType /\ op[c].pc = "contig"
  BY DEF ContigScan, FrameInv, FrameType
<1>2. PICK x \in OpType : x = op[c]
  BY <1>1
<1>3. /\ n.pc = "contig" /\ n.at = x.at + 1 /\ n.want = x.want
      /\ n.len = IF x.at \in free THEN x.len + 1 ELSE 0
  <2>1. CASE x.at \in free
    <3>1. r = [x EXCEPT !.start = IF x.len = 0 THEN x.at ELSE x.start, !.len = x.len + 1]
      BY <1>2, <2>1 DEF RunStep
    <3> QED
      BY <1>1, <1>2, <2>1, <3>1 DEF OpType
  <2>2. CASE x.at \notin free
    <3>1. r = [x EXCEPT !.len = 0]
      BY <1>2, <2>2 DEF RunStep
    <3> QED
      BY <1>1, <1>2, <2>2, <3>1 DEF OpType
  <2> QED
    BY <2>1, <2>2
<1>4. x.at + 1 \in Nat /\ (IF x.at \in free THEN x.len + 1 ELSE 0) \in Nat
  BY DEF OpType
<1>5. o = IF n.len # n.want /\ n.at = MAX_FRAMES THEN IdleOp ELSE n
  OBVIOUS
<1> HIDE DEF r, n, o
<1> QED
  BY <1>1, <1>2, <1>3, <1>4, <1>5

LEMMA StepScan ==
  ASSUME ~Preemptive, FrameInv, ScanInv, [Next]_vars
  PROVE  ScanInv'
<1>1. CASE Next
  <2>1. PICK c \in Contexts : ContextStep(c)
    BY <1>1 DEF Next
  <2>2. \A d \in Contexts : d # c => ScanKnows(d)'
    BY <2>1, OthersIdle DEF ScanKnows, IdleOp
  <2> USE DEF FrameInv, FrameType
  <2>3. CASE AllocStart(c)
    <3>1. op'[c] = [IdleOp EXCEPT !.pc = "scan"] /\ free' = free
      BY <2>3 DEF AllocStart
    <3>2. op'[c].pc = "scan" /\ op'[c].at = 0
      BY <3>1 DEF IdleOp
    <3>3. \A f \in free : f \div WordBits >= 0
      BY WordOfFrame, FrameConstants DEF Frame, MAX_FRAMES
    <3>4. ScanKnows(c)'
      BY <3>1, <3>2, <3>3, UsableFacts DEF ScanKnows, WordsPassed
    <3> QED
      BY <2>2, <3>4 DEF ScanInv
  <2>4. CASE AllocSkip(c)
    <3>1. /\ op[c].pc = "scan" /\ free \cap FramesOf(op[c].at) = {} /\ free' = free
          /\ op'[c] = IF op[c].at + 1 = BitmapWords THEN IdleOp
                      ELSE [op[c] EXCEPT !.at = op[c].at + 1]
      BY <2>4 DEF AllocSkip
    <3>2. PICK a \in Nat : a = op[c].at /\ a < BitmapWords /\ \A f \in free : f \div WordBits >= a
      BY <3>1 DEF ScanInv, ScanKnows, WordsPassed, OpType
    <3>3. \A f \in free : f \div WordBits >= a + 1
      <4> SUFFICES ASSUME NEW f \in free PROVE f \div WordBits >= a + 1
        OBVIOUS
      <4>1. f \in Frame
        BY FrameConstants DEF Frame, MAX_FRAMES
      <4>2. f \div WordBits # a
        BY <3>1, <3>2, <4>1 DEF FramesOf
      <4>3. f \div WordBits \in Nat
        BY <4>1, WordOfFrame
      <4> QED
        BY <3>2, <4>2, <4>3
    <3>4. CASE a + 1 = BitmapWords
      BY <2>2, <3>1, <3>2, <3>4 DEF ScanInv, ScanKnows, IdleOp
    <3>5. CASE a + 1 # BitmapWords
      <4>1. op'[c].pc = "scan" /\ op'[c].at = a + 1
        BY <3>1, <3>2, <3>5 DEF OpType
      <4>2. ScanKnows(c)'
        BY <3>1, <3>2, <3>3, <3>5, <4>1, UsableFacts DEF ScanKnows, WordsPassed
      <4> QED
        BY <2>2, <4>2 DEF ScanInv
    <3> QED
      BY <3>4, <3>5
  <2>5. CASE \E count \in Counts : ContigStart(c, count)
    <3>1. PICK count \in Counts : ContigStart(c, count)
      BY <2>5
    <3>2. op'[c] = [IdleOp EXCEPT !.pc = "contig", !.want = count] /\ count # 0 /\ free' = free
      BY <3>1 DEF ContigStart
    <3>3. /\ op'[c].pc = "contig" /\ op'[c].at = 0 /\ op'[c].len = 0 /\ op'[c].want = count
      BY <3>2 DEF IdleOp
    <3>4. count \in Nat /\ MAX_FRAMES \in Nat /\ MAX_FRAMES # 0
      BY FrameConstants, UsableFacts DEF MAX_FRAMES
    <3>5. ScanKnows(c)'
      BY <3>2, <3>3, <3>4 DEF ScanKnows, RunsPassed
    <3> QED
      BY <2>2, <3>5 DEF ScanInv
  <2>6. CASE ContigScan(c)
    <3>1. /\ op[c].pc = "contig" /\ op[c].len # op[c].want /\ free' = free
          /\ RunsPassed(op[c])
      BY <2>6 DEF ContigScan, ScanInv, ScanKnows
    <3>2. PICK at \in Nat, len \in Nat :
           /\ at = op[c].at + 1 /\ len = IF op[c].at \in free THEN op[c].len + 1 ELSE 0
           /\ IF len # op[c].want /\ at = MAX_FRAMES THEN op'[c] = IdleOp
              ELSE /\ op'[c].pc = "contig" /\ op'[c].at = at /\ op'[c].len = len
                   /\ op'[c].want = op[c].want
      BY <2>6, ContigFields
    <3>3. /\ len <= at /\ at <= MAX_FRAMES
          /\ len < op[c].want =>
              /\ \A s \in Nat : s + op[c].want <= at =>
                                  ~(s..(s + op[c].want - 1) \subseteq free)
              /\ at - len # 0 => at - len - 1 \notin free
      BY <3>1, <3>2, RunsPassedStep
    <3>4. CASE op'[c] = IdleOp
      BY <2>2, <3>4 DEF ScanInv, ScanKnows, IdleOp
    <3>5. CASE ~(len # op[c].want /\ at = MAX_FRAMES)
      <4>1. /\ op'[c].pc = "contig" /\ op'[c].at = at /\ op'[c].len = len
            /\ op'[c].want = op[c].want
        BY <3>2, <3>5
      <4>2. PICK w \in Nat : w = op[c].want /\ w # 0
        BY <3>1 DEF OpType, RunsPassed
      <4>3. len < w => at < MAX_FRAMES
        BY <3>3, <3>5, <4>2, UsableFacts
      <4>4. ScanKnows(c)'
        BY <3>1, <3>3, <4>1, <4>2, <4>3 DEF ScanKnows, RunsPassed
      <4> QED
        BY <2>2, <4>4 DEF ScanInv
    <3> QED
      BY <3>2, <3>4, <3>5
  <2>7. CASE op'[c].pc \notin {"scan", "contig"}
    BY <2>2, <2>7 DEF ScanInv, ScanKnows
  <2>8. ASSUME AllocLoad(c) \/ AllocStore(c) \/ ContigTake(c)
                 \/ (\E f \in Frame : FreeStart(c, f)) \/ FreeCheck(c) \/ FreeStore(c)
        PROVE  op'[c].pc \notin {"scan", "contig"}
    <3>1. CASE AllocLoad(c)
      <4>1. PICK S : op' = [op EXCEPT ![c].pc = "mark", ![c].seen = S]
        BY <3>1 DEF AllocLoad
      <4>2. op'[c].pc = "mark"
        BY <4>1 DEF OpType
      <4> QED
        BY <4>2
    <3>2. CASE AllocStore(c) \/ ContigTake(c) \/ FreeStore(c)
      <4>1. op'[c] = IdleOp
        BY <3>2 DEF AllocStore, ContigTake, FreeStore
      <4> QED
        BY <4>1 DEF IdleOp
    <3>3. CASE \E f \in Frame : FreeStart(c, f)
      <4>1. PICK f \in Frame : op'[c] = [IdleOp EXCEPT !.pc = "check", !.want = f]
        BY <3>3 DEF FreeStart
      <4> QED
        BY <4>1 DEF IdleOp
    <3>4. CASE FreeCheck(c)
      <4>1. PICK S : op'[c] = IF op[c].want \in free THEN IdleOp
                             ELSE [op[c] EXCEPT !.pc = "release", !.seen = S]
        BY <3>4 DEF FreeCheck
      <4>2. op'[c].pc = "release" \/ op'[c] = IdleOp
        BY <4>1 DEF OpType
      <4> QED
        BY <4>2 DEF IdleOp
    <3> QED
      BY <2>8, <3>1, <3>2, <3>3, <3>4
  <2> QED
    BY <2>1, <2>3, <2>4, <2>5, <2>6, <2>7, <2>8 DEF ContextStep
<1>2. CASE UNCHANGED vars
  BY <1>2 DEF vars, ScanInv, ScanKnows, WordsPassed, RunsPassed
<1> QED
  BY <1>1, <1>2

\* A step in which an allocation gives up, judged by what its scan has shown.
LEMMA GivesUpStep ==
  ASSUME ~Preemptive, FrameInv, ScanInv, Next, NEW d \in Contexts
  PROVE  /\ op[d].pc = "scan" /\ Idle(d)' => free = {}
         /\ op[d].pc = "contig" /\ Idle(d)' =>
              \/ free' # free
              \/ ~ \E s \in Frame : s..(s + op[d].want - 1) \subseteq free
<1>1. PICK c \in Contexts : ContextStep(c)
  BY DEF Next
<1>2. CASE d # c
  BY <1>1, <1>2, OthersIdle DEF IdleOp
<1> USE DEF FrameInv, FrameType
<1>3. ASSUME d = c, op[d].pc = "scan", Idle(d)' PROVE free = {}
  <2>1. AllocSkip(d)
    <3>1. ~AllocLoad(d)
      BY <1>3 DEF AllocLoad, Idle, IdleOp, OpType
    <3>2. ~MayStart(d)
      BY <1>3 DEF MayStart, Idle, IdleOp
    <3> QED
      BY <1>1, <1>3, <3>1, <3>2 DEF ContextStep, AllocStart, AllocStore, ContigStart,
         ContigScan, ContigTake, FreeStart, FreeCheck, FreeStore
  <2>2. /\ free \cap FramesOf(op[d].at) = {}
        /\ op'[d] = IF op[d].at + 1 = BitmapWords THEN IdleOp
                    ELSE [op[d] EXCEPT !.at = op[d].at + 1]
    BY <2>1 DEF AllocSkip
  <2>3. PICK a \in Nat : a = op[d].at /\ a < BitmapWords /\ \A f \in free : f \div WordBits >= a
    BY <1>3 DEF ScanInv, ScanKnows, WordsPassed, OpType
  <2>4. a + 1 = BitmapWords
    <3> SUFFICES ASSUME a + 1 # BitmapWords PROVE FALSE
      OBVIOUS
    <3>1. op'[d].pc = "scan"
      BY <1>3, <2>2, <2>3 DEF OpType
    <3> QED
      BY <1>3, <3>1 DEF Idle, IdleOp
  <2>5. ASSUME NEW f \in free PROVE FALSE
    <3>1. f \in Frame
      BY FrameConstants DEF Frame, MAX_FRAMES
    <3>2. f \div WordBits \in Nat /\ f \div WordBits < BitmapWords
      BY <3>1, WordOfFrame
    <3>3. f \div WordBits # a
      BY <2>2, <2>3, <3>1 DEF FramesOf
    <3> QED
      BY <2>3, <2>4, <3>2, <3>3, UsableFacts
  <2> QED
    BY <2>5
<1>4. ASSUME d = c, op[d].pc = "contig", Idle(d)'
      PROVE  \/ free' # free
             \/ ~ \E s \in Frame : s..(s + op[d].want - 1) \subseteq free
  <2>1. ContigScan(d) \/ ContigTake(d)
    <3>1. ~MayStart(d)
      BY <1>4 DEF MayStart, Idle, IdleOp
    <3> QED
      BY <1>1, <1>4, <3>1 DEF ContextStep, AllocStart, AllocStore, ContigStart, AllocLoad,
         AllocSkip, FreeStart, FreeCheck, FreeStore
  <2>2. RunsPassed(op[d]) /\ Knows(d)
    BY <1>4 DEF ScanInv, ScanKnows
  <2>3. PICK w \in Nat : w = op[d].want /\ w # 0
    BY <2>2 DEF RunsPassed, OpType
  <2>4. CASE ContigTake(d)
    <3>1. PICK b \in Nat : b = op[d].start
      BY DEF OpType
    <3>2. b \in b..(b + w - 1)
      BY <2>3, <3>1
    <3>3. free' = free \ (b..(b + w - 1)) /\ op[d].len = w
      BY <2>3, <2>4, <3>1 DEF ContigTake
    <3>4. b..(b + w - 1) \subseteq free
      BY <1>4, <2>2, <2>3, <3>1, <3>3 DEF Knows, RunOf
    <3> QED
      BY <3>2, <3>3, <3>4
  <2>5. CASE ContigScan(d)
    <3>1. PICK at \in Nat, len \in Nat :
           /\ at = op[d].at + 1 /\ len = IF op[d].at \in free THEN op[d].len + 1 ELSE 0
           /\ IF len # op[d].want /\ at = MAX_FRAMES THEN op'[d] = IdleOp
              ELSE /\ op'[d].pc = "contig" /\ op'[d].at = at /\ op'[d].len = len
                   /\ op'[d].want = op[d].want
      BY <2>5, ContigFields
    <3>2. len # w /\ at = MAX_FRAMES
      BY <1>4, <2>3, <3>1 DEF Idle, IdleOp
    <3>3. op[d].len < w
      <4>1. PICK n \in Nat : n = op[d].len
        BY DEF OpType
      <4>2. n # w /\ n <= w
        BY <1>4, <2>2, <2>3, <2>5, <4>1 DEF Knows, ContigScan
      <4> QED
        BY <4>1, <4>2
    <3>4. len < w
      BY <2>3, <3>1, <3>2, <3>3 DEF OpType
    <3>5. \A s \in Nat : s + w <= MAX_FRAMES => ~(s..(s + w - 1) \subseteq free)
      BY <1>4, <2>2, <2>3, <2>5, <3>1, <3>2, <3>4, RunsPassedStep DEF ContigScan
    <3>6. ASSUME NEW s \in Frame, s..(s + w - 1) \subseteq free PROVE FALSE
      <4>1. s \in Nat /\ MAX_FRAMES \in Nat
        BY UsableFacts DEF Frame
      <4>2. s + w - 1 \in s..(s + w - 1)
        BY <2>3, <4>1
      <4>3. s + w - 1 \in Frame
        BY <3>6, <4>2, FrameConstants DEF Frame, MAX_FRAMES
      <4>4. s + w <= MAX_FRAMES
        BY <2>3, <4>1, <4>3 DEF Frame
      <4> QED
        BY <3>5, <3>6, <4>1, <4>4
    <3> QED
      BY <2>3, <3>6
  <2> QED
    BY <2>1, <2>4, <2>5
<1> QED
  BY <1>2, <1>3, <1>4

\* alloc_frame returns None only when no frame is free, and alloc_contiguous
\* only when there is no run of the length asked for: the word-wise scan of
\* the bitmap and the running count of the contiguous scan skip nothing.
THEOREM AllocGivesUpOnlyWhenFull == ASSUME ~Preemptive PROVE Spec => GivesUpOnlyWhenFull
<1>1. Init => ScanInv
  BY InitScan
<1>2. FrameInv /\ ScanInv /\ [Next]_vars => ScanInv'
  BY StepScan
<1>3. FrameInv /\ ScanInv /\ [Next]_vars =>
        [\A c \in Contexts :
           /\ op[c].pc = "scan" /\ Idle(c)' => free = {}
           /\ op[c].pc = "contig" /\ Idle(c)' =>
                \/ free' # free
                \/ ~ \E s \in Frame : s..(s + op[c].want - 1) \subseteq free]_vars
  BY GivesUpStep
<1> QED
  BY <1>1, <1>2, <1>3, FramesInvariant, PTL DEF Spec, GivesUpOnlyWhenFull
=============================================================================
