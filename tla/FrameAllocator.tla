--------------------------- MODULE FrameAllocator ---------------------------
(***************************************************************************)
(* The bitmap allocator of physical frames (memory/frame.rs).              *)
(*                                                                         *)
(* A word of the bitmap is the set of its bits that are 1, that is of its  *)
(* free frames.  A context is whoever may be inside the allocator: a       *)
(* thread, a system call or page fault (both through trap gates, so with   *)
(* interrupts on), or the policy engine in the timer interrupt.  Nothing   *)
(* protects the bitmap: between the load of a word and its store another   *)
(* context may run.  Preemptive = FALSE is the situation the code assumes, *)
(* where an operation ends before another one begins.                      *)
(***************************************************************************)
EXTENDS Integers, FiniteSets

CONSTANTS
  Contexts,     \* the contexts that allocate and free
  WordBits,     \* frames per word of the bitmap (64)
  BitmapWords,  \* BITMAP_WORDS
  Usable,       \* the frames of MEMMAP_USABLE regions
  Counts,       \* the sizes asked of alloc_contiguous
  DoubleFrees,  \* whether callers repeat a free
  Preemptive    \* whether contexts interleave inside an operation

ASSUME FrameConstants ==
  /\ WordBits \in Nat \ {0} /\ BitmapWords \in Nat \ {0}
  /\ Usable \subseteq 0..(WordBits * BitmapWords - 1)
  /\ IsFiniteSet(Usable) /\ IsFiniteSet(Contexts)
  /\ Counts \subseteq Nat /\ DoubleFrees \in BOOLEAN /\ Preemptive \in BOOLEAN

MAX_FRAMES == WordBits * BitmapWords
Frame == 0..(MAX_FRAMES - 1)
FramesOf(w) == {f \in Frame : f \div WordBits = w}

VARIABLES
  free,        \* BITMAP, as the set of the frames whose bit is 1
  freeFrames,  \* FREE_FRAMES
  held,        \* the frames a context has been given and not yet freed
  op           \* the operation a context is in, with its local variables:
               \*   at: the word or frame the loop has reached
               \*   seen: the value of the word it has loaded
               \*   start, len: run_start and run_len
               \*   want: the count of alloc_contiguous, the frame of free_frame

vars == <<free, freeFrames, held, op>>

IdleOp == [pc |-> "idle", at |-> 0, seen |-> {}, start |-> 0, len |-> 0, want |-> 0]
Idle(c) == op[c] = IdleOp
MayStart(c) == Idle(c) /\ (Preemptive \/ \A d \in Contexts : Idle(d))

\* init: the frames of usable regions are free, all others are used.
Init ==
  /\ free = Usable
  /\ freeFrames = Cardinality(Usable)
  /\ held = [c \in Contexts |-> {}]
  /\ op = [c \in Contexts |-> IdleOp]

---------------------------------------------------------------------------
(* alloc_frame                                                             *)

AllocStart(c) ==
  /\ MayStart(c)
  /\ op' = [op EXCEPT ![c] = [IdleOp EXCEPT !.pc = "scan"]]
  /\ UNCHANGED <<free, freeFrames, held>>

\* Mutant: the scan stops before the last word.
AllocSkip_OneWordShort(c) ==
  /\ op[c].pc = "scan" /\ free \cap FramesOf(op[c].at) = {}
  /\ op' = [op EXCEPT ![c] = IF op[c].at + 1 >= BitmapWords - 1 THEN IdleOp
                             ELSE [op[c] EXCEPT !.at = op[c].at + 1]]
  /\ UNCHANGED <<free, freeFrames, held>>

\* A word without a free frame is passed over; after the last one, None.
AllocSkip(c) ==
  /\ op[c].pc = "scan" /\ free \cap FramesOf(op[c].at) = {}
  /\ op' = [op EXCEPT ![c] = IF op[c].at + 1 = BitmapWords THEN IdleOp
                             ELSE [op[c] EXCEPT !.at = op[c].at + 1]]
  /\ UNCHANGED <<free, freeFrames, held>>

AllocLoad(c) ==
  /\ op[c].pc = "scan" /\ free \cap FramesOf(op[c].at) # {}
  /\ op' = [op EXCEPT ![c].pc = "mark", ![c].seen = free \cap FramesOf(op[c].at)]
  /\ UNCHANGED <<free, freeFrames, held>>

\* trailing_zeros: the lowest free frame of a word.
trailing_zeros(word) == CHOOSE f \in word : \A g \in word : f <= g

\* Mutant: the word is stored back with the bit still set.
AllocStore_BitLeftSet(c) ==
  /\ op[c].pc = "mark"
  /\ LET f == trailing_zeros(op[c].seen) IN
       /\ free' = (free \ FramesOf(op[c].at)) \cup op[c].seen
       /\ held' = [held EXCEPT ![c] = @ \cup {f}]
  /\ freeFrames' = freeFrames - 1
  /\ op' = [op EXCEPT ![c] = IdleOp]

\* The word is stored back as it was loaded, without its lowest free frame.
AllocStore(c) ==
  /\ op[c].pc = "mark"
  /\ LET f == trailing_zeros(op[c].seen) IN
       /\ free' = (free \ FramesOf(op[c].at)) \cup (op[c].seen \ {f})
       /\ held' = [held EXCEPT ![c] = @ \cup {f}]
  /\ freeFrames' = freeFrames - 1
  /\ op' = [op EXCEPT ![c] = IdleOp]

---------------------------------------------------------------------------
(* alloc_contiguous, which only heap::init calls, before interrupts are on *)

\* count = 0 returns None at once and changes nothing.
ContigStart(c, count) ==
  /\ MayStart(c) /\ count # 0
  /\ op' = [op EXCEPT ![c] = [IdleOp EXCEPT !.pc = "contig", !.want = count]]
  /\ UNCHANGED <<free, freeFrames, held>>

\* The run of free frames that ends at the frame the loop looks at.
RunStep(o) ==
  IF o.at \in free
    THEN [o EXCEPT !.start = IF o.len = 0 THEN o.at ELSE o.start, !.len = o.len + 1]
    ELSE [o EXCEPT !.len = 0]

\* One frame of the loop; when the frames are used up, None.
ContigScan(c) ==
  /\ op[c].pc = "contig" /\ op[c].len # op[c].want
  /\ LET next == [RunStep(op[c]) EXCEPT !.at = op[c].at + 1] IN
       op' = [op EXCEPT ![c] = IF next.len # next.want /\ next.at = MAX_FRAMES
                               THEN IdleOp ELSE next]
  /\ UNCHANGED <<free, freeFrames, held>>

\* A run of the length asked for is marked used and counted.
ContigTake(c) ==
  /\ op[c].pc = "contig" /\ op[c].len = op[c].want
  /\ LET taken == op[c].start..(op[c].start + op[c].want - 1) IN
       /\ free' = free \ taken
       /\ held' = [held EXCEPT ![c] = @ \cup taken]
  /\ freeFrames' = freeFrames - op[c].want
  /\ op' = [op EXCEPT ![c] = IdleOp]

---------------------------------------------------------------------------
(* free_frame                                                              *)

\* A context frees a frame it holds, or repeats a free of one that is free.
FreeStart(c, f) ==
  /\ MayStart(c) /\ (f \in held[c] \/ (DoubleFrees /\ f \in free))
  /\ held' = [held EXCEPT ![c] = @ \ {f}]
  /\ op' = [op EXCEPT ![c] = [IdleOp EXCEPT !.pc = "check", !.want = f]]
  /\ UNCHANGED <<free, freeFrames>>

\* Mutant: a frame that is free already is freed and counted again.
FreeCheck_NoTest(c) ==
  /\ op[c].pc = "check"
  /\ op' = [op EXCEPT ![c].pc = "release", ![c].seen = free \cap FramesOf(op[c].want \div WordBits)]
  /\ UNCHANGED <<free, freeFrames, held>>

\* is_free: freeing a free frame does nothing.
FreeCheck(c) ==
  /\ op[c].pc = "check"
  /\ op' = [op EXCEPT ![c] =
              IF op[c].want \in free THEN IdleOp
              ELSE [op[c] EXCEPT !.pc = "release",
                                 !.seen = free \cap FramesOf(op[c].want \div WordBits)]]
  /\ UNCHANGED <<free, freeFrames, held>>

\* set_free stores the word it has loaded with the bit set.
FreeStore(c) ==
  /\ op[c].pc = "release"
  /\ free' = (free \ FramesOf(op[c].want \div WordBits)) \cup op[c].seen \cup {op[c].want}
  /\ freeFrames' = freeFrames + 1
  /\ op' = [op EXCEPT ![c] = IdleOp]
  /\ UNCHANGED held

---------------------------------------------------------------------------

ContextStep(c) ==
  \/ AllocStart(c) \/ AllocSkip(c) \/ AllocLoad(c) \/ AllocStore(c)
  \/ \E count \in Counts : ContigStart(c, count)
  \/ ContigScan(c) \/ ContigTake(c)
  \/ \E f \in Frame : FreeStart(c, f)
  \/ FreeCheck(c) \/ FreeStore(c)

Next == \E c \in Contexts : ContextStep(c)

Spec == Init /\ [][Next]_vars

---------------------------------------------------------------------------
(* Properties                                                              *)

TypeOK ==
  /\ free \subseteq Usable
  /\ freeFrames \in Nat
  /\ held \in [Contexts -> SUBSET Usable]
  /\ op \in [Contexts ->
       [pc: {"idle", "scan", "mark", "contig", "check", "release"}, at: 0..MAX_FRAMES,
        seen: SUBSET Usable, start: 0..MAX_FRAMES, len: 0..MAX_FRAMES, want: Nat]]

\* A frame belongs to one owner: no two contexts hold the same frame, and a
\* frame somebody holds is not free for the next allocation.
OneOwner ==
  \A c \in Contexts :
    /\ held[c] \cap free = {}
    /\ \A d \in Contexts \ {c} : held[c] \cap held[d] = {}

Owned == UNION {held[c] : c \in Contexts}
Quiescent == \A c \in Contexts : Idle(c)

\* Between operations no frame is lost, and FREE_FRAMES is the number of
\* frames that are free.
NoLeak ==
  Quiescent => free \cup Owned = Usable /\ freeFrames = Cardinality(free)

\* alloc_frame and alloc_contiguous give up only when there is no frame, or
\* no run of the length asked for.
GivesUpOnlyWhenFull ==
  [][\A c \in Contexts :
       /\ op[c].pc = "scan" /\ Idle(c)' => free = {}
       /\ op[c].pc = "contig" /\ Idle(c)' =>
            \/ free' # free
            \/ ~ \E s \in Frame : s..(s + op[c].want - 1) \subseteq free]_vars
=============================================================================
