------------------------------ MODULE InputRing ------------------------------
(***************************************************************************)
(* The ring of input events (input_direct.rs).  Interrupt handlers push,   *)
(* the task input_drv pops and sends to the foreground process.  The demo  *)
(* task key_gen pushes too, and as a thread it can be interrupted between  *)
(* the loads and stores of its push.  An event is its type; the packing of *)
(* coordinates is left out.                                                *)
(***************************************************************************)
EXTENDS Integers, Sequences

CONSTANTS EVT_CAP   \* cells of the ring, one of which stays empty

ASSUME RingAssumption == EVT_CAP \in Nat \ {0, 1}

VARIABLES
    ring,       \* RING; owed is history: accepted and not yet popped
    foreground, \* whether FOREGROUND_PID is set
    drv,        \* input_drv inside pop_event: its step and the value it read
    gen,        \* key_gen inside push_event: its step and the tail it read
    torn        \* history: an interrupt pushed inside key_gen's push

ringVars == <<ring, foreground, drv, gen, torn>>

\* A ring of cap cells; BlankCell is what a static array holds at first.
BlankCell == "blank"
EmptyRing(cap) == [buf |-> [i \in 0..(cap - 1) |-> BlankCell], head |-> 0, tail |-> 0, owed |-> <<>>]
Succ(i, cap) == (i + 1) % cap

\* The cells from head up to tail.
Contents(r, cap) == [i \in 1..((r.tail - r.head + cap) % cap) |-> r.buf[(r.head + i - 1) % cap]]

\* A push that nothing interrupts; a full ring drops the value.
Pushed(r, val, cap) ==
    IF Succ(r.tail, cap) = r.head THEN r
    ELSE [r EXCEPT !.buf[r.tail] = val, !.tail = Succ(@, cap), !.owed = Append(@, val)]

push_event(r, val) == Pushed(r, val, EVT_CAP)

\* An interrupt handler has pushed what makes the ring r.
IrqPush(r) ==
    /\ ring' = r
    /\ torn' = (torn \/ (gen.pc # "idle" /\ r # ring))
    /\ UNCHANGED <<foreground, drv, gen>>

-----------------------------------------------------------------------------
(* key_gen_task: push_key with interrupts enabled. *)

GenLoad ==
    /\ gen.pc = "idle"
    /\ gen' = [pc |-> "loaded", tail |-> ring.tail]
    /\ UNCHANGED <<ring, foreground, drv, torn>>

GenFull ==
    /\ gen.pc = "loaded" /\ Succ(gen.tail, EVT_CAP) = ring.head
    /\ gen' = [gen EXCEPT !.pc = "idle"]
    /\ UNCHANGED <<ring, foreground, drv, torn>>

GenStore ==
    /\ gen.pc = "loaded" /\ Succ(gen.tail, EVT_CAP) # ring.head
    /\ ring' = [ring EXCEPT !.buf[gen.tail] = "key"]
    /\ gen' = [gen EXCEPT !.pc = "stored"]
    /\ UNCHANGED <<foreground, drv, torn>>

GenCommit ==
    /\ gen.pc = "stored"
    /\ ring' = [ring EXCEPT !.tail = Succ(gen.tail, EVT_CAP),
                            !.owed = IF torn THEN @ ELSE Append(@, "key")]
    /\ gen' = [gen EXCEPT !.pc = "idle"]
    /\ UNCHANGED <<foreground, drv, torn>>

-----------------------------------------------------------------------------
(* input_drv_task and input_consumer_task. *)

set_foreground == ~foreground /\ foreground' = TRUE /\ UNCHANGED <<ring, drv, gen, torn>>

PopRead_HeadFirst ==
    /\ foreground /\ drv.pc = "idle" /\ ring.head # ring.tail
    /\ drv' = [pc |-> "read", val |-> ring.buf[ring.head]]
    /\ ring' = [ring EXCEPT !.head = Succ(@, EVT_CAP)]
    /\ UNCHANGED <<foreground, gen, torn>>

\* pop_event, up to the store of head; the ring is polled only for a
\* foreground process.
PopRead ==
    /\ foreground /\ drv.pc = "idle" /\ ring.head # ring.tail
    /\ drv' = [pc |-> "read", val |-> ring.buf[ring.head]]
    /\ UNCHANGED <<ring, foreground, gen, torn>>

\* The store of head; the event is sent to the foreground process.
PopCommit ==
    /\ drv.pc = "read"
    /\ ring' = [ring EXCEPT !.head = Succ(@, EVT_CAP),
                            !.owed = IF torn \/ @ = <<>> THEN @ ELSE Tail(@)]
    /\ drv' = [pc |-> "idle", val |-> BlankCell]
    /\ UNCHANGED <<foreground, gen, torn>>

RingInit ==
    /\ ring = EmptyRing(EVT_CAP) /\ foreground = FALSE
    /\ drv = [pc |-> "idle", val |-> BlankCell]
    /\ gen = [pc |-> "idle", tail |-> 0]
    /\ torn = FALSE

\* The interrupts of the keyboard and of the mouse as far as this ring sees
\* them: one event, or a click and a move.
RingIrq ==
    \/ \E val \in {"key", "click", "move"} : IrqPush(push_event(ring, val))
    \/ IrqPush(push_event(push_event(ring, "click"), "move"))

\* Once torn, nothing is claimed and the history stands still.
RingTasks ==
    ~torn /\ (GenLoad \/ GenFull \/ GenStore \/ GenCommit \/ set_foreground \/ PopRead \/ PopCommit)

-----------------------------------------------------------------------------
(* Correctness. *)

\* As long as no interrupt has hit key_gen inside its push, the ring holds
\* the accepted events in order, none overwritten, lost or repeated, and
\* input_drv takes the oldest, wherever its own pop is interrupted.
EventsInOrder ==
    ~torn => /\ Contents(ring, EVT_CAP) = ring.owed
             /\ drv.pc = "read" => ring.owed # <<>> /\ drv.val = Head(ring.owed)
=============================================================================
