------------------------------ MODULE Keyboard -------------------------------
(***************************************************************************)
(* The keyboard (kbd.rs, irq_handler_keyboard): scan codes become keys in  *)
(* a ring, filled by the interrupt and emptied by read(0) of a program.    *)
(* Of the code tables one letter and one other key are kept.               *)
(* A program calls the kernel by int 0x80, a trap gate that leaves         *)
(* interrupts on, or by the syscall instruction, for which FMASK turns     *)
(* them off until the call returns: no code in between turns them on.      *)
(***************************************************************************)
EXTENDS InputRing

CONSTANTS BUF_CAP   \* cells of the ring of keys

ASSUME KeyboardAssumption == BUF_CAP \in Nat \ {0, 1}

VARIABLES
    kbd,          \* KBD; owed is history: accepted and not yet read
    SHIFT, CAPS,
    reader,       \* the program inside read_key_blocking: its step and byte
    intr_on       \* RFLAGS.IF of the processor that runs the program

kbdVars == <<kbd, SHIFT, CAPS, reader, intr_on>>

Entries == {"int80", "syscall"}
Enter(entry) == intr_on' = (entry = "int80")
Leave == intr_on' = TRUE

\* Codes of the two shifts, of caps lock, of letters, of other keys with an
\* ASCII value in both tables, and of those without.
ScanCodes == [make : {"shift", "caps", "alpha", "other", "none"}, is_break : BOOLEAN]
LOWER == [alpha |-> "a", other |-> "1"]
UPPER == [alpha |-> "A", other |-> "!"]

has_key == kbd.head # kbd.tail

\* push_key: a key that finds the ring full is lost to the event ring, too.
push_key(key) ==
    LET after == Pushed(kbd, key, BUF_CAP)
    IN  /\ kbd' = after
        /\ IrqPush(IF after = kbd THEN ring ELSE push_event(ring, "key"))

use_upper(make) == IF make = "alpha" THEN SHIFT # CAPS ELSE SHIFT

\* handle_scancode; the boost of the scheduler is Scheduler's kbd boost.
irq_handler_keyboard(code) ==
    /\ intr_on
    /\ SHIFT' = IF code.make = "shift" THEN ~code.is_break ELSE SHIFT
    /\ CAPS' = IF code.make = "caps" /\ ~code.is_break THEN ~CAPS ELSE CAPS
    /\ UNCHANGED <<reader, intr_on>>
    /\ \/ /\ code.make \in {"alpha", "other"} /\ ~code.is_break
          /\ push_key(IF use_upper(code.make) THEN UPPER[code.make] ELSE LOWER[code.make])
       \/ /\ code.make \notin {"alpha", "other"} \/ code.is_break
          /\ UNCHANGED <<kbd, ringVars>>

-----------------------------------------------------------------------------
(* sys_read of descriptor 0. *)

ReadBegin(entry) ==
    /\ reader.pc = "user" /\ reader' = [reader EXCEPT !.pc = "try"]
    /\ Enter(entry)
    /\ UNCHANGED <<kbd, SHIFT, CAPS, ringVars>>

\* try_pop finds a key and reads it ...
TryPop ==
    /\ reader.pc = "try" /\ has_key
    /\ reader' = [pc |-> "store", key |-> kbd.buf[kbd.head]]
    /\ UNCHANGED <<kbd, SHIFT, CAPS, intr_on, ringVars>>

\* ... and stores head.
TryPopStore ==
    /\ reader.pc = "store"
    /\ kbd' = [kbd EXCEPT !.head = Succ(@, BUF_CAP), !.owed = Tail(@)]
    /\ reader' = [pc |-> "user", key |-> BlankCell]
    /\ Leave
    /\ UNCHANGED <<SHIFT, CAPS, ringVars>>

\* No key: ...
TryPopNone ==
    /\ reader.pc = "try" /\ ~has_key
    /\ reader' = [reader EXCEPT !.pc = "none"]
    /\ UNCHANGED <<kbd, SHIFT, CAPS, intr_on, ringVars>>

\* ... a byte of the serial line is returned instead, ...
ReadSerial ==
    /\ reader.pc = "none"
    /\ reader' = [reader EXCEPT !.pc = "user"]
    /\ Leave
    /\ UNCHANGED <<kbd, SHIFT, CAPS, ringVars>>

\* ... or the processor halts, even if a key came in since the test, ...
ReadHalt ==
    /\ reader.pc = "none"
    /\ reader' = [reader EXCEPT !.pc = "hlt"]
    /\ UNCHANGED <<kbd, SHIFT, CAPS, intr_on, ringVars>>

\* A plausible bug: the wake-up is missed when the key is already there.
ReadWake_NoRetry ==
    /\ reader.pc = "hlt" /\ intr_on /\ ~has_key
    /\ reader' = [reader EXCEPT !.pc = "try"]
    /\ UNCHANGED <<kbd, SHIFT, CAPS, intr_on, ringVars>>

\* ... until the next interrupt, at the latest the timer's, and tries again.
\* With interrupts off it halts for good.
ReadWake ==
    /\ reader.pc = "hlt" /\ intr_on
    /\ reader' = [reader EXCEPT !.pc = "try"]
    /\ UNCHANGED <<kbd, SHIFT, CAPS, intr_on, ringVars>>

KbdInit ==
    /\ kbd = EmptyRing(BUF_CAP) /\ SHIFT = FALSE /\ CAPS = FALSE
    /\ reader = [pc |-> "user", key |-> BlankCell] /\ intr_on = TRUE

KbdIrq == \E code \in ScanCodes : irq_handler_keyboard(code)
ReadStep == TryPop \/ TryPopStore \/ TryPopNone \/ ReadSerial \/ ReadHalt \/ ReadWake
KbdNext == KbdIrq \/ (\E entry \in Entries : ReadBegin(entry)) \/ ReadStep

-----------------------------------------------------------------------------
(* Correctness. *)

\* Keys are read in the order they were typed, each once, whatever arrives
\* between the steps of try_pop.
KeysInOrder ==
    /\ Contents(kbd, BUF_CAP) = kbd.owed
    /\ reader.pc = "store" => kbd.owed # <<>> /\ reader.key = Head(kbd.owed)

\* A program halted in a read it entered by int 0x80 gets on once there is
\* a key, also if the key came between the test and the halt.  One that came
\* by the syscall instruction never does.
KeyEndsRead == reader.pc = "hlt" /\ intr_on /\ has_key ~> reader.pc = "user"
=============================================================================
