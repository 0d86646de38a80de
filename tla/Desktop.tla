------------------------------- MODULE Desktop -------------------------------
(***************************************************************************)
(* The mouse (mouse.rs, irq_handler_mouse) and the windows it drags (wm.rs)*)
(* as far as clicks, drags and releases change state; drawing is left out. *)
(* Bytes arrive one per interrupt and are put together by three; one that  *)
(* is lost shifts all that follow until a first byte lacks its bit 3.      *)
(***************************************************************************)
EXTENDS InputRing

CONSTANTS
    Bytes,             \* the bytes the mouse sends
    ScreenW, ScreenH,  \* the framebuffer
    TaskbarH,          \* height of the task bar
    Windows,           \* the windows, the upper ones have the higher numbers
    WinW, WinH,        \* their size
    InitX, InitY,      \* their places at first, of each window
    TitleH, Border,    \* layout of a window
    BtnW,              \* side of the close button
    StartBtn,          \* the columns of MuStart in the task bar
    TaskBtn            \* the columns of each window's button there

ASSUME DesktopAssumption ==
    /\ Bytes \subseteq 0..255 /\ Windows \subseteq Nat
    /\ ScreenW \in Nat \ {0} /\ ScreenH \in Nat \ {0}
    /\ TaskbarH \in Nat /\ WinW \in Nat /\ WinH \in Nat
    /\ WinW <= ScreenW /\ WinH + TaskbarH <= ScreenH
    /\ InitX \in [Windows -> 0..(ScreenW - WinW)]
    /\ InitY \in [Windows -> 0..(ScreenH - TaskbarH - WinH)]

VARIABLES
    pkt,            \* PKT up to PKT_IDX
    mouse_x, mouse_y, prev_btn,
    win_x, win_y, win_vis,
    drag            \* DRAG_WIN, DRAG_OX and DRAG_OY, or NoDrag

mouseVars == <<pkt, mouse_x, mouse_y, prev_btn>>
winVars == <<win_x, win_y, win_vis, drag>>
desktopVars == <<mouseVars, winVars>>

NoDrag == [win |-> -1, ox |-> 0, oy |-> 0]

Bit(b, k) == (b \div 2^k) % 2 = 1
Low(a, b) == IF a < b THEN a ELSE b
Clamp(v, top) == Low(IF v < 0 THEN 0 ELSE v, top)

Inside(px, py, x, y, w, h) == px >= x /\ px < x + w /\ py >= y /\ py < y + h
OnWindow(i, cx, cy) == win_vis[i] /\ Inside(cx, cy, win_x[i], win_y[i], WinW, WinH)
OnClose(i, cx, cy) ==
    Inside(cx, cy, win_x[i] + WinW - (Border + BtnW + 1), win_y[i] + Border, BtnW, BtnW)
OnTitle(i, cx, cy) ==
    Inside(cx, cy, win_x[i] + Border, win_y[i] + Border, WinW - 2 * Border, TitleH)

\* The window a click hits: the last visible one that contains it.
Hit(cx, cy) == {i \in Windows : OnWindow(i, cx, cy)
                                /\ \A j \in Windows : j > i => ~OnWindow(j, cx, cy)}

\* on_click: what becomes of the windows and of the drag.
ClickTaskbar(cx) ==
    IF cx \in StartBtn
    THEN [vis |-> [i \in Windows |-> TRUE], x |-> InitX, y |-> InitY, drag |-> drag]
    ELSE [vis |-> [i \in Windows |-> win_vis[i] # (cx \in TaskBtn[i])],
          x |-> win_x, y |-> win_y, drag |-> drag]

ClickWindows(cx, cy) ==
    LET close == {i \in Hit(cx, cy) : OnClose(i, cx, cy)}
        title == {i \in Hit(cx, cy) \ close : OnTitle(i, cx, cy)}
    IN  [vis |-> [i \in Windows |-> win_vis[i] /\ i \notin close], x |-> win_x, y |-> win_y,
         drag |-> IF title = {} THEN drag
                  ELSE LET i == CHOOSE j \in title : TRUE
                       IN  [win |-> i, ox |-> cx - win_x[i], oy |-> cy - win_y[i]]]

on_click(cx, cy) == IF cy >= ScreenH - TaskbarH THEN ClickTaskbar(cx) ELSE ClickWindows(cx, cy)

\* on_drag, after a click of the same packet.
on_drag(s, x, y) ==
    IF s.drag = NoDrag THEN s
    ELSE [s EXCEPT !.x[s.drag.win] = Clamp(x - s.drag.ox, ScreenW - WinW),
                   !.y[s.drag.win] = Clamp(y - s.drag.oy, ScreenH - TaskbarH - WinH)]

Signed(negative, b) == IF negative THEN b - 256 ELSE b

\* The events of a packet, the click first.
MouseEvents(click, move) ==
    LET r == IF click THEN push_event(ring, "click") ELSE ring
    IN  IF move THEN push_event(r, "move") ELSE r

Standing == [vis |-> win_vis, x |-> win_x, y |-> win_y, drag |-> drag]

\* A plausible bug: releasing the button does not end the drag.
process_packet_NoRelease(b0, b1, b2) ==
    LET dx == Signed(Bit(b0, 4), b1)
        dy == Signed(Bit(b0, 5), b2)
        x == Clamp(mouse_x + dx, ScreenW - 1)
        y == Clamp(mouse_y - dy, ScreenH - 1)
        btn == Bit(b0, 0)
        clicked == IF btn /\ ~prev_btn THEN on_click(x, y) ELSE Standing
        moved == dx # 0 \/ dy # 0
        after == IF btn /\ moved THEN on_drag(clicked, x, y) ELSE clicked
    IN  /\ mouse_x' = x /\ mouse_y' = y /\ prev_btn' = btn
        /\ win_vis' = after.vis /\ win_x' = after.x /\ win_y' = after.y /\ drag' = after.drag
        /\ IrqPush(MouseEvents(btn /\ ~prev_btn, moved))

\* A packet without overflow bits.  Of the buttons only the left one counts.
process_packet(b0, b1, b2) ==
    LET dx == Signed(Bit(b0, 4), b1)
        dy == Signed(Bit(b0, 5), b2)
        x == Clamp(mouse_x + dx, ScreenW - 1)
        y == Clamp(mouse_y - dy, ScreenH - 1)
        btn == Bit(b0, 0)
        clicked == IF btn /\ ~prev_btn THEN on_click(x, y) ELSE Standing
        moved == dx # 0 \/ dy # 0
        after == IF btn /\ moved THEN on_drag(clicked, x, y) ELSE clicked
    IN  /\ mouse_x' = x /\ mouse_y' = y /\ prev_btn' = btn
        /\ win_vis' = after.vis /\ win_x' = after.x /\ win_y' = after.y
        /\ drag' = IF prev_btn /\ ~btn THEN NoDrag ELSE after.drag
        /\ IrqPush(MouseEvents(btn /\ ~prev_btn, moved))

Overflowed(b0) == Bit(b0, 6) \/ Bit(b0, 7)

\* irq_handler_mouse, handle_irq: the first byte of a packet must have bit 3.
CollectByte(b) ==
    /\ Len(pkt) < 2 /\ (pkt = <<>> => Bit(b, 3))
    /\ pkt' = Append(pkt, b)
    /\ UNCHANGED <<mouse_x, mouse_y, prev_btn, winVars, ringVars>>

CompletePacket(b) ==
    /\ Len(pkt) = 2 /\ ~Overflowed(pkt[1])
    /\ pkt' = <<>>
    /\ process_packet(pkt[1], pkt[2], b)

DropPacket ==
    /\ Len(pkt) = 2 /\ Overflowed(pkt[1])
    /\ pkt' = <<>>
    /\ UNCHANGED <<mouse_x, mouse_y, prev_btn, winVars, ringVars>>

DesktopInit ==
    /\ pkt = <<>> /\ prev_btn = FALSE
    /\ mouse_x = ScreenW \div 2 /\ mouse_y = ScreenH \div 2
    /\ win_x = InitX /\ win_y = InitY /\ win_vis = [i \in Windows |-> TRUE]
    /\ drag = NoDrag

DesktopNext == (\E b \in Bytes : CollectByte(b) \/ CompletePacket(b)) \/ DropPacket

-----------------------------------------------------------------------------
(* Correctness. *)

\* A window is dragged only while the driver takes the left button for
\* down, across dropped packets and bytes out of step, and it stays where
\* the pointer took hold of it, as far as the edges of the screen let it.
\* The button is the one of the last packet processed: a release inside a
\* dropped packet, or a byte of movement read as a first byte, makes it
\* differ from the button of the mouse.
DragFollowsPointer ==
    drag # NoDrag =>
        /\ prev_btn /\ win_vis[drag.win]
        /\ win_x[drag.win] = Clamp(mouse_x - drag.ox, ScreenW - WinW)
        /\ win_y[drag.win] = Clamp(mouse_y - drag.oy, ScreenH - TaskbarH - WinH)
=============================================================================
