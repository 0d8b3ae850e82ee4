--------------------------------- MODULE Window ---------------------------------
(***************************************************************************)
(* The borderless window: WindowControls of ui/win_controls.py under the   *)
(* window calls of ui/bridge.py. The page does not wait for one call       *)
(* before the next, every call runs on a thread of its own, and nothing    *)
(* locks the attributes they share.                                        *)
(***************************************************************************)
EXTENDS Integers, FiniteSets

CONSTANTS
    Callers,        \* threads of bridge calls
    Screen,         \* the bounds of the monitor
    Work,           \* its work area
    Placed,         \* where the user may put the window by its edges
    Points,         \* points <<x, y>> of the mouse
    RESIZE_MARGIN,
    WORD,           \* the coordinates of a message are cut modulo WORD
    MaxCalls        \* bound: calls in a behaviour

Rects == [left : Int, top : Int, width : Nat, height : Nat]

(* RECT(), what stands for a rectangle that was never saved. *)
Empty == [left |-> 0, top |-> 0, width |-> 0, height |-> 0]

Visible(r) == r.width > 0 /\ r.height > 0

ASSUME WindowAssumption ==
    /\ Screen \in Rects /\ Visible(Screen)
    /\ Work \in Rects /\ Visible(Work)
    /\ \A r \in Placed : r \in Rects /\ Visible(r)
    /\ Points \subseteq Int \X Int
    /\ RESIZE_MARGIN \in Nat
    /\ WORD \in Nat \ {0} /\ WORD % 2 = 0
    /\ MaxCalls \in Nat

VARIABLES
    bound,          \* the host window was found
    rect,           \* where the window is
    fullscreen, fs_normal,      \* _fullscreen, _fs_normal_rect
    maximized, max_normal,      \* _maximized, _max_normal_rect
    drag,           \* [on, dx, dy]: _dragging and the grab offset
    mouse,          \* where the mouse is
    vlc,            \* the player of a session in VLC mode, if there is one
    call,           \* per caller its step and its locals
    calls,          \* calls so far
    clashed         \* history: a toggle of fullscreen began during another, or unbound

windowVars == <<bound, rect, fullscreen, fs_normal, maximized, max_normal, drag,
                mouse, vlc, call, calls, clashed>>

NoCall == [pc |-> "idle", normal |-> Empty, value |-> FALSE, target |-> FALSE,
           to |-> <<0, 0>>]

WindowInit ==
    /\ bound = FALSE
    /\ rect \in Placed
    /\ fullscreen = FALSE /\ fs_normal = Empty
    /\ maximized = FALSE /\ max_normal = Empty
    /\ drag = [on |-> FALSE, dx |-> 0, dy |-> 0]
    /\ mouse \in Points
    /\ vlc = "absent"
    /\ call = [c \in Callers |-> NoCall]
    /\ calls = 0
    /\ clashed = FALSE

(* A step of a call changes the call, and what is listed beside it. *)
Goto(c, from, to) ==
    /\ call[c].pc = from
    /\ call' = [call EXCEPT ![c].pc = to]

Done(c, from) ==
    /\ call[c].pc = from
    /\ call' = [call EXCEPT ![c] = NoCall]

Keeps(vars) == UNCHANGED <<vars, bound, mouse, calls, clashed>>

-----------------------------------------------------------------------------
(* The calls of the page, and what happens to the window outside of it.    *)

Fullscreening(c) ==
    call[c].pc \in {"fs_test", "fs_read", "fs_keep", "fs_cover", "fs_load",
                    "fs_uncover", "fs_flip", "fs_store", "fs_mirror"}

Start(c, record) ==
    /\ call[c].pc = "idle"
    /\ calls < MaxCalls
    /\ calls' = calls + 1
    /\ call' = [call EXCEPT ![c] = record]
    /\ UNCHANGED <<bound, rect, fullscreen, fs_normal, maximized, max_normal, drag, mouse, vlc>>

(* window_toggle_fullscreen notes what VLC will be told. *)
ToggleFullscreen(c) ==
    /\ Start(c, [NoCall EXCEPT !.pc = "fs_test", !.target = ~fullscreen])
    /\ clashed' = (clashed \/ ~bound \/ \E b \in Callers : Fullscreening(b))

ToggleMaximize(c) ==
    Start(c, [NoCall EXCEPT !.pc = "mx_test"]) /\ UNCHANGED clashed

Drag(c) ==
    /\ \/ Start(c, [NoCall EXCEPT !.pc = "dr_start"])
       \/ Start(c, [NoCall EXCEPT !.pc = "dr_move", !.to = mouse])
       \/ Start(c, [NoCall EXCEPT !.pc = "dr_end"])
    /\ UNCHANGED clashed

Bind ==
    /\ ~bound
    /\ bound' = TRUE
    /\ UNCHANGED <<rect, fullscreen, fs_normal, maximized, max_normal, drag, mouse,
                   vlc, call, calls, clashed>>

MoveMouse(p) ==
    /\ p # mouse
    /\ mouse' = p
    /\ UNCHANGED <<bound, rect, fullscreen, fs_normal, maximized, max_normal, drag,
                   vlc, call, calls, clashed>>

(* The user resizes the window by an edge (external). *)
Resize(r) ==
    /\ r # rect
    /\ rect' = r
    /\ UNCHANGED <<bound, fullscreen, fs_normal, maximized, max_normal, drag, mouse,
                   vlc, call, calls, clashed>>

(* A session begins to play in VLC or is handed over to it, and is over:    *)
(* VLC opens a window of its own, which is not fullscreen.                 *)
VlcStarts ==
    /\ vlc = "absent"
    /\ vlc' = "untold"
    /\ UNCHANGED <<bound, rect, fullscreen, fs_normal, maximized, max_normal, drag,
                   mouse, call, calls, clashed>>

VlcEnds ==
    /\ vlc # "absent"
    /\ vlc' = "absent"
    /\ UNCHANGED <<bound, rect, fullscreen, fs_normal, maximized, max_normal, drag,
                   mouse, call, calls, clashed>>

(* Without a window a call does nothing; VLC is told all the same. *)
Unavailable(c) ==
    /\ ~bound
    /\ \/ Goto(c, "fs_test", "fs_mirror")
       \/ Done(c, "mx_test")
       \/ Done(c, "dr_start")
       \/ Done(c, "dr_move")
    /\ Keeps(<<rect, fullscreen, fs_normal, maximized, max_normal, drag, vlc>>)

-----------------------------------------------------------------------------
(* toggle_fullscreen: the flag is read for the branch and again to flip it. *)

TestFullscreen(c) ==
    /\ bound
    /\ Goto(c, "fs_test", IF fullscreen THEN "fs_load" ELSE "fs_read")
    /\ Keeps(<<rect, fullscreen, fs_normal, maximized, max_normal, drag, vlc>>)

(* _enter_fullscreen *)
ReadNormal(c) ==
    /\ call[c].pc = "fs_read"
    /\ call' = [call EXCEPT ![c].pc = "fs_keep", ![c].normal = rect]
    /\ Keeps(<<rect, fullscreen, fs_normal, maximized, max_normal, drag, vlc>>)

KeepNormal(c) ==
    /\ Goto(c, "fs_keep", "fs_cover")
    /\ fs_normal' = call[c].normal
    /\ Keeps(<<rect, fullscreen, maximized, max_normal, drag, vlc>>)

Cover(c) ==
    /\ Goto(c, "fs_cover", "fs_flip")
    /\ rect' = Screen
    /\ Keeps(<<fullscreen, fs_normal, maximized, max_normal, drag, vlc>>)

(* _exit_fullscreen *)
LoadNormal(c) ==
    /\ call[c].pc = "fs_load"
    /\ call' = [call EXCEPT ![c].pc = "fs_uncover", ![c].normal = fs_normal]
    /\ Keeps(<<rect, fullscreen, fs_normal, maximized, max_normal, drag, vlc>>)

Uncover(c) ==
    /\ Goto(c, "fs_uncover", "fs_flip")
    /\ rect' = call[c].normal
    /\ Keeps(<<fullscreen, fs_normal, maximized, max_normal, drag, vlc>>)

Flip(c) ==
    /\ call[c].pc = "fs_flip"
    /\ call' = [call EXCEPT ![c].pc = "fs_store", ![c].value = ~fullscreen]
    /\ Keeps(<<rect, fullscreen, fs_normal, maximized, max_normal, drag, vlc>>)

StoreFullscreen(c) ==
    /\ Goto(c, "fs_store", "fs_mirror")
    /\ fullscreen' = call[c].value
    /\ Keeps(<<rect, fs_normal, maximized, max_normal, drag, vlc>>)

(* Only a session in VLC mode that has a player is told. *)
Told(full) ==
    IF vlc = "absent" THEN vlc ELSE IF full THEN "fullscreen" ELSE "windowed"

(* Mutant: VLC is told the opposite of what the window is now. *)
MirrorAfter(c) ==
    /\ Done(c, "fs_mirror")
    /\ vlc' = Told(~fullscreen)
    /\ Keeps(<<rect, fullscreen, fs_normal, maximized, max_normal, drag>>)

(* _Session.set_fullscreen of the current session *)
Mirror(c) ==
    /\ Done(c, "fs_mirror")
    /\ vlc' = Told(call[c].target)
    /\ Keeps(<<rect, fullscreen, fs_normal, maximized, max_normal, drag>>)

FullscreenStep(c) ==
    \/ TestFullscreen(c) \/ ReadNormal(c) \/ KeepNormal(c) \/ Cover(c) \/ LoadNormal(c)
    \/ Uncover(c) \/ Flip(c) \/ StoreFullscreen(c) \/ Mirror(c)

-----------------------------------------------------------------------------
(* toggle_maximize: is_maximized wants the flag and the place.             *)

TestMaximized(c) ==
    /\ bound
    /\ Goto(c, "mx_test", IF maximized THEN "mx_compare" ELSE "mx_read")
    /\ Keeps(<<rect, fullscreen, fs_normal, maximized, max_normal, drag, vlc>>)

ComparePlace(c) ==
    /\ Goto(c, "mx_compare", IF rect = Work THEN "mx_load" ELSE "mx_read")
    /\ Keeps(<<rect, fullscreen, fs_normal, maximized, max_normal, drag, vlc>>)

(* Mutant: the flag is set before the place is kept. *)
ReadPlaceFlagged(c) ==
    /\ call[c].pc = "mx_read"
    /\ call' = [call EXCEPT ![c].pc = "mx_keep", ![c].normal = rect]
    /\ maximized' = TRUE
    /\ Keeps(<<rect, fullscreen, fs_normal, max_normal, drag, vlc>>)

(* maximize *)
ReadPlace(c) ==
    /\ call[c].pc = "mx_read"
    /\ call' = [call EXCEPT ![c].pc = "mx_keep", ![c].normal = rect]
    /\ Keeps(<<rect, fullscreen, fs_normal, maximized, max_normal, drag, vlc>>)

KeepPlace(c) ==
    /\ Goto(c, "mx_keep", "mx_fill")
    /\ max_normal' = call[c].normal
    /\ Keeps(<<rect, fullscreen, fs_normal, maximized, drag, vlc>>)

Fill(c) ==
    /\ Goto(c, "mx_fill", "mx_set")
    /\ rect' = Work
    /\ Keeps(<<fullscreen, fs_normal, maximized, max_normal, drag, vlc>>)

SetMaximized(c) ==
    /\ Done(c, "mx_set")
    /\ maximized' = TRUE
    /\ Keeps(<<rect, fullscreen, fs_normal, max_normal, drag, vlc>>)

(* restore *)
LoadPlace(c) ==
    /\ call[c].pc = "mx_load"
    /\ call' = [call EXCEPT ![c].pc = "mx_place", ![c].normal = max_normal]
    /\ Keeps(<<rect, fullscreen, fs_normal, maximized, max_normal, drag, vlc>>)

Restore(c) ==
    /\ Goto(c, "mx_place", "mx_clear")
    /\ rect' = call[c].normal
    /\ Keeps(<<fullscreen, fs_normal, maximized, max_normal, drag, vlc>>)

ClearMaximized(c) ==
    /\ Done(c, "mx_clear")
    /\ maximized' = FALSE
    /\ Keeps(<<rect, fullscreen, fs_normal, max_normal, drag, vlc>>)

MaximizeStep(c) ==
    \/ TestMaximized(c) \/ ComparePlace(c) \/ ReadPlace(c) \/ KeepPlace(c) \/ Fill(c)
    \/ SetMaximized(c) \/ LoadPlace(c) \/ Restore(c) \/ ClearMaximized(c)

-----------------------------------------------------------------------------
(* start_drag, drag_to and end_drag. start_drag reads the mouse where it   *)
(* is when the call runs, drag_to is given where it was.                   *)

StartDrag(c) ==
    /\ bound
    /\ Done(c, "dr_start")
    /\ drag' = [on |-> TRUE, dx |-> mouse[1] - rect.left, dy |-> mouse[2] - rect.top]
    /\ Keeps(<<rect, fullscreen, fs_normal, maximized, max_normal, vlc>>)

DragTo(c) ==
    /\ bound
    /\ Done(c, "dr_move")
    /\ rect' = IF drag.on
               THEN [rect EXCEPT !.left = call[c].to[1] - drag.dx,
                                 !.top  = call[c].to[2] - drag.dy]
               ELSE rect
    /\ Keeps(<<fullscreen, fs_normal, maximized, max_normal, drag, vlc>>)

EndDrag(c) ==
    /\ Done(c, "dr_end")
    /\ drag' = [drag EXCEPT !.on = FALSE]
    /\ Keeps(<<rect, fullscreen, fs_normal, maximized, max_normal, vlc>>)

DragStep(c) == StartDrag(c) \/ DragTo(c) \/ EndDrag(c)

-----------------------------------------------------------------------------
(* _hit_test: the zone of the window at a point of the screen, which comes *)
(* as two words in the two's complement of the message's coordinates.      *)

Signed(n) == IF n >= WORD \div 2 THEN n - WORD ELSE n

Packed(x, y) == (x % WORD) + WORD * (y % WORD)

(* HTNOWHERE *)
Outside == [x |-> "outside", y |-> "outside"]

(* Mutant: the margin is one short on the right and at the bottom. *)
SidesShort(r, x, y) ==
    [left   |-> x <= RESIZE_MARGIN, right  |-> x >= r.width - RESIZE_MARGIN,
     top    |-> y <= RESIZE_MARGIN, bottom |-> y >= r.height - RESIZE_MARGIN]

(* The sides that are near, x and y from the corner of the window. *)
Sides(r, x, y) ==
    [left   |-> x <= RESIZE_MARGIN, right  |-> x >= r.width - RESIZE_MARGIN - 1,
     top    |-> y <= RESIZE_MARGIN, bottom |-> y >= r.height - RESIZE_MARGIN - 1]

(* A zone is a side, a corner or neither (HTCLIENT): left and top go first. *)
Zone(r, x, y) ==
    LET near == Sides(r, x, y)
    IN  IF x < 0 \/ y < 0 \/ x >= r.width \/ y >= r.height THEN Outside
        ELSE [x |-> IF near.left THEN "left" ELSE IF near.right  THEN "right"  ELSE "middle",
              y |-> IF near.top  THEN "top"  ELSE IF near.bottom THEN "bottom" ELSE "middle"]

HitTest(r, lparam) ==
    Zone(r, Signed(lparam % WORD) - r.left, Signed((lparam \div WORD) % WORD) - r.top)

-----------------------------------------------------------------------------
(* The page makes no more calls. *)
Finished ==
    /\ calls = MaxCalls
    /\ \A c \in Callers : call[c].pc = "idle"
    /\ UNCHANGED windowVars

WindowNext ==
    \/ \E c \in Callers :
          \/ ToggleFullscreen(c) \/ ToggleMaximize(c) \/ Drag(c)
          \/ Unavailable(c) \/ FullscreenStep(c) \/ MaximizeStep(c) \/ DragStep(c)
    \/ Bind \/ VlcStarts \/ VlcEnds
    \/ \E p \in Points : MoveMouse(p)
    \/ \E r \in Placed : Resize(r)
    \/ Finished

WindowSpec == WindowInit /\ [][WindowNext]_windowVars

-----------------------------------------------------------------------------
(* Properties.                                                             *)

(* Whatever calls run at the same time, the window is never put back to a  *)
(* rectangle that was not saved ("or RECT()" in restore and                *)
(* _exit_fullscreen), where it would have no size and be gone.             *)
NeverVanishes == Visible(rect)

(* VLC that was told by a toggle is fullscreen exactly when the window is, *)
(* between the calls of window_toggle_fullscreen ("mirror it to VLC"),     *)
(* unless two of them have overlapped: VLC may start and end in the middle *)
(* of a toggle, and maximising and dragging meanwhile change nothing in it. *)
Alone == ~clashed /\ \A c \in Callers : ~Fullscreening(c)

Mirrored ==
    Alone /\ vlc \in {"windowed", "fullscreen"} => (vlc = "fullscreen" <=> fullscreen)

(* The same of VLC from its start: set_fullscreen is to "mirror the app's   *)
(* fullscreen to VLC when playing in VLC mode".                            *)
MirroredFromStart == Alone /\ vlc # "absent" => (vlc = "fullscreen" <=> fullscreen)

(* Opposite sides of a window resize it alike: as deep as the left side    *)
(* is, so is the right, and as the top, so the bottom, wherever a window   *)
(* can be, negative coordinates included (_hit_test: "so negative          *)
(* coordinates (monitors left/above the primary) work").                   *)
Wide(r) == r.width > 2 * RESIZE_MARGIN + 2 /\ r.height > 2 * RESIZE_MARGIN + 2

OnScreen(n) == -(WORD \div 2) <= n /\ n < WORD \div 2

At(r, i, j) == HitTest(r, Packed(r.left + i, r.top + j))

OppositeZones ==
    Wide(rect) =>
        \A i \in 0..(rect.width - 1), j \in 0..(rect.height - 1) :
            LET a == At(rect, i, j)
                b == At(rect, rect.width - 1 - i, rect.height - 1 - j)
            IN  /\ OnScreen(rect.left) /\ OnScreen(rect.left + rect.width - 1)
                /\ OnScreen(rect.top)  /\ OnScreen(rect.top + rect.height - 1)
                => /\ <<a.x, b.x>> \in {<<"left", "right">>, <<"right", "left">>,
                                        <<"middle", "middle">>}
                   /\ <<a.y, b.y>> \in {<<"top", "bottom">>, <<"bottom", "top">>,
                                        <<"middle", "middle">>}
                   /\ i <= RESIZE_MARGIN <=> a.x = "left"
=============================================================================
