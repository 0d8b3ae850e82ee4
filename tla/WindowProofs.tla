------------------------------ MODULE WindowProofs ------------------------------
(***************************************************************************)
(* Proofs about Window, for every number of calls and of callers at once,  *)
(* every monitor and every place of the window.                            *)
(***************************************************************************)
EXTENDS Window, TLAPS

Shown == {r \in Rects : Visible(r)}

Steps == {"idle", "fs_test", "fs_read", "fs_keep", "fs_cover", "fs_load", "fs_uncover",
          "fs_flip", "fs_store", "fs_mirror", "mx_test", "mx_compare", "mx_read",
          "mx_keep", "mx_fill", "mx_set", "mx_load", "mx_place", "mx_clear",
          "dr_start", "dr_move", "dr_end"}

Calls == [pc : Steps, normal : Rects, value : BOOLEAN, target : BOOLEAN, to : Int \X Int]

WindowTypes ==
    /\ rect \in Shown
    /\ bound \in BOOLEAN /\ clashed \in BOOLEAN
    /\ vlc \in {"absent", "untold", "windowed", "fullscreen"}
    /\ fullscreen \in BOOLEAN /\ fs_normal \in Rects
    /\ maximized \in BOOLEAN /\ max_normal \in Rects
    /\ drag \in [on : BOOLEAN, dx : Int, dy : Int]
    /\ mouse \in Int \X Int
    /\ call \in [Callers -> Calls]

(* The place was kept before anyone could see that it is needed. *)
Kept ==
    /\ fullscreen => fs_normal \in Shown
    /\ maximized => max_normal \in Shown
    /\ \A c \in Callers :
          /\ call[c].pc \in {"fs_keep", "fs_uncover", "mx_keep", "mx_place"} =>
                call[c].normal \in Shown
          /\ call[c].pc \in {"fs_cover", "fs_load", "fs_flip", "fs_store"} \cup {"fs_uncover"} =>
                fs_normal \in Shown
          /\ call[c].pc \in {"mx_fill", "mx_set", "mx_compare", "mx_load"} =>
                max_normal \in Shown

LEMMA ShownRects == Shown \subseteq Rects /\ Empty \in Rects
  BY DEF Shown, Rects, Empty

LEMMA GivenShown == Screen \in Shown /\ Work \in Shown /\ Placed \subseteq Shown
  BY WindowAssumption DEF Shown

LEMMA WindowStarts ==
  ASSUME WindowInit
  PROVE  WindowTypes /\ Kept
<1>1. NoCall \in Calls /\ NoCall.pc = "idle"
  BY ShownRects DEF NoCall, Calls, Steps
<1>2. mouse \in Int \X Int
  BY WindowAssumption DEF WindowInit
<1>3. /\ rect \in Shown /\ fs_normal \in Rects /\ max_normal \in Rects
      /\ call \in [Callers -> Calls] /\ \A c \in Callers : call[c].pc = "idle"
  BY <1>1, ShownRects, GivenShown DEF WindowInit
<1>4. WindowTypes
  <2>1. drag \in [on : BOOLEAN, dx : Int, dy : Int]
    BY DEF WindowInit
  <2>2. /\ bound \in BOOLEAN /\ clashed \in BOOLEAN
        /\ vlc \in {"absent", "untold", "windowed", "fullscreen"}
        /\ fullscreen \in BOOLEAN /\ maximized \in BOOLEAN
    BY DEF WindowInit
  <2> QED
    BY <1>2, <1>3, <2>1, <2>2 DEF WindowTypes
<1>5. Kept
  BY <1>3 DEF WindowInit, Kept
<1> QED
  BY <1>4, <1>5

(* A step that moves a call from one place to the next keeps the others. *)
LEMMA MovedCall ==
  ASSUME NEW c \in Callers, NEW from, NEW to \in Steps, WindowTypes, Goto(c, from, to)
  PROVE  /\ call' \in [Callers -> Calls]
         /\ call[c].pc = from /\ call'[c].pc = to
         /\ call'[c].normal = call[c].normal /\ call'[c].value = call[c].value
         /\ call'[c].target = call[c].target
         /\ \A b \in Callers : b # c => call'[b] = call[b]
  BY DEF Goto, WindowTypes, Calls

LEMMA EndedCall ==
  ASSUME NEW c \in Callers, NEW from, WindowTypes, Done(c, from)
  PROVE  /\ call' \in [Callers -> Calls]
         /\ call[c].pc = from /\ call'[c].pc = "idle"
         /\ \A b \in Callers : b # c => call'[b] = call[b]
<1>1. NoCall \in Calls /\ NoCall.pc = "idle"
  BY ShownRects DEF NoCall, Calls, Steps
<1> QED
  BY <1>1 DEF Done, WindowTypes

LEMMA StartedCall ==
  ASSUME NEW c \in Callers, NEW record \in Calls, WindowTypes, Start(c, record)
  PROVE  /\ call' \in [Callers -> Calls]
         /\ call[c].pc = "idle" /\ call'[c] = record
         /\ \A b \in Callers : b # c => call'[b] = call[b]
         /\ UNCHANGED <<bound, rect, fullscreen, fs_normal, maximized, max_normal, drag, mouse, vlc>>
  BY DEF Start, WindowTypes

(* The calls that begin, and what happens without a call. *)
LEMMA BeginsKept ==
  ASSUME WindowTypes, Kept, NEW c \in Callers,
         ToggleFullscreen(c) \/ ToggleMaximize(c) \/ Drag(c)
  PROVE  WindowTypes' /\ Kept'
<1>1. PICK record \in Calls :
         /\ record.pc \in {"fs_test", "mx_test", "dr_start", "dr_move", "dr_end"}
         /\ Start(c, record)
  <2> DEFINE full == [NoCall EXCEPT !.pc = "fs_test", !.target = ~fullscreen]
             maxi == [NoCall EXCEPT !.pc = "mx_test"]
             strt == [NoCall EXCEPT !.pc = "dr_start"]
             move == [NoCall EXCEPT !.pc = "dr_move", !.to = mouse]
             endd == [NoCall EXCEPT !.pc = "dr_end"]
  <2>1. /\ full \in Calls /\ full.pc = "fs_test"
        /\ maxi \in Calls /\ maxi.pc = "mx_test"
        /\ strt \in Calls /\ strt.pc = "dr_start"
        /\ move \in Calls /\ move.pc = "dr_move"
        /\ endd \in Calls /\ endd.pc = "dr_end"
    <3>1. /\ full = [NoCall EXCEPT !.pc = "fs_test", !.target = ~fullscreen]
          /\ maxi = [NoCall EXCEPT !.pc = "mx_test"]
          /\ strt = [NoCall EXCEPT !.pc = "dr_start"]
          /\ move = [NoCall EXCEPT !.pc = "dr_move", !.to = mouse]
          /\ endd = [NoCall EXCEPT !.pc = "dr_end"]
          /\ Empty \in Rects /\ mouse \in Int \X Int /\ <<0, 0>> \in Int \X Int
      BY ShownRects DEF WindowTypes
    <3>2. full \in Calls /\ full.pc = "fs_test"
      BY <3>1 DEF NoCall, Calls, Steps
    <3>3. maxi \in Calls /\ maxi.pc = "mx_test"
      BY <3>1 DEF NoCall, Calls, Steps
    <3>4. strt \in Calls /\ strt.pc = "dr_start"
      BY <3>1 DEF NoCall, Calls, Steps
    <3>5. move \in Calls /\ move.pc = "dr_move"
      BY <3>1 DEF NoCall, Calls, Steps
    <3>6. endd \in Calls /\ endd.pc = "dr_end"
      BY <3>1 DEF NoCall, Calls, Steps
    <3> QED
      BY <3>2, <3>3, <3>4, <3>5, <3>6
  <2>2. Start(c, full) \/ Start(c, maxi) \/ Start(c, strt) \/ Start(c, move) \/ Start(c, endd)
    BY DEF ToggleFullscreen, ToggleMaximize, Drag
  <2> QED
    BY <2>1, <2>2
<1>2. clashed' \in BOOLEAN
  BY DEF ToggleFullscreen, ToggleMaximize, Drag, WindowTypes
<1>3. /\ call' \in [Callers -> Calls]
      /\ call'[c] = record
      /\ \A b \in Callers : b # c => call'[b] = call[b]
      /\ UNCHANGED <<bound, rect, fullscreen, fs_normal, maximized, max_normal, drag, mouse, vlc>>
  BY <1>1, StartedCall
<1>4. WindowTypes'
  BY <1>2, <1>3 DEF WindowTypes
<1>5. Kept'
  BY <1>1, <1>3 DEF Kept
<1> QED
  BY <1>4, <1>5

LEMMA OutsideKept ==
  ASSUME WindowTypes, Kept,
         \/ Bind \/ VlcStarts \/ VlcEnds \/ Finished \/ UNCHANGED windowVars
         \/ \E p \in Points : MoveMouse(p)
         \/ \E r \in Placed : Resize(r)
  PROVE  WindowTypes' /\ Kept'
<1>1. CASE Bind \/ VlcStarts \/ VlcEnds
  <2>1. CASE Bind
    BY <2>1 DEF Bind, WindowTypes, Kept
  <2>2. CASE VlcStarts \/ VlcEnds
    BY <2>2 DEF VlcStarts, VlcEnds, WindowTypes, Kept
  <2> QED
    BY <1>1, <2>1, <2>2
<1>2. CASE Finished \/ UNCHANGED windowVars
  BY <1>2 DEF Finished, windowVars, WindowTypes, Kept
<1>3. ASSUME NEW p \in Points, MoveMouse(p)
      PROVE  WindowTypes' /\ Kept'
  BY <1>3, WindowAssumption DEF MoveMouse, WindowTypes, Kept
<1>4. ASSUME NEW r \in Placed, Resize(r)
      PROVE  WindowTypes' /\ Kept'
  BY <1>4, GivenShown DEF Resize, WindowTypes, Kept
<1> QED
  BY <1>1, <1>2, <1>3, <1>4

LEMMA UnavailableKept ==
  ASSUME WindowTypes, Kept, NEW c \in Callers, Unavailable(c)
  PROVE  WindowTypes' /\ Kept'
<1>1. UNCHANGED <<rect, fullscreen, fs_normal, maximized, max_normal, drag, vlc,
                  bound, mouse, calls, clashed>>
  BY DEF Unavailable, Keeps
<1>2. CASE Goto(c, "fs_test", "fs_mirror")
  BY <1>1, <1>2, MovedCall DEF Steps, WindowTypes, Kept
<1>3. ASSUME NEW from, Done(c, from)
      PROVE  WindowTypes' /\ Kept'
  BY <1>1, <1>3, EndedCall DEF WindowTypes, Kept
<1> QED
  BY <1>2, <1>3 DEF Unavailable

LEMMA FullscreenKept ==
  ASSUME WindowTypes, Kept, NEW c \in Callers, FullscreenStep(c)
  PROVE  WindowTypes' /\ Kept'
<1>1. CASE TestFullscreen(c)
  <2>1. PICK to \in {"fs_load", "fs_read"} :
           Goto(c, "fs_test", to) /\ (to = "fs_load" => fullscreen)
    BY <1>1 DEF TestFullscreen
  <2> QED
    BY <1>1, <2>1, MovedCall DEF TestFullscreen, Keeps, Steps, WindowTypes, Kept
<1>2. CASE ReadNormal(c)
  <2>1. rect \in Shown /\ rect \in Rects
    BY <1>2, ShownRects DEF ReadNormal, WindowTypes, Kept
  <2>2. "fs_keep" \in Steps /\ call' = [call EXCEPT ![c].pc = "fs_keep", ![c].normal = rect]
    BY <1>2 DEF ReadNormal, Steps
  <2>3. /\ call' \in [Callers -> Calls]
        /\ call'[c].pc = "fs_keep" /\ call'[c].normal = rect
        /\ \A b \in Callers : b # c => call'[b] = call[b]
    BY <2>1, <2>2, ZenonT(40) DEF WindowTypes, Calls
  <2> QED
    BY <1>2, <2>1, <2>3 DEF ReadNormal, Keeps, WindowTypes, Kept
<1>3. CASE KeepNormal(c)
  <2>1. call[c].normal \in Shown
    BY <1>3 DEF KeepNormal, Goto, Kept
  <2> QED
    BY <1>3, <2>1, MovedCall, ShownRects DEF KeepNormal, Keeps, Steps, WindowTypes, Kept
<1>4. CASE Cover(c)
  BY <1>4, MovedCall, GivenShown DEF Cover, Keeps, Steps, WindowTypes, Kept
<1>5. CASE LoadNormal(c)
  <2>1. fs_normal \in Shown /\ fs_normal \in Rects
    BY <1>5, ShownRects DEF LoadNormal, WindowTypes, Kept
  <2>2. "fs_uncover" \in Steps /\ call' = [call EXCEPT ![c].pc = "fs_uncover", ![c].normal = fs_normal]
    BY <1>5 DEF LoadNormal, Steps
  <2>3. /\ call' \in [Callers -> Calls]
        /\ call'[c].pc = "fs_uncover" /\ call'[c].normal = fs_normal
        /\ \A b \in Callers : b # c => call'[b] = call[b]
    BY <2>1, <2>2, ZenonT(40) DEF WindowTypes, Calls
  <2> QED
    BY <1>5, <2>1, <2>3 DEF LoadNormal, Keeps, WindowTypes, Kept
<1>6. CASE Uncover(c)
  <2>1. call[c].normal \in Shown
    BY <1>6 DEF Uncover, Goto, Kept
  <2> QED
    BY <1>6, <2>1, MovedCall DEF Uncover, Keeps, Steps, WindowTypes, Kept
<1>7. CASE Flip(c)
  <2>1. /\ call' \in [Callers -> Calls]
        /\ call'[c].pc = "fs_store" /\ call'[c].normal = call[c].normal
        /\ \A b \in Callers : b # c => call'[b] = call[b]
    <3>1. call \in [Callers -> Calls] /\ (~fullscreen) \in BOOLEAN /\ "fs_store" \in Steps
      BY DEF WindowTypes, Steps
    <3>2. call' = [call EXCEPT ![c].pc = "fs_store", ![c].value = ~fullscreen]
      BY <1>7 DEF Flip
    <3> QED
      BY <3>1, <3>2, ZenonT(40) DEF Calls
  <2> QED
    BY <1>7, <2>1 DEF Flip, Keeps, WindowTypes, Kept
<1>8. CASE StoreFullscreen(c)
  <2>1. fullscreen' \in BOOLEAN
    BY <1>8 DEF StoreFullscreen, WindowTypes, Calls
  <2>2. fs_normal \in Shown
    BY <1>8 DEF StoreFullscreen, Goto, Kept
  <2> QED
    BY <1>8, <2>1, <2>2, MovedCall DEF StoreFullscreen, Keeps, Steps, WindowTypes, Kept
<1>9. CASE Mirror(c)
  <2>1. vlc' \in {"absent", "untold", "windowed", "fullscreen"}
    BY <1>9 DEF Mirror, Told, WindowTypes, Calls
  <2> QED
    BY <1>9, <2>1, EndedCall DEF Mirror, Keeps, WindowTypes, Kept
<1> QED
  BY <1>1, <1>2, <1>3, <1>4, <1>5, <1>6, <1>7, <1>8, <1>9 DEF FullscreenStep

LEMMA MaximizeKept ==
  ASSUME WindowTypes, Kept, NEW c \in Callers, MaximizeStep(c)
  PROVE  WindowTypes' /\ Kept'
<1>1. CASE TestMaximized(c)
  <2>1. PICK to \in {"mx_compare", "mx_read"} :
           Goto(c, "mx_test", to) /\ (to = "mx_compare" => maximized)
    BY <1>1 DEF TestMaximized
  <2> QED
    BY <1>1, <2>1, MovedCall DEF TestMaximized, Keeps, Steps, WindowTypes, Kept
<1>2. CASE ComparePlace(c)
  <2>1. PICK to \in {"mx_load", "mx_read"} : Goto(c, "mx_compare", to)
    BY <1>2 DEF ComparePlace
  <2>2. max_normal \in Shown
    BY <1>2 DEF ComparePlace, Goto, Kept
  <2> QED
    BY <1>2, <2>1, <2>2, MovedCall DEF ComparePlace, Keeps, Steps, WindowTypes, Kept
<1>3. CASE ReadPlace(c)
  <2>1. rect \in Shown /\ rect \in Rects
    BY <1>3, ShownRects DEF ReadPlace, WindowTypes, Kept
  <2>2. "mx_keep" \in Steps /\ call' = [call EXCEPT ![c].pc = "mx_keep", ![c].normal = rect]
    BY <1>3 DEF ReadPlace, Steps
  <2>3. /\ call' \in [Callers -> Calls]
        /\ call'[c].pc = "mx_keep" /\ call'[c].normal = rect
        /\ \A b \in Callers : b # c => call'[b] = call[b]
    BY <2>1, <2>2, ZenonT(40) DEF WindowTypes, Calls
  <2> QED
    BY <1>3, <2>1, <2>3 DEF ReadPlace, Keeps, WindowTypes, Kept
<1>4. CASE KeepPlace(c)
  <2>1. call[c].normal \in Shown
    BY <1>4 DEF KeepPlace, Goto, Kept
  <2> QED
    BY <1>4, <2>1, MovedCall, ShownRects DEF KeepPlace, Keeps, Steps, WindowTypes, Kept
<1>5. CASE Fill(c)
  BY <1>5, MovedCall, GivenShown DEF Fill, Keeps, Steps, WindowTypes, Kept
<1>6. CASE SetMaximized(c)
  <2>1. max_normal \in Shown
    BY <1>6 DEF SetMaximized, Done, Kept
  <2> QED
    BY <1>6, <2>1, EndedCall DEF SetMaximized, Keeps, WindowTypes, Kept
<1>7. CASE LoadPlace(c)
  <2>1. max_normal \in Shown /\ max_normal \in Rects
    BY <1>7, ShownRects DEF LoadPlace, WindowTypes, Kept
  <2>2. "mx_place" \in Steps /\ call' = [call EXCEPT ![c].pc = "mx_place", ![c].normal = max_normal]
    BY <1>7 DEF LoadPlace, Steps
  <2>3. /\ call' \in [Callers -> Calls]
        /\ call'[c].pc = "mx_place" /\ call'[c].normal = max_normal
        /\ \A b \in Callers : b # c => call'[b] = call[b]
    BY <2>1, <2>2, ZenonT(40) DEF WindowTypes, Calls
  <2> QED
    BY <1>7, <2>1, <2>3 DEF LoadPlace, Keeps, WindowTypes, Kept
<1>8. CASE Restore(c)
  <2>1. call[c].normal \in Shown
    BY <1>8 DEF Restore, Goto, Kept
  <2> QED
    BY <1>8, <2>1, MovedCall DEF Restore, Keeps, Steps, WindowTypes, Kept
<1>9. CASE ClearMaximized(c)
  BY <1>9, EndedCall DEF ClearMaximized, Keeps, WindowTypes, Kept
<1> QED
  BY <1>1, <1>2, <1>3, <1>4, <1>5, <1>6, <1>7, <1>8, <1>9 DEF MaximizeStep

LEMMA DragKept ==
  ASSUME WindowTypes, Kept, NEW c \in Callers, DragStep(c)
  PROVE  WindowTypes' /\ Kept'
<1>1. CASE StartDrag(c)
  <2>1. drag' \in [on : BOOLEAN, dx : Int, dy : Int]
    BY <1>1 DEF StartDrag, WindowTypes, Shown, Rects
  <2> QED
    BY <1>1, <2>1, EndedCall DEF StartDrag, Keeps, WindowTypes, Kept
<1>2. CASE DragTo(c)
  <2>1. call[c].to[1] - drag.dx \in Int /\ call[c].to[2] - drag.dy \in Int
    BY DEF WindowTypes, Calls
  <2>2. rect' \in Shown
    BY <1>2, <2>1 DEF DragTo, WindowTypes, Shown, Rects, Visible
  <2> QED
    BY <1>2, <2>2, EndedCall DEF DragTo, Keeps, WindowTypes, Kept
<1>3. CASE EndDrag(c)
  <2>1. drag' \in [on : BOOLEAN, dx : Int, dy : Int]
    BY <1>3 DEF EndDrag, WindowTypes
  <2> QED
    BY <1>3, <2>1, EndedCall DEF EndDrag, Keeps, WindowTypes, Kept
<1> QED
  BY <1>1, <1>2, <1>3 DEF DragStep

LEMMA WindowStep ==
  ASSUME WindowTypes, Kept, [WindowNext]_windowVars
  PROVE  WindowTypes' /\ Kept'
  BY BeginsKept, OutsideKept, UnavailableKept, FullscreenKept, MaximizeKept, DragKept
     DEF WindowNext

(* The window never gets a rectangle without a size, however many calls    *)
(* of maximize, fullscreen and drag run at once (WindowControls).          *)
THEOREM AlwaysVisible == WindowSpec => []NeverVanishes
<1>1. WindowTypes /\ Kept => NeverVanishes
  BY DEF WindowTypes, Shown, NeverVanishes
<1> QED
  BY <1>1, WindowStarts, WindowStep, PTL DEF WindowSpec

-----------------------------------------------------------------------------
(* Without a clash one toggle is under way at most, and VLC is one step    *)
(* behind the window while it is.                                          *)
Follows == vlc \in {"windowed", "fullscreen"} => (vlc = "fullscreen" <=> fullscreen)

OneToggle ==
    ~clashed =>
        /\ \A c \in Callers : Fullscreening(c) =>
              /\ bound
              /\ \A b \in Callers : Fullscreening(b) => b = c
              /\ call[c].pc # "fs_mirror" => (call[c].target <=> ~fullscreen) /\ Follows
              /\ call[c].pc = "fs_store" => (call[c].value <=> ~fullscreen)
              /\ call[c].pc = "fs_mirror" => (call[c].target <=> fullscreen)
        /\ (\A c \in Callers : ~Fullscreening(c)) => Follows

(* What leaves the toggles, the flag and VLC alone keeps it. *)
LEMMA TogglesAlone ==
  ASSUME OneToggle, bound => bound',
         clashed' = clashed, fullscreen' = fullscreen,
         vlc' = vlc \/ vlc' \in {"absent", "untold"},
         \A b \in Callers : Fullscreening(b)' <=> Fullscreening(b),
         \A b \in Callers : Fullscreening(b) => call'[b] = call[b]
  PROVE  OneToggle'
  BY DEF OneToggle, Follows

(* A step of the toggle that neither flips the flag nor ends the call. *)
LEMMA ToggleGoesOn ==
  ASSUME OneToggle, WindowTypes, NEW c \in Callers, Fullscreening(c),
         call[c].pc # "fs_mirror",
         UNCHANGED <<bound, clashed, fullscreen, vlc>>,
         call'[c].pc \in {"fs_read", "fs_keep", "fs_cover", "fs_load", "fs_uncover", "fs_flip"},
         call'[c].target = call[c].target,
         \A b \in Callers : b # c => call'[b] = call[b]
  PROVE  OneToggle'
<1>1. Fullscreening(c)' /\ \A b \in Callers : b # c => (Fullscreening(b)' <=> Fullscreening(b))
  BY DEF Fullscreening
<1> QED
  BY <1>1 DEF OneToggle, Follows

LEMMA ToggleStep ==
  ASSUME OneToggle, WindowTypes, NEW c \in Callers, FullscreenStep(c)
  PROVE  OneToggle'
<1>1. CASE TestFullscreen(c)
  <2>1. PICK to \in {"fs_load", "fs_read"} : Goto(c, "fs_test", to)
    BY <1>1 DEF TestFullscreen
  <2> QED
    BY <1>1, <2>1, MovedCall, ToggleGoesOn DEF TestFullscreen, Keeps, Steps, Fullscreening
<1>2. CASE ReadNormal(c)
  <2>1. /\ call'[c].pc = "fs_keep" /\ call'[c].target = call[c].target
        /\ \A b \in Callers : b # c => call'[b] = call[b]
    BY <1>2 DEF ReadNormal, WindowTypes, Calls
  <2> QED
    BY <1>2, <2>1, ToggleGoesOn DEF ReadNormal, Keeps, Fullscreening
<1>3. CASE KeepNormal(c)
  BY <1>3, MovedCall, ToggleGoesOn DEF KeepNormal, Keeps, Steps, Fullscreening
<1>4. CASE Cover(c)
  BY <1>4, MovedCall, ToggleGoesOn DEF Cover, Keeps, Steps, Fullscreening
<1>5. CASE LoadNormal(c)
  <2>1. /\ call'[c].pc = "fs_uncover" /\ call'[c].target = call[c].target
        /\ \A b \in Callers : b # c => call'[b] = call[b]
    BY <1>5 DEF LoadNormal, WindowTypes, Calls
  <2> QED
    BY <1>5, <2>1, ToggleGoesOn DEF LoadNormal, Keeps, Fullscreening
<1>6. CASE Uncover(c)
  BY <1>6, MovedCall, ToggleGoesOn DEF Uncover, Keeps, Steps, Fullscreening
<1>7. CASE Flip(c)
  <2>1. /\ call[c].pc = "fs_flip"
        /\ call'[c].pc = "fs_store" /\ call'[c].target = call[c].target
        /\ (call'[c].value <=> ~fullscreen)
        /\ \A b \in Callers : b # c => call'[b] = call[b]
        /\ UNCHANGED <<bound, clashed, fullscreen, vlc>>
    BY <1>7 DEF Flip, Keeps, WindowTypes, Calls
  <2>2. Fullscreening(c) /\ \A b \in Callers : Fullscreening(b)' <=> Fullscreening(b)
    BY <2>1 DEF Fullscreening
  <2> QED
    BY <2>1, <2>2 DEF OneToggle, Follows
<1>8. CASE StoreFullscreen(c)
  <2>1. /\ call[c].pc = "fs_store" /\ call'[c].pc = "fs_mirror"
        /\ call'[c].target = call[c].target
        /\ \A b \in Callers : b # c => call'[b] = call[b]
    BY <1>8, MovedCall DEF StoreFullscreen, Steps
  <2>2. fullscreen' = call[c].value /\ UNCHANGED <<bound, clashed, vlc>>
    BY <1>8 DEF StoreFullscreen, Keeps
  <2>3. Fullscreening(c) /\ \A b \in Callers : Fullscreening(b)' <=> Fullscreening(b)
    BY <2>1 DEF Fullscreening
  <2> QED
    BY <2>1, <2>2, <2>3 DEF OneToggle, Follows
<1>9. CASE Mirror(c)
  <2>1. /\ call[c].pc = "fs_mirror" /\ call'[c].pc = "idle"
        /\ \A b \in Callers : b # c => call'[b] = call[b]
    BY <1>9, EndedCall DEF Mirror
  <2>2. vlc' = Told(call[c].target) /\ UNCHANGED <<bound, clashed, fullscreen>>
    BY <1>9 DEF Mirror, Keeps
  <2>3. /\ Fullscreening(c) /\ ~Fullscreening(c)'
        /\ \A b \in Callers : b # c => (Fullscreening(b)' <=> Fullscreening(b))
    BY <2>1 DEF Fullscreening
  <2>4. ~clashed => Follows'
    BY <2>1, <2>2, <2>3 DEF OneToggle, Follows, Told
  <2> QED
    BY <2>1, <2>2, <2>3, <2>4 DEF OneToggle
<1> QED
  BY <1>1, <1>2, <1>3, <1>4, <1>5, <1>6, <1>7, <1>8, <1>9 DEF FullscreenStep

LEMMA ToggleBegins ==
  ASSUME OneToggle, WindowTypes, NEW c \in Callers, ToggleFullscreen(c)
  PROVE  OneToggle'
<1> DEFINE record == [NoCall EXCEPT !.pc = "fs_test", !.target = ~fullscreen]
<1>1. record \in Calls /\ record.pc = "fs_test"
  <2>1. NoCall \in Calls /\ (~fullscreen) \in BOOLEAN /\ "fs_test" \in Steps
    BY ShownRects DEF NoCall, Calls, Steps
  <2> QED
    BY <2>1 DEF Calls
<1>2. record.target = ~fullscreen
  BY DEF NoCall
<1>3. Start(c, record) /\ clashed' = (clashed \/ ~bound \/ \E b \in Callers : Fullscreening(b))
  BY DEF ToggleFullscreen
<1> HIDE DEF record
<1>4. /\ call[c].pc = "idle" /\ call'[c] = record
      /\ \A b \in Callers : b # c => call'[b] = call[b]
      /\ UNCHANGED <<bound, fullscreen, vlc>>
  BY <1>1, <1>3, StartedCall
<1>5. /\ ~Fullscreening(c) /\ Fullscreening(c)'
      /\ \A b \in Callers : b # c => (Fullscreening(b)' <=> Fullscreening(b))
  BY <1>1, <1>4 DEF Fullscreening
<1>6. SUFFICES ASSUME ~clashed' PROVE OneToggle'
  BY DEF OneToggle
<1>7. ~clashed /\ bound /\ \A b \in Callers : ~Fullscreening(b)
  BY <1>3, <1>6
<1>8. Follows
  BY <1>7 DEF OneToggle
<1> QED
  <2>1. call'[c].pc = "fs_test" /\ (call'[c].target <=> ~fullscreen)
    BY <1>1, <1>2, <1>4
  <2> QED
    BY <1>4, <1>5, <1>7, <1>8, <2>1 DEF OneToggle, Follows

(* VLC that a toggle has told is fullscreen exactly when the window is, for *)
(* every number of callers and whenever it starts and ends                 *)
(* (bridge.window_toggle_fullscreen, _Session.set_fullscreen).             *)
THEOREM VlcFollows == WindowSpec => []Mirrored
<1>1. WindowInit => OneToggle
  <2>1. NoCall.pc = "idle"
    BY DEF NoCall
  <2> QED
    BY <2>1 DEF WindowInit, OneToggle, Follows, Fullscreening
<1>2. ASSUME WindowTypes, OneToggle, [WindowNext]_windowVars
      PROVE  OneToggle'
  <2> USE <1>2
  <2>1. ASSUME NEW c \in Callers, ToggleMaximize(c) \/ Drag(c)
        PROVE  OneToggle'
    <3>1. /\ call[c].pc = "idle"
          /\ call'[c].pc \in {"mx_test", "dr_start", "dr_move", "dr_end"}
          /\ \A b \in Callers : b # c => call'[b] = call[b]
          /\ UNCHANGED <<bound, fullscreen, vlc, clashed>>
      BY <2>1, ZenonT(40) DEF ToggleMaximize, Drag, Start, NoCall, WindowTypes
    <3>2. ~Fullscreening(c) /\ \A b \in Callers : Fullscreening(b)' <=> Fullscreening(b)
      BY <3>1 DEF Fullscreening
    <3> QED
      BY <3>1, <3>2, TogglesAlone
  <2>2. ASSUME NEW c \in Callers, Unavailable(c)
        PROVE  OneToggle'
    <3>1. ~bound /\ UNCHANGED <<bound, fullscreen, vlc, clashed>>
      BY <2>2 DEF Unavailable, Keeps
    <3>2. CASE Goto(c, "fs_test", "fs_mirror")
      <4>1. Fullscreening(c)
        BY <3>2 DEF Goto, Fullscreening
      <4> QED
        BY <3>1, <4>1 DEF OneToggle
    <3>3. ASSUME NEW from \in {"mx_test", "dr_start", "dr_move"}, Done(c, from)
          PROVE  OneToggle'
      <4>1. /\ call[c].pc = from /\ call'[c].pc = "idle"
            /\ \A b \in Callers : b # c => call'[b] = call[b]
        BY <3>3, EndedCall
      <4>2. ~Fullscreening(c) /\ \A b \in Callers : Fullscreening(b)' <=> Fullscreening(b)
        BY <4>1 DEF Fullscreening
      <4> QED
        BY <3>1, <4>1, <4>2, TogglesAlone
    <3> QED
      BY <2>2, <3>2, <3>3 DEF Unavailable
  <2>3. ASSUME NEW c \in Callers, MaximizeStep(c) \/ DragStep(c)
        PROVE  OneToggle'
    <3>1. UNCHANGED <<bound, fullscreen, vlc, clashed>>
      BY <2>3 DEF MaximizeStep, TestMaximized, ComparePlace, ReadPlace, KeepPlace, Fill,
                  SetMaximized, LoadPlace, Restore, ClearMaximized, DragStep, StartDrag,
                  DragTo, EndDrag, Keeps
    <3>2. /\ call[c].pc \in {"mx_test", "mx_compare", "mx_read", "mx_keep", "mx_fill", "mx_set",
                             "mx_load", "mx_place", "mx_clear", "dr_start", "dr_move", "dr_end"}
          /\ call'[c].pc \in {"mx_compare", "mx_read", "mx_keep", "mx_fill", "mx_set", "mx_load",
                              "mx_place", "mx_clear", "idle"}
          /\ \A b \in Callers : b # c => call'[b] = call[b]
      <4>1. NoCall.pc = "idle"
        BY DEF NoCall
      <4> QED
        BY <2>3, <4>1 DEF MaximizeStep, TestMaximized, ComparePlace, ReadPlace, KeepPlace, Fill,
                  SetMaximized, LoadPlace, Restore, ClearMaximized, DragStep, StartDrag,
                  DragTo, EndDrag, Goto, Done, WindowTypes, Calls
    <3>3. ~Fullscreening(c) /\ \A b \in Callers : Fullscreening(b)' <=> Fullscreening(b)
      BY <3>2 DEF Fullscreening
    <3> QED
      BY <3>1, <3>2, <3>3, TogglesAlone
  <2>4. ASSUME \/ Bind \/ VlcStarts \/ VlcEnds \/ Finished \/ UNCHANGED windowVars
               \/ \E p \in Points : MoveMouse(p)
               \/ \E r \in Placed : Resize(r)
        PROVE  OneToggle'
    <3>1. /\ (bound => bound') /\ UNCHANGED <<call, fullscreen, clashed>>
          /\ vlc' = vlc \/ vlc' \in {"absent", "untold"}
      BY <2>4 DEF Bind, VlcStarts, VlcEnds, Finished, windowVars, MoveMouse, Resize
    <3>2. \A b \in Callers : Fullscreening(b)' <=> Fullscreening(b)
      BY <3>1 DEF Fullscreening
    <3> QED
      BY <3>1, <3>2, TogglesAlone
  <2> QED
    BY <2>1, <2>2, <2>3, <2>4, ToggleBegins, ToggleStep DEF WindowNext
<1>3. OneToggle => Mirrored
  BY DEF OneToggle, Follows, Mirrored, Alone
<1>4. WindowSpec => [](WindowTypes /\ Kept)
  BY WindowStarts, WindowStep, PTL DEF WindowSpec
<1> QED
  BY <1>1, <1>2, <1>3, <1>4, PTL DEF WindowSpec

-----------------------------------------------------------------------------
(* The coordinates of a message, and the zones of the window.              *)

LEMMA Divided ==
  ASSUME NEW q \in Int, NEW b \in Nat \ {0}, NEW m \in 0..(b - 1)
  PROVE  (b * q + m) \div b = q /\ (b * q + m) % b = m
OBVIOUS

(* A coordinate is what its word says: the cut is undone by the sign. *)
LEMMA WordSigned ==
  ASSUME NEW n \in Int, OnScreen(n)
  PROVE  n % WORD \in 0..(WORD - 1) /\ Signed(n % WORD) = n
<1>1. WORD \in Nat \ {0} /\ WORD = 2 * (WORD \div 2) /\ WORD \div 2 \in Nat
  BY WindowAssumption
<1> DEFINE half == WORD \div 2
<1>2. -half <= n /\ n < half
  BY DEF OnScreen
<1> HIDE DEF half
<1>3. CASE n >= 0
  <2>1. n \in 0..(WORD - 1) /\ n = WORD * 0 + n
    BY <1>1, <1>2, <1>3 DEF half
  <2>2. n % WORD = n
    BY <1>1, <2>1, Divided
  <2>3. Signed(n) = n
    BY <1>1, <1>2 DEF Signed, half
  <2> QED
    BY <2>1, <2>2, <2>3
<1>4. CASE n < 0
  <2>1. n + WORD \in 0..(WORD - 1) /\ n = WORD * (-1) + (n + WORD)
    BY <1>1, <1>2, <1>4 DEF half
  <2>2. n % WORD = n + WORD
    BY <1>1, <2>1, Divided
  <2>3. Signed(n + WORD) = n
    BY <1>1, <1>2, <1>4 DEF Signed, half
  <2> QED
    BY <2>1, <2>2, <2>3
<1> QED
  BY <1>3, <1>4

(* The point of a message is the point that was packed. *)
LEMMA PointKept ==
  ASSUME NEW x \in Int, NEW y \in Int, OnScreen(x), OnScreen(y)
  PROVE  /\ Signed(Packed(x, y) % WORD) = x
         /\ Signed((Packed(x, y) \div WORD) % WORD) = y
<1> DEFINE a == x % WORD
           b == y % WORD
<1>1. WORD \in Nat \ {0}
  BY WindowAssumption
<1>2. a \in 0..(WORD - 1) /\ Signed(a) = x
  BY WordSigned
<1>3. b \in 0..(WORD - 1) /\ Signed(b) = y
  BY WordSigned
<1>4. Packed(x, y) = a + WORD * b
  BY DEF Packed
<1> HIDE DEF a, b
<1>5. Packed(x, y) = WORD * b + a
  BY <1>1, <1>2, <1>3, <1>4
<1>6. Packed(x, y) \div WORD = b /\ Packed(x, y) % WORD = a
  <2>1. b \in Int
    BY <1>3
  <2> QED
    BY <1>1, <1>2, <1>5, <2>1, Divided
<1>7. b % WORD = b
  <2>1. b = WORD * 0 + b
    BY <1>1, <1>3
  <2> QED
    BY <1>1, <1>3, <2>1, Divided
<1> QED
  BY <1>2, <1>3, <1>6, <1>7

(* So a point of the window, x and y from its corner, is in its zone. *)
LEMMA ZoneAt ==
  ASSUME NEW r \in Rects, NEW i \in 0..(r.width - 1), NEW j \in 0..(r.height - 1),
         OnScreen(r.left), OnScreen(r.left + r.width - 1),
         OnScreen(r.top), OnScreen(r.top + r.height - 1)
  PROVE  At(r, i, j) = Zone(r, i, j)
<1> DEFINE x == r.left + i
           y == r.top + j
<1>1. r.left \in Int /\ r.top \in Int /\ r.width \in Nat /\ r.height \in Nat
  BY DEF Rects
<1>2. x \in Int /\ y \in Int /\ x - r.left = i /\ y - r.top = j
  BY <1>1
<1>3. OnScreen(x) /\ OnScreen(y)
  <2>1. WORD \div 2 \in Int
    BY WindowAssumption
  <2> QED
    BY <1>1, <2>1 DEF OnScreen
<1>4. At(r, i, j) = HitTest(r, Packed(x, y))
  BY DEF At
<1> HIDE DEF x, y
<1>5. HitTest(r, Packed(x, y)) = Zone(r, x - r.left, y - r.top)
  BY <1>2, <1>3, PointKept DEF HitTest
<1> QED
  BY <1>2, <1>4, <1>5

(* Inside the window the zone goes by the sides that are near. *)
LEMMA ZoneInside ==
  ASSUME NEW r \in Rects, NEW i \in 0..(r.width - 1), NEW j \in 0..(r.height - 1)
  PROVE  /\ Zone(r, i, j).x = IF i <= RESIZE_MARGIN THEN "left"
                              ELSE IF i >= r.width - RESIZE_MARGIN - 1 THEN "right"
                              ELSE "middle"
         /\ Zone(r, i, j).y = IF j <= RESIZE_MARGIN THEN "top"
                              ELSE IF j >= r.height - RESIZE_MARGIN - 1 THEN "bottom"
                              ELSE "middle"
<1> DEFINE near == Sides(r, i, j)
           across == IF near.left THEN "left" ELSE IF near.right  THEN "right"  ELSE "middle"
           down == IF near.top  THEN "top"  ELSE IF near.bottom THEN "bottom" ELSE "middle"
<1>1. ~(i < 0 \/ j < 0 \/ i >= r.width \/ j >= r.height)
  BY DEF Rects
<1>2. Zone(r, i, j) = [x |-> across, y |-> down]
  BY <1>1 DEF Zone
<1>3. /\ near.left <=> i <= RESIZE_MARGIN
      /\ near.right <=> i >= r.width - RESIZE_MARGIN - 1
      /\ near.top <=> j <= RESIZE_MARGIN
      /\ near.bottom <=> j >= r.height - RESIZE_MARGIN - 1
  BY DEF Sides
<1> HIDE DEF near
<1>4. Zone(r, i, j).x = across /\ Zone(r, i, j).y = down
  BY <1>2
<1> QED
  BY <1>3, <1>4

(* Opposite sides resize the window alike, whatever its place, its size,   *)
(* the margin and the width of the words (_hit_test).                      *)
THEOREM ZonesOpposite == WindowSpec => []OppositeZones
<1>1. WindowTypes => OppositeZones
  <2> SUFFICES ASSUME rect \in Rects, Wide(rect),
                      NEW i \in 0..(rect.width - 1), NEW j \in 0..(rect.height - 1),
                      OnScreen(rect.left), OnScreen(rect.left + rect.width - 1),
                      OnScreen(rect.top), OnScreen(rect.top + rect.height - 1)
               PROVE  LET a == At(rect, i, j)
                          b == At(rect, rect.width - 1 - i, rect.height - 1 - j)
                      IN  /\ <<a.x, b.x>> \in {<<"left", "right">>, <<"right", "left">>,
                                               <<"middle", "middle">>}
                          /\ <<a.y, b.y>> \in {<<"top", "bottom">>, <<"bottom", "top">>,
                                               <<"middle", "middle">>}
                          /\ i <= RESIZE_MARGIN <=> a.x = "left"
    BY ShownRects DEF WindowTypes, OppositeZones
  <2> DEFINE w == rect.width
             h == rect.height
             k == w - 1 - i
             l == h - 1 - j
  <2>1. /\ w \in Nat /\ h \in Nat /\ RESIZE_MARGIN \in Nat
        /\ w > 2 * RESIZE_MARGIN + 2 /\ h > 2 * RESIZE_MARGIN + 2
    BY WindowAssumption DEF Rects, Wide
  <2>2. k \in 0..(w - 1) /\ l \in 0..(h - 1)
    BY <2>1
  <2>3. At(rect, i, j) = Zone(rect, i, j) /\ At(rect, k, l) = Zone(rect, k, l)
    BY <2>2, ZoneAt
  <2>4. /\ Zone(rect, i, j).x = IF i <= RESIZE_MARGIN THEN "left"
                                ELSE IF i >= w - RESIZE_MARGIN - 1 THEN "right"
                                ELSE "middle"
        /\ Zone(rect, i, j).y = IF j <= RESIZE_MARGIN THEN "top"
                                ELSE IF j >= h - RESIZE_MARGIN - 1 THEN "bottom"
                                ELSE "middle"
    BY ZoneInside
  <2>5. /\ Zone(rect, k, l).x = IF k <= RESIZE_MARGIN THEN "left"
                                ELSE IF k >= w - RESIZE_MARGIN - 1 THEN "right"
                                ELSE "middle"
        /\ Zone(rect, k, l).y = IF l <= RESIZE_MARGIN THEN "top"
                                ELSE IF l >= h - RESIZE_MARGIN - 1 THEN "bottom"
                                ELSE "middle"
    BY <2>2, ZoneInside
  <2>6. /\ k <= RESIZE_MARGIN <=> i >= w - RESIZE_MARGIN - 1
        /\ k >= w - RESIZE_MARGIN - 1 <=> i <= RESIZE_MARGIN
        /\ l <= RESIZE_MARGIN <=> j >= h - RESIZE_MARGIN - 1
        /\ l >= h - RESIZE_MARGIN - 1 <=> j <= RESIZE_MARGIN
        /\ i <= RESIZE_MARGIN => ~(i >= w - RESIZE_MARGIN - 1)
        /\ j <= RESIZE_MARGIN => ~(j >= h - RESIZE_MARGIN - 1)
    BY <2>1
  <2> HIDE DEF k, l
  <2> QED
    BY <2>3, <2>4, <2>5, <2>6 DEF k, l
<1> QED
  BY <1>1, WindowStarts, WindowStep, PTL DEF WindowSpec
=============================================================================
