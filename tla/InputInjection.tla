--------------------------- MODULE InputInjection ---------------------------
(***************************************************************************)
(* What the host makes of a viewer's input events: the zoom remap of       *)
(* host.rs, and the backends of crates/input that press keys and buttons   *)
(* and place the pointer (uinput, XTEST and macOS), with the crop that the *)
(* encode thread shows of the same screen (crates/codec/src/scale.rs).     *)
(*                                                                         *)
(* One axis stands for both.  A coordinate counts in parts of the screen:  *)
(* the viewer's and the zoom's in 1/Unit, the remapped one in 1/Unit^2.    *)
(* The codes of the keymap are the keys themselves.  Scrolling keeps no    *)
(* state and is left out, and so is which backend is tried first.          *)
(***************************************************************************)
EXTENDS Integers

CONSTANTS
    Backends,   \* of "uinput", "xtest", "mac"
    Keys, Buttons, Modifiers,
    Unit,       \* the grain of coordinates
    Width,      \* of the captured frame, in pixels
    AbsMax,     \* ABS_MAX
    EmitFails,  \* whether the system may refuse an event
    Rects       \* monitor rectangles, as [o, m, d]: origin and size of the output, size of the desktop

VARIABLES
    backend, rect,
    zoom,       \* the crop rectangle, [x, w]
    tracked,    \* pressed, pressed_keys and pressed_buttons, or left_down and its siblings
    held,       \* what the host's system holds down
    last,       \* last_x, or where the backend was last told to put the pointer
    seen        \* the last event the system saw, and what the viewer meant by it

vars == <<backend, rect, zoom, tracked, held, last, seen>>

Full == [x |-> 0, w |-> Unit]
One == Unit * Unit
AtMost(a, b) == IF a > b THEN b ELSE a
Clamp(v, lo, hi) == IF v < lo THEN lo ELSE AtMost(v, hi)

NoEvent == [what |-> "none", meant |-> 0, mods |-> {}, wanted |-> {}]

Init ==
    /\ backend \in Backends /\ rect \in Rects
    /\ zoom = Full
    /\ tracked = {} /\ held = {}
    /\ last = AbsMax \div 2
    /\ seen = NoEvent

-----------------------------------------------------------------------------
(* Zoom: the same rectangle crops the picture and remaps the pointer          *)

\* A degenerate or full rectangle is no zoom; another is moved onto the screen.
Sanitized(r) ==
    LET w == Clamp(r.w, 0, Unit)
    IN IF w = 0 \/ w = Unit THEN Full ELSE [x |-> Clamp(r.x, 0, Unit - w), w |-> w]

Rounded(n, d) == (2 * n + d) \div (2 * d)

\* The source pixels crop_scale packs: rounded, in bounds and at least one.
Crop(r) ==
    LET at == AtMost(Rounded(r.x * Width, Unit), Width - 1)
        n  == Rounded(r.w * Width, Unit)
    IN [at |-> at, n |-> AtMost(IF n < 1 THEN 1 ELSE n, Width - at)]

\* screen = crop.origin + coord * crop.size
Remap(u) == zoom.x * Unit + u * zoom.w

SetZoom(r) ==
    /\ zoom' = Sanitized(r)
    /\ seen' = NoEvent
    /\ UNCHANGED <<backend, rect, tracked, held, last>>

-----------------------------------------------------------------------------
(* Where the pointer goes, in the backend's own coordinates                    *)

\* uinput maps onto the captured output's part of the desktop; the others span it all.
Place(n) ==
    IF backend = "uinput"
      THEN ((rect.o * One + Clamp(n, 0, One) * rect.m) * AbsMax) \div (rect.d * One)
      ELSE (n * AbsMax) \div One

\* On uinput an exact zero of a button event is no position: the last one is kept.
ButtonPlace(n) == IF backend = "uinput" /\ n = 0 THEN last ELSE Place(n)

Sees(what, meant, mods, wanted) ==
    seen' = [what |-> what, meant |-> meant, mods |-> mods, wanted |-> wanted]

\* A refused event is only logged.
Refused == EmitFails /\ UNCHANGED held /\ seen' = NoEvent

Move(u) ==
    /\ last' = Place(Remap(u))
    /\ (Sees("move", u, {}, {}) /\ UNCHANGED held) \/ Refused
    /\ UNCHANGED <<backend, rect, zoom, tracked>>

TrackMutant(code, down) == IF down /\ code \in Keys THEN tracked \cup {code} ELSE tracked \ {code}   \* mutant: keys only
Track(code, down) == IF down THEN tracked \cup {code} ELSE tracked \ {code}
Holds(code, down) == held' = (IF down THEN held \cup {code} ELSE held \ {code})

\* Tracked before it is sent, and whether or not that succeeds; XTEST moves the pointer
\* first, and stops where that fails.
MouseButton(b, down, u) ==
    /\ last' = ButtonPlace(Remap(u))
    /\ \/ /\ tracked' = Track(b, down)
          /\ (Holds(b, down) /\ Sees("button", u, {}, {})) \/ Refused
       \/ backend = "xtest" /\ Refused /\ UNCHANGED tracked
    /\ UNCHANGED <<backend, rect, zoom>>

\* Only macOS sets the event's modifiers, and it keeps no keys.
Key(k, down, mods) ==
    /\ tracked' = IF backend = "mac" THEN tracked ELSE Track(k, down)
    /\ \/ /\ Holds(k, down)
          /\ Sees("key", 0, IF backend = "mac" THEN mods ELSE held \cap Modifiers, mods)
       \/ Refused
    /\ UNCHANGED <<backend, rect, zoom, last>>

\* Ups for whatever is tracked, which is forgotten even if they are refused; macOS has the
\* default, which does nothing.
ReleaseAll ==
    /\ IF backend = "mac" THEN UNCHANGED <<tracked, held>>
       ELSE /\ held' = held \ tracked \/ (EmitFails /\ UNCHANGED held)
            /\ tracked' = {}
    /\ seen' = [NoEvent EXCEPT !.what = "released"]
    /\ UNCHANGED <<backend, rect, zoom, last>>

Coordinates == -1 .. Unit + 1

Next ==
    \/ \E x \in Coordinates, w \in Coordinates : SetZoom([x |-> x, w |-> w])
    \/ \E u \in Coordinates : Move(u)
    \/ \E b \in Buttons, down \in BOOLEAN, u \in Coordinates : MouseButton(b, down, u)
    \/ \E k \in Keys, down \in BOOLEAN, mods \in SUBSET Modifiers : Key(k, down, mods)
    \/ ReleaseAll

Spec == Init /\ [][Next]_vars

-----------------------------------------------------------------------------

\* "A key or button that was down at disconnect can't leak into the next session":
\* release_all leaves nothing down.  Does not hold where the system may refuse an event,
\* nor on macOS.
NothingLeaks == seen.what = "released" => held = {}

OnTheOutput(p) ==
    /\ p >= (rect.o * AbsMax) \div rect.d
    /\ p <= ((rect.o + rect.m) * AbsMax) \div rect.d

\* However wild the coordinate, and whatever the zoom, the pointer is put on the output
\* that is captured, but for a button without a position, which may find it where the
\* device starts.
StaysOnTheOutput ==
    seen.what \in {"move", "button"} /\ backend = "uinput" =>
        OnTheOutput(last) \/ (seen.what = "button" /\ last = AbsMax \div 2)

\* Does not hold of the code: last_x is the "last absolute position emitted".  Before any
\* it is the middle of the desktop, where the first button without a position is pressed,
\* whatever output is captured.
NoPositionIsTheLast ==
    seen.what \in {"move", "button"} /\ backend = "uinput" => OnTheOutput(last)

\* The crop lies in the frame, and the pixel drawn where the viewer points is the one the
\* pointer lands on, give or take the rounding of the crop's two ends.
PictureMeetsPointer ==
    LET c == Crop(zoom) IN
    /\ c.n >= 1 /\ c.at >= 0 /\ c.at + c.n <= Width
    /\ \A u \in 0..Unit :
          LET drawn   == (c.at * Unit + u * c.n) * Unit          \* in pixels / Unit^2
              pointed == Remap(u) * Width
          IN drawn - pointed \in -(3 * One) \div 2 .. (3 * One) \div 2

\* Does not hold of the code: "a release at the end of a drag doesn't teleport".  Under a
\* zoom the remap has already turned the zero that means no position into the crop's origin.
ZeroStaysPut ==
    [][ seen'.what = "button" /\ seen'.meant = 0 /\ backend = "uinput" => last' = last ]_vars

\* Does not hold of the code: "every letter is sent with Shift".  The Linux backends do
\* not look at the modifiers of a key event.
KeysCarryModifiers == seen.what = "key" => seen.wanted \subseteq seen.mods
=============================================================================
