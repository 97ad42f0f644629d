------------------------------ MODULE TouchInput ------------------------------
(***************************************************************************)
(* The browser viewer's touch surface as a trackpad (attach_input of       *)
(* apps/web-viewer/src/lib.rs): what the touch callbacks and the long-     *)
(* press timer make of fingers that land, move and lift, and what they     *)
(* tell the host and the local zoom.                                       *)
(*                                                                         *)
(* The callbacks are the video's, and TouchEvent.touches is the page's: a  *)
(* finger elsewhere, on the on-screen keyboard or the bars, comes and goes *)
(* without a callback, and is counted by the next one.                     *)
(*                                                                         *)
(* A point is the finger that is there; a length is whether it is long     *)
(* enough to count; a time is whether the window it is compared with is    *)
(* over.  The drawn cursor, coordinates, rotation and sensitivities are    *)
(* left out, and so are mouse, wheel and physical keyboard, which keep no  *)
(* state.                                                                  *)
(***************************************************************************)
EXTENDS Naturals, Sequences, SequencesExt

CONSTANTS
    Fingers,
    Elsewhere,   \* of them, those that touch the page beside the video
    Interrupts   \* what may cut a gesture: "cancel", by the system; "attach", by a new channel

VARIABLES
    touches,   \* TouchEvent.touches: the fingers on the page, the primary one first
    mode,      \* data-dragmode
    finger,    \* finger_down, max_fingers, moved, and whether start_ms is recent
    lp,        \* the long-press timer is set
    tapped,    \* last_tap_ms is recent
    prev,      \* the finger deltas are anchored to, if any
    pinch,     \* the fingers the pinch is measured from, if any
    zoomed,    \* scale > 1
    dragging,
    did,       \* what the last event did, from where it measured, and of a click the truth
    truth      \* of this gesture: most fingers down, whether one travelled, its age, and
               \* whether fingers came or went that no callback was told of

vars == <<touches, mode, finger, lp, tapped, prev, pinch, zoomed, dragging, did, truth>>

NoTruth == [most |-> 0, travelled |-> FALSE, young |-> FALSE, unseen |-> FALSE]
Nothing == [what |-> "nothing", from |-> << >>, of |-> NoTruth]
Tells(what) == did' = [Nothing EXCEPT !.what = what]

NoGesture == [down |-> FALSE, most |-> 0, moved |-> FALSE, recent |-> FALSE]

Init ==
    /\ touches = << >> /\ mode \in {"longpress", "doubletap"}
    /\ finger = NoGesture
    /\ lp = FALSE /\ tapped = FALSE
    /\ prev = << >> /\ pinch = << >>
    /\ zoomed = FALSE /\ dragging = FALSE
    /\ did = Nothing
    /\ truth = NoTruth

OnVideo == ToSet(touches) \ Elsewhere
Larger(a, b) == IF a > b THEN a ELSE b
FirstTwo(fs) == SubSeq(fs, 1, 2)

-----------------------------------------------------------------------------
(* touchstart                                                               *)

\* A second finger means zoom: a drag-select is released.
SecondFingerMutant == Tells("nothing") /\ UNCHANGED dragging   \* mutant: it is not
SecondFinger ==
    /\ IF dragging THEN Tells("release") ELSE Tells("nothing")
    /\ dragging' = FALSE

\* One finger arms a drag-select as data-dragmode says; on a second tap it starts.
FirstFinger ==
    IF mode = "longpress" THEN lp' = TRUE /\ Tells("nothing") /\ UNCHANGED dragging
    ELSE /\ IF tapped /\ ~dragging
              THEN Tells("press") /\ dragging' = TRUE
              ELSE Tells("nothing") /\ UNCHANGED dragging
         /\ UNCHANGED lp

Land(new) ==
    LET now == touches \o new
        n   == Len(now)
    IN /\ touches' = now
       /\ finger' = [down |-> TRUE, most |-> Larger(n, finger.most),
                     moved |-> n # 1 /\ finger.down /\ finger.moved,
                     recent |-> n = 1 \/ finger.recent]
       /\ IF n = 1 THEN FirstFinger /\ UNCHANGED pinch
          ELSE lp' = FALSE /\ SecondFinger /\ pinch' = FirstTwo(now)
       /\ prev' = <<Head(now)>>
       /\ truth' = [most |-> IF touches = << >> THEN n ELSE Larger(n, truth.most),
                    travelled |-> touches # << >> /\ truth.travelled,
                    young |-> touches = << >> \/ truth.young,
                    unseen |-> truth.unseen]
       /\ UNCHANGED <<mode, tapped, zoomed>>

\* Several fingers may land in one event.
TouchStart ==
    \E S \in SUBSET ((Fingers \ Elsewhere) \ ToSet(touches)) :
        /\ S # {}
        /\ Land(SetToSeq(S))

\* Fires for one finger that is down, has not moved and is not dragging.
LongPress ==
    /\ lp /\ ~finger.recent
    /\ lp' = FALSE
    /\ IF finger.down /\ ~finger.moved /\ finger.most = 1 /\ ~dragging
         THEN Tells("press") /\ dragging' = TRUE
         ELSE Tells("nothing") /\ UNCHANGED dragging
    /\ UNCHANGED <<touches, mode, finger, tapped, prev, pinch, zoomed, truth>>

-----------------------------------------------------------------------------
(* touchmove                                                                *)

\* Two fingers that were three: the scroll goes on when the third is back.
SettleScroll ==
    /\ Len(touches) = 2 /\ finger.most >= 3
    /\ pinch' = << >> /\ Tells("nothing")
    /\ UNCHANGED <<finger, lp, prev, zoomed>>

Pinch ==
    /\ Len(touches) = 2 /\ finger.most < 3
    /\ pinch' = touches
    /\ IF pinch = << >>
         THEN Tells("nothing") /\ UNCHANGED <<finger, zoomed>>
         ELSE /\ finger' = [finger EXCEPT !.moved = TRUE]
              /\ zoomed' \in BOOLEAN
              /\ did' = [Nothing EXCEPT !.what = "zoom", !.from = pinch]
    /\ UNCHANGED <<lp, prev>>

\* One finger moves the pointer, three scroll; far is past the threshold.
Slide(far) ==
    /\ Len(touches) # 2
    /\ prev' = <<Head(touches)>>
    /\ IF far /\ ~finger.moved
         THEN finger' = [finger EXCEPT !.moved = TRUE] /\ lp' = FALSE
         ELSE UNCHANGED <<finger, lp>>
    /\ did' = [Nothing EXCEPT !.what = IF Len(touches) = 1 THEN "move" ELSE "scroll",
                           !.from = prev]
    /\ UNCHANGED <<pinch, zoomed>>

TouchMove ==
    /\ OnVideo # {}
    /\ \E far \in BOOLEAN :
          /\ SettleScroll \/ Pinch \/ Slide(far)
          /\ truth' = [truth EXCEPT !.travelled = @ \/ far \/ (Len(touches) = 2 /\ pinch # << >>)]
    /\ UNCHANGED <<touches, mode, tapped, dragging>>

-----------------------------------------------------------------------------
(* touchend                                                                 *)

ReanchorMutant(left) == UNCHANGED prev   \* mutant: the deltas go on from the finger that left
Reanchor(left) == prev' = <<Head(left)>>

LastUpMutant == [NoGesture EXCEPT !.most = finger.most, !.recent = finger.recent]   \* mutant: the count goes on
LastUp == [finger EXCEPT !.down = FALSE, !.most = 0]

\* A held button goes up; what never moved is a click, of two fingers if it was quick.
Clicks(button) == did' = [Nothing EXCEPT !.what = button, !.of = truth]
Click ==
    \/ finger.most = 1 /\ Clicks("left") /\ tapped' = TRUE
    \/ finger.most = 2 /\ finger.recent /\ Clicks("right") /\ UNCHANGED tapped
    \/ ~(finger.most = 1 \/ (finger.most = 2 /\ finger.recent)) /\ Tells("nothing") /\ UNCHANGED tapped

TouchEnd(i) ==
    /\ touches[i] \notin Elsewhere
    /\ LET left == RemoveAt(touches, i) IN
          /\ touches' = left
          /\ pinch' = << >>
          /\ IF left # << >>
               THEN /\ Reanchor(left) /\ Tells("nothing")
                    /\ UNCHANGED <<finger, lp, dragging, tapped>>
               ELSE /\ finger' = LastUp /\ lp' = FALSE
                    /\ dragging' = FALSE
                    /\ IF dragging THEN Tells("release") /\ UNCHANGED tapped
                       ELSE IF finger.moved THEN Tells("nothing") /\ UNCHANGED tapped
                       ELSE Click
                    /\ UNCHANGED prev
    /\ UNCHANGED <<mode, zoomed>>
    /\ truth' = IF Len(touches) = 1 THEN NoTruth ELSE truth

-----------------------------------------------------------------------------
(* Time, the page, and what no callback is registered for.                  *)

Wait ==
    /\ truth' = [truth EXCEPT !.young = FALSE]
    /\ finger' = [finger EXCEPT !.recent = FALSE]
    /\ tapped' = FALSE
    /\ did' = Nothing
    /\ UNCHANGED <<touches, mode, lp, prev, pinch, zoomed, dragging>>

SetMode ==
    /\ mode' \in {"longpress", "doubletap"} \ {mode}
    /\ did' = Nothing
    /\ UNCHANGED <<touches, finger, lp, tapped, prev, pinch, zoomed, dragging, truth>>

\* In the midst of a gesture, the callbacks' cells are not told.
Unseen ==
    /\ truth' = [truth EXCEPT !.young = @ \/ touches = << >>, !.unseen = @ \/ finger.down]
    /\ did' = Nothing
    /\ UNCHANGED <<mode, finger, lp, tapped, prev, pinch, zoomed, dragging>>

LandElsewhere(f) ==
    /\ f \notin ToSet(touches)
    /\ touches' = Append(touches, f)
    /\ Unseen

LiftElsewhere(i) ==
    /\ touches[i] \in Elsewhere
    /\ touches' = RemoveAt(touches, i)
    /\ Unseen

\* The system takes a finger, or all: touchcancel, which nobody listens to.
TouchCancel ==
    /\ "cancel" \in Interrupts /\ touches # << >>
    /\ touches' = << >> \/ \E i \in DOMAIN touches : touches' = RemoveAt(touches, i)
    /\ Unseen

\* attach_input for another control channel: callbacks of their own, which have not seen
\* the fingers that are down, and a host that holds nothing.
Attach ==
    /\ "attach" \in Interrupts
    /\ finger' = NoGesture /\ lp' = FALSE /\ tapped' = FALSE
    /\ prev' = << >> /\ pinch' = << >> /\ zoomed' = FALSE /\ dragging' = FALSE
    /\ did' = Nothing
    /\ truth' = [NoTruth EXCEPT !.young = truth.young, !.unseen = OnVideo # {}]
    /\ UNCHANGED <<touches, mode>>

Next ==
    \/ TouchStart \/ LongPress \/ TouchMove
    \/ \E i \in DOMAIN touches : TouchEnd(i)
    \/ \E f \in Elsewhere : LandElsewhere(f)
    \/ \E i \in DOMAIN touches : LiftElsewhere(i)
    \/ Wait \/ SetMode \/ TouchCancel \/ Attach

Spec == Init /\ [][Next]_vars

-----------------------------------------------------------------------------

\* Does not hold of the code: "on the LAST lift: release a drag-select if one is held".
\* The last lift of the video's fingers is not the page's, and a cancel is no lift.
HeldWhileTouched == dragging => Len(touches) = 1

\* Does not hold of the code: "adding/removing a finger doesn't fling the cursor", by
\* which a movement is measured from where the very fingers that make it were.
MovesFromItsFingers ==
    /\ did.what \in {"move", "scroll"} => did.from = <<Head(touches)>>
    /\ did.what = "zoom" => did.from = touches

\* Fingers that come or go unseen mislead no gesture but the one they meet: from the next
\* lift that leaves the page free, however timers, taps and fingers cross, the host's
\* button is held for one finger that is down, and the pointer, the wheel and the zoom
\* move with the fingers that are.
SeenIsFollowed == ~truth.unseen => HeldWhileTouched /\ MovesFromItsFingers

\* And a click is what the user did: a tap, of as many fingers as the button says.
ClicksAreTaps ==
    /\ did.what = "left" /\ ~did.of.unseen => did.of.most = 1 /\ ~did.of.travelled
    /\ did.what = "right" /\ ~did.of.unseen =>
          did.of.most = 2 /\ ~did.of.travelled /\ did.of.young

\* Does not hold of the code: "two-finger QUICK tap -> RIGHT-click".  Fingers that land
\* in one event leave start_ms as the last one-finger gesture set it.
QuickTapRightClicks ==
    [][ Len(touches) = 1 /\ touches' = << >> /\ truth.most = 2 /\ truth.young /\ ~truth.travelled
          => did'.what = "right" ]_vars
=============================================================================
