---------------------------- MODULE SoftKeyboard ----------------------------
(***************************************************************************)
(* The browser viewer's on-screen keyboard (attach_keyboard, attach_swipe  *)
(* and show_suggestions of apps/web-viewer/src/lib.rs): sticky and latched *)
(* modifiers, hold-to-repeat, the double-tapped space, and letters that    *)
(* are tapped or swiped over, whose words can be replaced by a suggestion. *)
(*                                                                         *)
(* The host's text is a sequence of characters and spaces.  A key of each  *)
(* kind stands for all of them, a word is its length, and the decoder may  *)
(* return any words or none.  Of the modifiers there is shift.  Layers and *)
(* the word decoder itself are left out.                                   *)
(***************************************************************************)
EXTENDS Naturals, Sequences, SequencesExt

CONSTANTS
    Fingers,
    None,
    WordLengths,
    Extras,     \* "dictation": text from elsewhere; "attach": another control channel
    MaxText     \* bound: the length of the host's text

Letter == "letter"       \* a data-char key of .klet, owned by attach_swipe
Keys == {Letter, "symbol", "space", "backspace", "shift", "caps"}
InKlet == {Letter, "backspace", "shift", "caps"}

VARIABLES
    text,       \* what the host has been sent: "c" a character, "_" a space
    on,         \* finger -> the key it came down on, or None
    touches,    \* TouchEvent.touches: the fingers down, in the order they landed
    shift,      \* the shift bit of mods
    caps,
    up,         \* the letters are labelled uppercase
    repeat,     \* the key rpt_handle repeats, or None
    recent,     \* last_space is within DOUBLE_SPACE_MS
    tap,        \* tap_char is set
    crosses,    \* the path crosses keys
    from,       \* the finger it starts at
    word,       \* last_word_len
    bar,        \* the lengths of the words #kb-suggest offers
    start       \* where the offered word began in the text

vars == <<text, on, touches, shift, caps, up, repeat, recent, tap, crosses, from, word, bar, start>>

Init ==
    /\ text = << >> /\ on = [f \in Fingers |-> None] /\ touches = << >>
    /\ shift = FALSE /\ caps = FALSE /\ up = FALSE
    /\ repeat = None /\ recent = FALSE
    /\ tap = FALSE /\ crosses = FALSE /\ from = None
    /\ word = 0 /\ bar = {} /\ start = 0

Chars(n) == [i \in 1..n |-> "c"]
Back(t, n) == SubSeq(t, 1, Len(t) - n)     \* n backspaces

Typed(key) ==
    CASE key = "space"     -> Append(text, "_")
      [] key = "backspace" -> Back(text, 1)
      [] OTHER             -> Append(text, "c")

Fits == Len(text') <= MaxText

\* clear_mods, which leaves caps-lock on; and clear_suggestions.
ClearModsMutant == shift' = FALSE /\ up' = FALSE     \* mutant: the labels forget caps-lock
ClearMods == shift' = FALSE /\ up' = caps
ClearSuggestions == bar' = {}

-----------------------------------------------------------------------------
(* pointerdown of a key that is not a letter                                 *)

\* A modifier takes no key of text; it and caps-lock relabel the letters.
Latch(key) ==
    /\ repeat' = None
    /\ \/ key = "caps" /\ caps' = ~caps /\ up' = (~caps \/ shift) /\ UNCHANGED shift
       \/ key = "shift" /\ shift' = ~shift /\ up' = (~shift \/ caps) /\ UNCHANGED caps
    /\ UNCHANGED <<text, recent, bar>>

\* A space soon after a space replaces it by a full stop and a space.
DoubleSpace ==
    /\ recent
    /\ text' = Back(text, 1) \o <<"c", "_">>
    /\ recent' = FALSE
    /\ repeat' = None

Press(key) ==
    /\ text' = Typed(key)
    /\ repeat' = key
    /\ recent' = (key = "space" \/ recent)

\* Whatever is typed here ends the offer to replace the last word.
TypesMutant(key) ==     \* mutant: a space leaves the suggestions up
    /\ IF key = "space" /\ recent THEN DoubleSpace ELSE Press(key)
    /\ ClearMods
    /\ IF key = "space" THEN UNCHANGED bar ELSE ClearSuggestions
    /\ UNCHANGED caps
Types(key) ==
    /\ IF key = "space" /\ recent THEN DoubleSpace ELSE Press(key)
    /\ ClearMods /\ ClearSuggestions
    /\ UNCHANGED caps

\* touchstart, which follows it, on a key of .klet: a letter starts a path.
Track(f, key) ==
    \/ key \notin InKlet /\ UNCHANGED <<tap, crosses, from>>
    \/ key \in InKlet \ {Letter} /\ tap' = FALSE /\ UNCHANGED <<crosses, from>>
    \/ key = Letter /\ tap' = TRUE /\ crosses' = FALSE /\ from' = Head(touches')

Down(f, key) ==
    /\ on[f] = None
    /\ on' = [on EXCEPT ![f] = key]
    /\ touches' = Append(touches, f)
    /\ IF key = Letter THEN UNCHANGED <<text, shift, caps, up, repeat, recent, bar>>
       ELSE IF key \in {"shift", "caps"} THEN Latch(key)
       ELSE Types(key)
    /\ Track(f, key)
    /\ Fits
    /\ UNCHANGED <<word, start>>

-----------------------------------------------------------------------------
(* Letters: tapped or swiped over                                            *)

\* Whichever touch of .klet moves, what is added to the path is where the first touch is.
Move(f) ==
    /\ tap /\ on[f] \in InKlet
    /\ f = Head(touches) \/ from # Head(touches)
    /\ crosses' = TRUE
    /\ UNCHANGED <<text, on, touches, shift, caps, up, repeat, recent, tap, from, word, bar, start>>

\* The best word is typed with a space, and the candidates are offered.
Swipe ==
    /\ crosses
    /\ \/ \E best \in WordLengths, others \in SUBSET WordLengths :
             /\ text' = Append(text \o Chars(best), "_")
             /\ word' = best + 1
             /\ bar' = {best} \cup others
             /\ start' = Len(text)
       \/ UNCHANGED <<text, word, bar, start>>      \* nothing decoded
    /\ ClearMods

TapLetter ==
    /\ ~crosses
    /\ text' = Append(text, "c")
    /\ ClearMods /\ ClearSuggestions
    /\ UNCHANGED <<word, start>>

Lift(f) ==
    /\ on' = [on EXCEPT ![f] = None]
    /\ touches' = SelectSeq(touches, LAMBDA g : g # f)

\* pointerup ends the repeat, wherever it is; then touchend, which .klet hears.
StopRepeatMutant == repeat' = repeat     \* mutant: only a new press ends it
StopRepeat == repeat' = None
Up(f) ==
    /\ on[f] # None
    /\ Lift(f)
    /\ StopRepeat
    /\ IF on[f] \in InKlet /\ tap
         THEN /\ tap' = FALSE /\ crosses' = FALSE /\ from' = None
              /\ Swipe \/ TapLetter
         ELSE UNCHANGED <<text, shift, up, tap, crosses, from, word, bar, start>>
    /\ Fits
    /\ UNCHANGED <<caps, recent>>

\* The browser takes the touch: pointercancel, and a touchcancel nobody listens to.
Cancel(f) ==
    /\ on[f] # None
    /\ Lift(f)
    /\ StopRepeat
    /\ UNCHANGED <<text, shift, caps, up, recent, tap, crosses, from, word, bar, start>>

\* A suggestion replaces the last inserted word: its characters and its space.
Suggest(w) ==
    /\ w \in bar
    /\ text' = Append(Back(text, word) \o Chars(w), "_")
    /\ Fits
    /\ word' = w + 1
    /\ UNCHANGED <<on, touches, shift, caps, up, repeat, recent, tap, crosses, from, bar, start>>

-----------------------------------------------------------------------------
(* Time, and what types without a key of this keyboard                        *)

\* The first repeat comes later than a double tap can.
Tick ==
    /\ repeat # None /\ ~recent
    /\ text' = Typed(repeat)
    /\ Fits
    /\ UNCHANGED <<on, touches, shift, caps, up, repeat, recent, tap, crosses, from, word, bar, start>>

Wait ==
    /\ recent' = FALSE
    /\ UNCHANGED <<text, on, touches, shift, caps, up, repeat, tap, crosses, from, word, bar, start>>

\* attach_dictation types what was heard, a word and a space.
Dictate ==
    /\ "dictation" \in Extras
    /\ text' = text \o <<"c", "_">>
    /\ Fits
    /\ UNCHANGED <<on, touches, shift, caps, up, repeat, recent, tap, crosses, from, word, bar, start>>

\* Another control channel gets handlers of its own, over the same page; the old ones
\* type into the channel that is gone, and their suggestions with them.
Attach ==
    /\ "attach" \in Extras
    /\ shift' = FALSE /\ caps' = FALSE
    /\ repeat' = None /\ recent' = FALSE
    /\ tap' = FALSE /\ crosses' = FALSE /\ from' = None
    /\ word' = 0 /\ bar' = {}
    /\ UNCHANGED <<text, on, touches, up, start>>

Next ==
    \/ \E f \in Fingers : (\E key \in Keys : Down(f, key)) \/ Move(f) \/ Up(f) \/ Cancel(f)
    \/ \E w \in WordLengths : Suggest(w)
    \/ Tick \/ Wait \/ Dictate \/ Attach

Spec == Init /\ [][Next]_vars

-----------------------------------------------------------------------------

\* What repeats is a key that a finger is still holding.
RepeatsWhileHeld == repeat # None => \E f \in Fingers : on[f] = repeat

\* "Tapping one replaces the last word": while words are offered, the one they would
\* replace is what the text ends with.
OffersReplaceTheWord == bar # {} => Len(text) = start + word

\* The labels say what a tapped letter will be.
LabelsTellTheCase == up = (shift \/ caps)

\* Does not hold of the code: "delete the just-typed space".  Keys typed between the two
\* spaces do not reset last_space, and the backspace deletes them.
DeletesTheSpace ==
    [][ recent /\ ~recent' /\ text' # text => text # << >> /\ Last(text) = "_" ]_vars

\* Does not hold of the code: "a stationary touch on a letter types it".  The key that
\* lands before a letter has lifted takes its place in tap_char.
HeldLettersAreTracked == (\E f \in Fingers : on[f] = Letter) => tap
=============================================================================
