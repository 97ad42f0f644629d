--------------------------- MODULE ViewerSide_proofs ---------------------------
(***************************************************************************)
(* Proofs about the parts of the viewers, for every value of their         *)
(* constants: the on-screen keyboard, the web viewer's sessions, the       *)
(* window, the touch gestures and the rebuilds of a session.  What is      *)
(* shown of a part is an invariant of its own steps; those of the other    *)
(* parts leave its variables alone.                                        *)
(***************************************************************************)
EXTENDS ViewerSide, SequenceTheorems, FiniteSetTheorems, TLAPS

\* The empty sequence is one of anything.
LEMMA EmptySequence ==
  ASSUME NEW S
  PROVE  << >> \in Seq(S)
  OBVIOUS

\* A sequence with something added to it.
LEMMA Appended ==
  ASSUME NEW S, NEW q \in Seq(S), NEW x \in S
  PROVE  Append(q, x) \in Seq(S) /\ Len(Append(q, x)) = Len(q) + 1
  OBVIOUS

\* A sequence of one thing, n times.
LEMMA Repeated ==
  ASSUME NEW S, NEW x \in S, NEW n \in Nat
  PROVE  [i \in 1 .. n |-> x] \in Seq(S) /\ Len([i \in 1 .. n |-> x]) = n
  OBVIOUS

\* One sequence after another.
LEMMA Joined ==
  ASSUME NEW S, NEW q \in Seq(S), NEW r \in Seq(S)
  PROVE  /\ q \o r \in Seq(S) /\ Len(q \o r) = Len(q) + Len(r)
         /\ Len(q) \in Nat /\ Len(r) \in Nat
  OBVIOUS

\* How long a sequence is, and what is left of one of length one.
LEMMA Lengths ==
  ASSUME NEW S, NEW q \in Seq(S)
  PROVE  /\ Len(q) \in Nat /\ (q = << >> <=> Len(q) = 0)
         /\ Len(q) = 1 => Tail(q) = << >>
  OBVIOUS

LEMMA Singleton ==
  ASSUME NEW S, NEW x \in S
  PROVE  /\ <<x>> \in Seq(S) /\ Len(<<x>>) = 1 /\ <<x>> # << >>
         /\ Append(<< >>, x) = <<x>> /\ <<x>> \o << >> = <<x>>
         /\ << >> \in Seq(S) /\ Len(<< >>) = 0
  OBVIOUS

-----------------------------------------------------------------------------
(* The on-screen keyboard.                                                  *)

Glyphs == {"c", "_"}

\* What is offered was typed last, and nothing repeats meanwhile.
KeyInv ==
    /\ text \in Seq(Glyphs) /\ word \in Nat /\ start \in Nat
    /\ bar \subseteq Nat
    /\ shift \in BOOLEAN /\ caps \in BOOLEAN
    /\ bar # {} => repeat = None /\ Len(text) = start + word
    /\ Keyboard!RepeatsWhileHeld /\ Keyboard!LabelsTellTheCase
    /\ DOMAIN on = Thumbs

\* A text that loses its end, and one that gets a word and a space.
LEMMA BackLength ==
  ASSUME NEW t \in Seq(Glyphs), NEW n \in Nat
  PROVE  /\ Keyboard!Back(t, n) \in Seq(Glyphs)
         /\ n <= Len(t) => Len(Keyboard!Back(t, n)) = Len(t) - n
  BY DEF Keyboard!Back

LEMMA WordLength ==
  ASSUME NEW t \in Seq(Glyphs), NEW n \in Nat
  PROVE  /\ Append(t \o Keyboard!Chars(n), "_") \in Seq(Glyphs)
         /\ Len(Append(t \o Keyboard!Chars(n), "_")) = Len(t) + n + 1
<1>1. Keyboard!Chars(n) \in Seq(Glyphs) /\ Len(Keyboard!Chars(n)) = n
  <2>1. "c" \in Glyphs
    BY DEF Glyphs
  <2> QED
    BY <2>1, Repeated DEF Keyboard!Chars
<1> DEFINE word1 == t \o Keyboard!Chars(n)
<1>2. word1 \in Seq(Glyphs) /\ Len(word1) = Len(t) + n /\ Len(t) \in Nat
  <2> DEFINE cs == Keyboard!Chars(n)
  <2>1. cs \in Seq(Glyphs) /\ Len(cs) = n
    BY <1>1
  <2> HIDE DEF cs
  <2>2. t \o cs \in Seq(Glyphs) /\ Len(t \o cs) = Len(t) + Len(cs) /\ Len(t) \in Nat
    BY <2>1, Joined
  <2> QED
    BY <2>1, <2>2 DEF cs
<1>3. "_" \in Glyphs
  BY DEF Glyphs
<1> HIDE DEF word1
<1> DEFINE all == Append(word1, "_")
<1>4. all \in Seq(Glyphs) /\ Len(all) = Len(word1) + 1
  BY <1>2, <1>3, Appended
<1> HIDE DEF all
<1>5. Len(all) = Len(t) + n + 1
  BY <1>2, <1>4
<1> QED
  BY <1>4, <1>5 DEF word1, all

LEMMA TypedType ==
  ASSUME KeyInv, NEW key
  PROVE  Keyboard!Typed(key) \in Seq(Glyphs)
<1>1. Keyboard!Back(text, 1) \in Seq(Glyphs)
  BY BackLength DEF KeyInv
<1>2. Append(text, "_") \in Seq(Glyphs) /\ Append(text, "c") \in Seq(Glyphs)
  <2>1. "_" \in Glyphs /\ "c" \in Glyphs
    BY DEF Glyphs
  <2> QED
    BY <2>1, Appended DEF KeyInv
<1> QED
  BY <1>1, <1>2 DEF Keyboard!Typed

LEMMA DownStep ==
  ASSUME KeyInv, NEW f \in Thumbs, NEW key \in Keyboard!Keys, Keyboard!Down(f, key)
  PROVE  KeyInv'
<1>1. /\ on[f] = None /\ on' = [on EXCEPT ![f] = key] /\ UNCHANGED <<word, start>>
      /\ on'[f] = key /\ DOMAIN on' = Thumbs
      /\ \A g \in Thumbs \ {f} : on'[g] = on[g]
  BY DEF Keyboard!Down, KeyInv
<1>2. CASE key = Keyboard!Letter
  <2>1. UNCHANGED <<text, shift, caps, up, repeat, bar>>
    BY <1>2 DEF Keyboard!Down
  <2>2. Keyboard!RepeatsWhileHeld'
    BY <1>1, <2>1 DEF KeyInv, Keyboard!RepeatsWhileHeld
  <2> QED
    BY <1>1, <2>1, <2>2 DEF KeyInv, Keyboard!LabelsTellTheCase
<1>3. CASE key \in {"shift", "caps"}
  <2>1. Keyboard!Latch(key)
    BY <1>3 DEF Keyboard!Down, Keyboard!Letter
  <2>2. /\ repeat' = None /\ UNCHANGED <<text, bar>>
        /\ shift' \in BOOLEAN /\ caps' \in BOOLEAN /\ up' = (shift' \/ caps')
    <3>1. repeat' = None /\ UNCHANGED <<text, bar>> /\ shift \in BOOLEAN /\ caps \in BOOLEAN
      BY <2>1 DEF Keyboard!Latch, KeyInv
    <3>2. CASE caps' = ~caps /\ up' = (~caps \/ shift) /\ UNCHANGED shift
      BY <3>1, <3>2
    <3>3. CASE shift' = ~shift /\ up' = (~shift \/ caps) /\ UNCHANGED caps
      BY <3>1, <3>3
    <3> QED
      BY <2>1, <3>2, <3>3 DEF Keyboard!Latch
  <2> QED
    BY <1>1, <2>2 DEF KeyInv, Keyboard!LabelsTellTheCase, Keyboard!RepeatsWhileHeld
<1>4. CASE key \notin {Keyboard!Letter, "shift", "caps"}
  <2>1. Keyboard!Types(key)
    BY <1>4 DEF Keyboard!Down
  <2>2. /\ shift' = FALSE /\ up' = caps /\ UNCHANGED caps /\ bar' = {}
        /\ repeat' \in {None, key}
    BY <2>1 DEF Keyboard!Types, Keyboard!ClearMods, Keyboard!ClearSuggestions,
                Keyboard!DoubleSpace, Keyboard!Press
  <2>3. text' \in Seq(Glyphs)
    <3>1. Keyboard!Back(text, 1) \o <<"c", "_">> \in Seq(Glyphs)
      <4>1. Keyboard!Back(text, 1) \in Seq(Glyphs)
        BY BackLength DEF KeyInv
      <4>2. <<"c", "_">> \in Seq(Glyphs)
        BY DEF Glyphs
      <4> QED
        BY <4>1, <4>2, ConcatProperties
    <3> QED
      BY <2>1, <3>1, TypedType DEF Keyboard!Types, Keyboard!DoubleSpace, Keyboard!Press
  <2> QED
    BY <1>1, <2>2, <2>3 DEF KeyInv, Keyboard!LabelsTellTheCase, Keyboard!RepeatsWhileHeld
<1> QED
  BY <1>2, <1>3, <1>4

\* Nothing repeats once a finger has gone up, so the word that is offered stays last.
LEMMA UpStep ==
  ASSUME KeyInv, NEW f \in Thumbs, Keyboard!Up(f)
  PROVE  KeyInv'
<1>1. repeat' = None /\ UNCHANGED caps /\ DOMAIN on' = Thumbs
  BY DEF Keyboard!Up, Keyboard!StopRepeat, Keyboard!Lift, KeyInv
<1>2. CASE Keyboard!Swipe
  <2>1. shift' = FALSE /\ up' = caps
    BY <1>2 DEF Keyboard!Swipe, Keyboard!ClearMods
  <2>2. ASSUME NEW best \in WordLengths, NEW others \in SUBSET WordLengths,
               text' = Append(text \o Keyboard!Chars(best), "_"), word' = best + 1,
               bar' = {best} \cup others, start' = Len(text)
        PROVE  /\ text' \in Seq(Glyphs) /\ word' \in Nat /\ start' \in Nat /\ bar' \subseteq Nat
               /\ Len(text') = start' + word'
    <3>1. best \in Nat /\ bar' \subseteq Nat
      BY <2>2, ViewerAssumption
    <3>2. text \in Seq(Glyphs)
      BY DEF KeyInv
    <3>3. text' \in Seq(Glyphs) /\ Len(text') = Len(text) + best + 1
      BY <2>2, <3>1, <3>2, WordLength
    <3>4. Len(text) \in Nat
      BY <3>2
    <3>5. word' = best + 1 /\ start' = Len(text)
      BY <2>2
    <3> QED
      BY <3>1, <3>3, <3>4, <3>5
  <2>3. /\ text' \in Seq(Glyphs) /\ word' \in Nat /\ start' \in Nat /\ bar' \subseteq Nat
        /\ bar' # {} => Len(text') = start' + word'
    BY <1>2, <2>2 DEF Keyboard!Swipe, KeyInv
  <2> QED
    BY <1>1, <2>1, <2>3 DEF KeyInv, Keyboard!LabelsTellTheCase, Keyboard!RepeatsWhileHeld
<1>3. CASE Keyboard!TapLetter
  <2>1. /\ shift' = FALSE /\ up' = caps /\ bar' = {} /\ UNCHANGED <<word, start>>
        /\ text' = Append(text, "c")
    BY <1>3 DEF Keyboard!TapLetter, Keyboard!ClearMods, Keyboard!ClearSuggestions
  <2>2. text' \in Seq(Glyphs)
    <3>1. "c" \in Glyphs
      BY DEF Glyphs
    <3> QED
      BY <2>1, <3>1, Appended DEF KeyInv
  <2> QED
    BY <1>1, <2>1, <2>2 DEF KeyInv, Keyboard!LabelsTellTheCase, Keyboard!RepeatsWhileHeld
<1>4. CASE UNCHANGED <<text, shift, up, word, bar, start>>
  BY <1>1, <1>4 DEF KeyInv, Keyboard!LabelsTellTheCase, Keyboard!RepeatsWhileHeld
<1> QED
  BY <1>2, <1>3, <1>4 DEF Keyboard!Up

\* A suggestion takes the place of what the text ends with.
LEMMA SuggestStep ==
  ASSUME KeyInv, NEW w \in WordLengths, Keyboard!Suggest(w)
  PROVE  KeyInv'
<1>1. /\ UNCHANGED <<on, shift, caps, up, repeat, bar, start>> /\ word' = w + 1 /\ bar # {}
      /\ text' = Append(Keyboard!Back(text, word) \o Keyboard!Chars(w), "_")
  BY DEF Keyboard!Suggest
<1>2. /\ w \in Nat /\ word \in Nat /\ start \in Nat /\ text \in Seq(Glyphs)
      /\ Len(text) = start + word
  <2>1. w \in Nat
    BY ViewerAssumption
  <2>2. word \in Nat /\ start \in Nat /\ text \in Seq(Glyphs) /\ Len(text) = start + word
    BY <1>1 DEF KeyInv
  <2> QED
    BY <2>1, <2>2
<1>3. Keyboard!Back(text, word) \in Seq(Glyphs) /\ Len(Keyboard!Back(text, word)) = start
  <2>1. word <= Len(text) /\ Len(text) - word = start
    BY <1>2
  <2> QED
    BY <1>2, <2>1, BackLength
<1>4. text' \in Seq(Glyphs) /\ Len(text') = start + w + 1
  <2> DEFINE kept == Keyboard!Back(text, word)
  <2>1. kept \in Seq(Glyphs) /\ Len(kept) = start /\ text' = Append(kept \o Keyboard!Chars(w), "_")
    BY <1>1, <1>3
  <2> HIDE DEF kept
  <2> QED
    BY <1>2, <2>1, WordLength
<1>5. Len(text') = start' + word' /\ word' \in Nat /\ start' \in Nat
  <2>1. start' = start /\ word' = w + 1
    BY <1>1
  <2> QED
    BY <1>2, <1>4, <2>1
<1> QED
  BY <1>1, <1>4, <1>5 DEF KeyInv, Keyboard!LabelsTellTheCase, Keyboard!RepeatsWhileHeld

LEMMA KeyStep ==
  ASSUME Extras = {}, KeyInv, Keyboard!Next
  PROVE  KeyInv'
<1>1. ASSUME NEW f \in Thumbs, Keyboard!Move(f) PROVE KeyInv'
  BY <1>1 DEF Keyboard!Move, KeyInv, Keyboard!LabelsTellTheCase, Keyboard!RepeatsWhileHeld
<1>2. ASSUME NEW f \in Thumbs, Keyboard!Cancel(f) PROVE KeyInv'
  BY <1>2 DEF Keyboard!Cancel, Keyboard!StopRepeat, Keyboard!Lift, KeyInv,
              Keyboard!LabelsTellTheCase, Keyboard!RepeatsWhileHeld
<1>3. CASE Keyboard!Tick
  <2>1. text' \in Seq(Glyphs) /\ bar = {}
    BY <1>3, TypedType DEF Keyboard!Tick, KeyInv
  <2> QED
    BY <1>3, <2>1 DEF Keyboard!Tick, KeyInv, Keyboard!LabelsTellTheCase, Keyboard!RepeatsWhileHeld
<1>4. CASE Keyboard!Wait
  BY <1>4 DEF Keyboard!Wait, KeyInv, Keyboard!LabelsTellTheCase, Keyboard!RepeatsWhileHeld
<1>5. ~Keyboard!Dictate /\ ~Keyboard!Attach
  BY DEF Keyboard!Dictate, Keyboard!Attach
<1> QED
  BY <1>1, <1>2, <1>3, <1>4, <1>5, DownStep, UpStep, SuggestStep DEF Keyboard!Next

\* While nothing but this keyboard types: what repeats is held, the word a suggestion
\* would replace is the last one, and the labels tell what a letter will be
\* (attach_keyboard, show_suggestions).
THEOREM KeyboardTellsTheTruth == Extras = {} => (SideSpec => []KeyboardIsTrue)
<1> SUFFICES ASSUME Extras = {} PROVE SideSpec => []KeyboardIsTrue
  OBVIOUS
<1>1. SideInit => KeyInv
  <2> SUFFICES ASSUME Keyboard!Init PROVE KeyInv
    BY DEF SideInit
  <2>1. text \in Seq(Glyphs)
    BY EmptySequence DEF Keyboard!Init
  <2>2. up = (shift \/ caps) /\ shift \in BOOLEAN /\ caps \in BOOLEAN
    BY DEF Keyboard!Init
  <2> QED
    BY <2>1, <2>2 DEF Keyboard!Init, KeyInv, Keyboard!LabelsTellTheCase,
                      Keyboard!RepeatsWhileHeld
<1>2. KeyInv /\ [SideNext]_sideVars => KeyInv'
  <2> SUFFICES ASSUME KeyInv, [SideNext]_sideVars PROVE KeyInv'
    OBVIOUS
  <2>1. CASE UNCHANGED keyVars
    BY <2>1 DEF keyVars, KeyInv, Keyboard!LabelsTellTheCase, Keyboard!RepeatsWhileHeld
  <2>2. CASE Keyboard!Next
    BY <2>2, KeyStep
  <2> QED
    BY <2>1, <2>2 DEF SideNext, sideVars, Sessions, Windows, Pages, Touches, Types
<1>3. KeyInv => KeyboardIsTrue
  BY DEF KeyInv, KeyboardIsTrue, Keyboard!OffersReplaceTheWord
<1> QED
  BY <1>1, <1>2, <1>3, PTL DEF SideSpec

-----------------------------------------------------------------------------
(* The web viewer's sessions.                                               *)

\* The places a session that is kept can be in, and what a session consists of.
Kept == {"new", "connecting", "connected", "disconnected", "failed"}

Fields == {"pc", "relay", "channel", "offers", "offered", "answering", "answered", "hellos",
           "verdicts"}

Steps == {"ice", "relay"}

\* The guard stands for one attempt, at a timer or at an await.
OneAttempt ==
    /\ timers \in Nat /\ builds \in Seq(Steps)
    /\ connecting => timers + Len(builds) = 1
    /\ ~connecting => timers + Len(builds) = 0

\* An attempt under way has torn down what was there.
WebInv ==
    /\ OneAttempt
    /\ connecting \in BOOLEAN /\ hidden \in BOOLEAN
    /\ DOMAIN current = Fields
    /\ builds # << >> => current = Web!NoSession
    /\ current # Web!NoSession => current.pc \in Kept
    /\ live = IF current = Web!NoSession THEN 0 ELSE 1
    /\ ~hidden /\ ~connecting => current # Web!NoSession /\ current.pc # "failed"

LEMMA SessionFields ==
  /\ DOMAIN Web!NewSession = Fields /\ Web!NewSession.pc = "new"
  /\ DOMAIN Web!NoSession = Fields /\ Web!NoSession.pc = "closed"
  /\ Web!NoSession.relay = "opening" /\ Web!NoSession.offers = 0 /\ Web!NoSession.channel = "none"
  /\ Web!NoSession.answering = 0
  /\ Web!NoSession.hellos = << >> /\ Web!NoSession.verdicts = << >>
  BY DEF Web!NoSession, Web!NewSession, Fields

LEMMA FirstAttempt ==
  ASSUME NEW x \in Steps, builds' = <<x>>, timers' = 0, connecting' = TRUE
  PROVE  OneAttempt'
<1>1. builds' \in Seq(Steps) /\ Len(builds') = 1
  BY Singleton
<1> QED
  BY <1>1 DEF OneAttempt

LEMMA AtAnAwait ==
  ASSUME OneAttempt, builds # << >>
  PROVE  /\ timers = 0 /\ connecting /\ Tail(builds) = << >>
         /\ Len(builds) = 1
<1>1. Len(builds) \in Nat /\ Len(builds) # 0
  BY Lengths DEF OneAttempt
<1>2. timers = 0 /\ connecting /\ Len(builds) = 1
  <2> DEFINE n == Len(builds)
  <2>1. n \in Nat /\ n # 0 /\ timers \in Nat
    BY <1>1 DEF OneAttempt
  <2>2. (connecting => timers + n = 1) /\ (~connecting => timers + n = 0)
    BY DEF OneAttempt
  <2> HIDE DEF n
  <2>3. connecting
    BY <2>1, <2>2
  <2>4. timers = 0 /\ n = 1
    BY <2>1, <2>2, <2>3
  <2> QED
    BY <2>3, <2>4 DEF n
<1>3. Tail(builds) = << >>
  BY <1>2, Lengths DEF OneAttempt
<1> QED
  BY <1>2, <1>3

LEMMA AtATimer ==
  ASSUME OneAttempt, timers > 0
  PROVE  timers = 1 /\ connecting /\ builds = << >>
<1>1. Len(builds) \in Nat
  BY Lengths DEF OneAttempt
<1>2. timers = 1 /\ connecting /\ Len(builds) = 0
  BY <1>1 DEF OneAttempt
<1> QED
  BY <1>2, Lengths DEF OneAttempt

\* schedule_reconnect, whoever calls it.
LEMMA ScheduleStep ==
  ASSUME OneAttempt, connecting \in BOOLEAN, Web!ScheduleReconnect, UNCHANGED builds
  PROVE  OneAttempt' /\ connecting' = TRUE
<1>1. CASE connecting
  BY <1>1 DEF OneAttempt, Web!ScheduleReconnect
<1>2. CASE ~connecting
  <2>1. connecting' = TRUE /\ timers' = timers + 1 /\ builds' = builds
    BY <1>2 DEF Web!ScheduleReconnect
  <2>2. Len(builds) \in Nat /\ timers \in Nat /\ timers + Len(builds) = 0
    BY <1>2 DEF OneAttempt
  <2>3. timers' \in Nat /\ timers' + Len(builds') = 1
    BY <2>1, <2>2
  <2> QED
    BY <2>1, <2>3 DEF OneAttempt
<1> QED
  BY <1>1, <1>2

\* What a callback of the session that is kept leaves alone.
LEMMA CallbackStep ==
  ASSUME WebInv, current # Web!NoSession,
         DOMAIN current' = Fields, current'.pc \in Kept,
         current'.pc = "failed" => current.pc = "failed",
         UNCHANGED <<hidden, connecting, timers, builds, live>>
  PROVE  WebInv'
<1>1. current' # Web!NoSession
  BY SessionFields DEF Kept
<1> QED
  BY <1>1 DEF WebInv, OneAttempt

\* A new attempt starts from nothing, however the last one ended.
LEMMA ConnectStep ==
  ASSUME WebInv, Web!Connect
  PROVE  WebInv'
<1>1. OneAttempt
  BY DEF WebInv
<1>2. "ice" \in Steps /\ "relay" \in Steps
  BY DEF Steps
<1>3. ASSUME NEW x \in Steps, builds' = <<x>>, timers' = 0, connecting' = TRUE PROVE OneAttempt'
  BY <1>3, FirstAttempt
<1>4. ASSUME builds' = << >>,
             (connecting' = TRUE /\ timers' = 1) \/ (connecting' = FALSE /\ timers' = 0)
      PROVE  OneAttempt'
  <2>1. builds' \in Seq(Steps) /\ Len(builds') = 0
    BY <1>2, <1>4, Singleton
  <2> QED
    BY <1>4, <2>1 DEF OneAttempt
<1>5. CASE Web!BackoffOver
  <2>1. /\ timers' = timers - 1 /\ connecting' = TRUE /\ builds' = Append(builds, "ice")
        /\ UNCHANGED hidden
        /\ current' = Web!NoSession
        /\ live' = IF current = Web!NoSession THEN live ELSE live - 1
        /\ timers > 0
    BY <1>5 DEF Web!BackoffOver, Web!Teardown
  <2>2. timers = 1 /\ builds = << >>
    BY <1>1, <2>1, AtATimer
  <2>3. timers' = 0 /\ live' = 0
    BY <2>1, <2>2 DEF WebInv
  <2>4. builds' = <<"ice">>
    BY <1>2, <2>1, <2>2, Singleton
  <2>5. OneAttempt'
    BY <1>2, <1>3, <2>1, <2>3, <2>4
  <2> QED
    BY <2>1, <2>3, <2>5, SessionFields DEF WebInv
<1>6. CASE Web!IceFetched
  <2>1. /\ builds # << >> /\ builds' = <<"relay">> \o Tail(builds)
        /\ UNCHANGED <<hidden, connecting, timers, current, live>>
    BY <1>6 DEF Web!IceFetched
  <2>2. Tail(builds) = << >> /\ timers = 0 /\ connecting
    BY <1>1, <2>1, AtAnAwait
  <2>3. builds' = <<"relay">>
    BY <1>2, <2>1, <2>2, Singleton
  <2>4. OneAttempt'
    BY <1>2, <1>3, <2>1, <2>2, <2>3 DEF WebInv
  <2> QED
    BY <2>1, <2>4 DEF WebInv
<1>7. CASE Web!RelayFailed
  <2>1. /\ builds # << >> /\ builds' = Tail(builds) /\ connecting' = TRUE /\ timers' = timers + 1
        /\ UNCHANGED <<hidden, current, live>>
    BY <1>7 DEF Web!RelayFailed, Web!Rest
  <2>2. builds' = << >> /\ timers' = 1
    BY <1>1, <2>1, AtAnAwait
  <2>3. OneAttempt'
    BY <1>4, <2>1, <2>2
  <2> QED
    BY <2>1, <2>2, <2>3 DEF WebInv
<1>8. CASE Web!Built
  <2>1. /\ builds # << >> /\ builds' = Tail(builds) /\ connecting' = FALSE
        /\ current' = Web!NewSession /\ live' = live + 1
        /\ UNCHANGED <<hidden, timers>>
    BY <1>8 DEF Web!Built, Web!Rest
  <2>2. builds' = << >> /\ timers = 0
    BY <1>1, <2>1, AtAnAwait
  <2>3. OneAttempt'
    BY <1>4, <2>1, <2>2
  <2>4. live' = 1
    BY <2>1 DEF WebInv
  <2>5. current' # Web!NoSession /\ current'.pc = "new" /\ DOMAIN current' = Fields
    BY <2>1, SessionFields
  <2> QED
    BY <2>1, <2>2, <2>3, <2>4, <2>5 DEF WebInv, Kept
<1> QED
  BY <1>5, <1>6, <1>7, <1>8 DEF Web!Connect

\* The relay's frames and the channel's are the business of the session that is kept.
LEMMA TalkStep ==
  ASSUME WebInv, Web!Signal \/ Web!PcConnects \/ Web!PcUnstable \/ Web!Talk
  PROVE  WebInv'
<1>1. UNCHANGED <<hidden, connecting, timers, builds, live>>
  BY DEF Web!Signal, Web!RelayOpens, Web!RelayCloses, Web!HostOffers, Web!TakeOffer,
         Web!SendAnswer, Web!AnswerFails, Web!PcConnects, Web!PcUnstable, Web!Talk, Web!ChannelOpens,
         Web!HostJudges, Web!HelloAck
<1>2. DOMAIN current = Fields
  BY DEF WebInv
<1>3. ASSUME current # Web!NoSession,
             \/ DOMAIN current' = Fields /\ current'.pc = current.pc
             \/ DOMAIN current' = Fields /\ current'.pc \in {"connecting", "connected", "disconnected"}
      PROVE  WebInv'
  BY <1>1, <1>3, CallbackStep DEF WebInv, Kept
<1>4. CASE Web!RelayOpens
  BY <1>2, <1>3, <1>4 DEF Web!RelayOpens, Fields
<1>5. CASE Web!RelayCloses
  BY <1>2, <1>3, <1>5 DEF Web!RelayCloses, Fields
<1>6. CASE Web!HostOffers
  BY <1>2, <1>3, <1>6, SessionFields DEF Web!HostOffers, Fields
<1>7. CASE Web!TakeOffer
  <2>1. current # Web!NoSession
    BY <1>7, SessionFields DEF Web!TakeOffer
  <2>2. CASE current.pc = "connected"
    BY <1>2, <1>3, <1>7, <2>1, <2>2 DEF Web!TakeOffer, Fields
  <2>3. CASE current.pc # "connected"
    BY <1>2, <1>3, <1>7, <2>1, <2>3 DEF Web!TakeOffer, Fields
  <2> QED
    BY <2>2, <2>3
<1>8. CASE Web!SendAnswer
  BY <1>2, <1>3, <1>8, SessionFields DEF Web!SendAnswer, Web!Answered, Fields
<1>9. CASE Web!PcConnects
  BY <1>2, <1>3, <1>9, SessionFields DEF Web!PcConnects, Fields
<1>10. CASE Web!PcUnstable
  BY <1>2, <1>3, <1>10, SessionFields DEF Web!PcUnstable, Fields
<1>11. CASE Web!ChannelOpens
  BY <1>2, <1>3, <1>11, SessionFields DEF Web!ChannelOpens, Fields
<1>12. CASE Web!HostJudges
  BY <1>2, <1>3, <1>12, SessionFields DEF Web!HostJudges, Fields
<1>13. CASE Web!HelloAck
  BY <1>2, <1>3, <1>13, SessionFields DEF Web!HelloAck, Fields
<1>14. CASE Web!AnswerFails
  BY <1>2, <1>3, <1>14, SessionFields DEF Web!AnswerFails, Web!Answered, Fields
<1> QED
  BY <1>4, <1>5, <1>6, <1>7, <1>8, <1>9, <1>10, <1>11, <1>12, <1>13, <1>14
     DEF Web!Signal, Web!Talk

\* A connection that fails out of sight is rebuilt when the page is looked at.
LEMMA PcFailsStep ==
  ASSUME WebInv, Web!PcFails
  PROVE  WebInv'
<1>1. /\ current.pc \in {"connecting", "disconnected"}
      /\ current' = [current EXCEPT !.pc = "failed", !.channel = "closed",
                                    !.hellos = << >>, !.verdicts = << >>]
      /\ Web!OnFailed /\ UNCHANGED <<hidden, builds, live>>
  BY DEF Web!PcFails
<1>2. current # Web!NoSession /\ current' # Web!NoSession
  BY <1>1, SessionFields DEF WebInv, Fields
<1>3. DOMAIN current' = Fields /\ current'.pc = "failed"
  BY <1>1 DEF WebInv, Fields
<1>4. CASE hidden
  <2>1. UNCHANGED <<connecting, timers>>
    BY <1>1, <1>4 DEF Web!OnFailed
  <2> QED
    BY <1>1, <1>2, <1>3, <1>4, <2>1 DEF WebInv, OneAttempt, Kept
<1>5. CASE ~hidden
  <2>1. OneAttempt' /\ connecting' = TRUE
    BY <1>1, <1>5, ScheduleStep DEF Web!OnFailed, WebInv
  <2> QED
    BY <1>1, <1>2, <1>3, <2>1 DEF WebInv, Kept
<1> QED
  BY <1>4, <1>5

LEMMA VisibilityStep ==
  ASSUME WebInv, Web!VisibilityChange
  PROVE  WebInv'
<1>1. hidden' = ~hidden /\ UNCHANGED <<builds, current, live>> /\ hidden \in BOOLEAN
  BY DEF Web!VisibilityChange, WebInv
<1>2. CASE UNCHANGED <<connecting, timers>> /\ (hidden => Web!Healthy)
  BY <1>1, <1>2 DEF WebInv, OneAttempt, Web!Healthy
<1>3. CASE Web!ScheduleReconnect
  <2>1. OneAttempt' /\ connecting' = TRUE
    BY <1>1, <1>3, ScheduleStep DEF WebInv
  <2> QED
    BY <1>1, <2>1 DEF WebInv
<1> QED
  BY <1>2, <1>3 DEF Web!VisibilityChange, Web!OnVisible

\* The password's modal answers on a channel, if there still is one.
LEMMA UserStep ==
  ASSUME WebInv, Web!User \/ \E p \in Passwords \cup {None} : Web!HostPassword(p)
  PROVE  WebInv'
<1>1. ASSUME NEW p \in Passwords, Web!SubmitPassword(p) PROVE WebInv'
  <2>1. UNCHANGED <<hidden, connecting, timers, builds, live>>
    BY <1>1 DEF Web!SubmitPassword
  <2>2. CASE UNCHANGED current
    BY <2>1, <2>2 DEF WebInv, OneAttempt
  <2>3. CASE /\ current.channel = "open"
             /\ current' = [current EXCEPT !.hellos = Append(@, p)]
    <3>1. current # Web!NoSession
      BY <2>3, SessionFields
    <3>2. DOMAIN current' = Fields /\ current'.pc = current.pc
      BY <2>3 DEF WebInv, Fields
    <3> QED
      BY <2>1, <3>1, <3>2, CallbackStep DEF WebInv
  <2> QED
    BY <1>1, <2>2, <2>3 DEF Web!SubmitPassword
<1>2. CASE Web!Cancel
  BY <1>2 DEF Web!Cancel, Web!app, WebInv, OneAttempt
<1>3. CASE Web!Reload
  <2>1. /\ connecting' = TRUE /\ timers' = 0 /\ builds' = <<"ice">>
        /\ current' = Web!NoSession /\ live' = 0 /\ UNCHANGED hidden
    BY <1>3 DEF Web!Reload
  <2>2. OneAttempt'
    BY <2>1, FirstAttempt DEF Steps
  <2> QED
    BY <2>1, <2>2, SessionFields DEF WebInv
<1>4. ASSUME NEW p, Web!HostPassword(p) PROVE WebInv'
  BY <1>4 DEF Web!HostPassword, Web!app, WebInv, OneAttempt
<1> QED
  BY <1>1, <1>2, <1>3, <1>4 DEF Web!User

LEMMA WebInit == Web!Init => WebInv
<1> SUFFICES ASSUME Web!Init PROVE WebInv
  OBVIOUS
<1>1. OneAttempt
  <2>1. builds \in Seq(Steps) /\ Len(builds) = 1
    BY Singleton DEF Web!Init, Steps
  <2> QED
    BY <2>1 DEF Web!Init, OneAttempt
<1> QED
  BY <1>1, SessionFields DEF Web!Init, WebInv

\* However failures, visibility changes, backoffs and reloads cross: the page holds the
\* one session that runs, and in the foreground it has not failed, or is being built
\* again (connect, schedule_reconnect and the visibilitychange handler).
THEOREM NoSessionIsLeftBehind == SideSpec => []OneLiveSession
<1>1. SideInit => WebInv
  BY WebInit DEF SideInit
<1>2. WebInv /\ [SideNext]_sideVars => WebInv'
  <2> SUFFICES ASSUME WebInv, [SideNext]_sideVars PROVE WebInv'
    OBVIOUS
  <2>1. CASE UNCHANGED webVars
    BY <2>1 DEF webVars, WebInv, OneAttempt
  <2>2. CASE Web!Next
    BY <2>2, ConnectStep, TalkStep, PcFailsStep, VisibilityStep, UserStep DEF Web!Next
  <2> QED
    BY <2>1, <2>2 DEF SideNext, sideVars, Sessions, Windows, Pages, Touches, Types
<1>3. WebInv => OneLiveSession
  BY DEF WebInv, OneLiveSession, Web!OneLiveSession, Web!ForegroundRebuilds
<1> QED
  BY <1>1, <1>2, <1>3, PTL DEF SideSpec

-----------------------------------------------------------------------------
(* The native viewer's window.                                              *)

\* Devices that are listed are somebody's, under some key.
Devs == [owner : Users, key : Nat \ {0}]

Tasks == {"none", "sign in", "create", "list", "register", "delete", "pair"}

\* What runs in the background is for a user, and brings a device.
JobTyped ==
    /\ job \in [kind : Tasks, user : Users \cup {NoOne}, peer : Devs \cup {Window!Nothing},
                said : {"none", "ok", "error"}]
    /\ job.kind = "none" => job = Window!Idle
    /\ job.kind \notin {"none", "pair"} => job.user \in Users
    /\ job.said = "ok" => job.peer \in Devs

WindowTyped ==
    /\ DOMAIN pins = Users
    /\ keyOf \in [Users -> Nat \ {0}]
    /\ account \in Users \cup {NoOne}
    /\ devices \subseteq Devs
    /\ JobTyped

\* No job runs behind a session's screens, so none ends there.
Undisturbed ==
    screen \in {"connecting", "session"} => job = Window!Idle /\ selected \in Devs

\* The session that is there was dialed, and how far it got.
Dialed ==
    dialed # Window!NoSession =>
        /\ dialed.host \in Devs /\ dialed.at # "none"
        /\ dialed = [host |-> dialed.host, at |-> dialed.at]

WinInv ==
    /\ WindowTyped /\ Undisturbed /\ Dialed
    /\ Window!ScreenShowsSession /\ Window!DialsThePinned

LEMMA JobValues ==
  /\ Window!Idle = [kind |-> "none", user |-> NoOne, peer |-> Window!Nothing, said |-> "none"]
  /\ Window!Nothing \notin Devs
  /\ Window!NoSession = [host |-> Window!Nothing, at |-> "none"]
  BY DEF Window!Idle, Window!Nothing, Window!NoSession, Window!NoKey, Devs

\* What has just been spawned.
LEMMA FreshJob ==
  ASSUME NEW kind \in Tasks \ {"none"}, NEW user \in Users \cup {NoOne},
         kind # "pair" => user \in Users,
         job' = [Window!Idle EXCEPT !.kind = kind, !.user = user]
  PROVE  JobTyped'
<1> DEFINE Job == [kind : Tasks, user : Users \cup {NoOne}, peer : Devs \cup {Window!Nothing},
                   said : {"none", "ok", "error"}]
<1>1. Window!Idle \in Job /\ Window!Idle.said = "none"
  BY JobValues DEF Tasks
<1>2. \A idle \in Job : /\ [idle EXCEPT !.kind = kind, !.user = user] \in Job
                        /\ [idle EXCEPT !.kind = kind, !.user = user].kind = kind
                        /\ [idle EXCEPT !.kind = kind, !.user = user].user = user
                        /\ [idle EXCEPT !.kind = kind, !.user = user].said = idle.said
  OBVIOUS
<1>3. job' \in Job /\ job'.kind = kind /\ job'.user = user /\ job'.said = "none"
  BY <1>1, <1>2
<1> QED
  BY <1>3 DEF JobTyped

LEMMA SpawnType ==
  ASSUME WindowTyped, NEW kind \in Tasks \ {"none"}, NEW user \in Users \cup {NoOne},
         kind # "pair" => user \in Users, Window!Spawn(kind, user)
  PROVE  JobTyped'
<1>1. CASE Window!Busy
  BY <1>1 DEF Window!Spawn, WindowTyped, JobTyped
<1>2. CASE ~Window!Busy
  BY <1>2, FreshJob DEF Window!Spawn
<1> QED
  BY <1>1, <1>2

LEMMA SpawnSignedInType ==
  ASSUME WindowTyped, NEW kind \in Tasks \ {"none", "pair"}, Window!SpawnSignedIn(kind)
  PROVE  JobTyped'
<1>1. CASE account = NoOne
  BY <1>1 DEF Window!SpawnSignedIn, WindowTyped, JobTyped
<1>2. CASE account # NoOne
  BY <1>2, SpawnType DEF Window!SpawnSignedIn, WindowTyped
<1> QED
  BY <1>1, <1>2

\* The thread brings what it was sent for.
LEMMA WorkStep ==
  ASSUME WinInv, Window!Work
  PROVE  WinInv'
<1>1. /\ job # Window!Idle
      /\ UNCHANGED <<screen, conn, account, token, devices, selected, dialed, pins, keyOf>>
  BY DEF Window!Work, Window!Busy
<1>2. JobTyped'
  <2>1. JobTyped /\ job.kind # "none" /\ keyOf \in [Users -> Nat \ {0}]
    BY <1>1 DEF WinInv, WindowTyped, JobTyped
  <2>2. CASE job' = [job EXCEPT !.said = "error"]
    BY <2>1, <2>2, JobValues DEF JobTyped
  <2>3. ASSUME NEW u \in Users, job' = [job EXCEPT !.said = "ok", !.peer = Window!Device(u)]
        PROVE  JobTyped'
    <3>1. Window!Device(u) \in Devs
      BY <2>1 DEF Window!Device, Devs
    <3> QED
      BY <2>1, <2>3, <3>1 DEF JobTyped
  <2>4. job.kind # "pair" => job.user \in Users
    BY <2>1 DEF JobTyped
  <2> QED
    BY <2>2, <2>3, <2>4 DEF Window!Work
<1> QED
  BY <1>1, <1>2 DEF WinInv, WindowTyped, Undisturbed, Dialed, Window!ScreenShowsSession,
                    Window!DialsThePinned

\* A pin is set once: the one a session was dialed under stays.
LEMMA PinKeeps ==
  ASSUME WinInv, NEW d, Window!Pin(d), UNCHANGED dialed
  PROVE  /\ DOMAIN pins' = Users
         /\ Window!DialsThePinned'
<1>1. pins' = [pins EXCEPT ![d.owner] = IF @ = 0 THEN d.key ELSE @] /\ DOMAIN pins = Users
  BY DEF Window!Pin, Window!NoKey, WinInv, WindowTyped
<1>2. CASE dialed # Window!NoSession
  <2>1. dialed.host \in Devs /\ pins[dialed.host.owner] = dialed.host.key
    BY <1>2 DEF WinInv, Dialed, Window!DialsThePinned
  <2>2. dialed.host.owner \in Users /\ dialed.host.key # 0
    BY <2>1 DEF Devs
  <2>3. pins'[dialed.host.owner] = dialed.host.key
    BY <1>1, <2>1, <2>2
  <2> QED
    BY <1>1, <2>3 DEF Window!DialsThePinned
<1> QED
  BY <1>1, <1>2 DEF Window!DialsThePinned

\* A job ends on a screen that shows no session, and leaves for such a one.
LEMMA PollStep ==
  ASSUME WinInv, Window!PollJob
  PROVE  WinInv'
<1>1. UNCHANGED <<conn, selected, dialed, keyOf>> /\ job # Window!Idle /\ WindowTyped
  <2>1. job.said # "none"
    BY DEF Window!PollJob, Window!PollSignedIn, Window!PollRefused,
         Window!PollDevices, Window!PollRegistered, Window!PollDeleted, Window!PollPaired,
         Window!PollReported, Window!Done
  <2>2. Window!Idle.said = "none"
    BY DEF Window!Idle
  <2> QED
    BY <2>1, <2>2 DEF Window!PollJob, WinInv
<1>2. screen \notin {"connecting", "session"}
  BY <1>1 DEF WinInv, Undisturbed
<1>3. dialed = Window!NoSession
  BY <1>2 DEF WinInv, Window!ScreenShowsSession
<1>4. screen' \in {screen, "devices"}
  BY DEF Window!PollJob, Window!PollSignedIn, Window!PollRefused,
         Window!PollDevices, Window!PollRegistered, Window!PollDeleted, Window!PollPaired,
         Window!PollReported
<1>5. WindowTyped'
  <2>1. DOMAIN pins' = Users
    BY <1>1, PinKeeps DEF Window!PollJob, Window!PollSignedIn, Window!PollRefused,
         Window!PollDevices, Window!PollRegistered, Window!PollDeleted, Window!PollPaired,
         Window!PollReported, WindowTyped
  <2>2. account' \in Users \cup {NoOne}
    BY <1>1 DEF Window!PollJob, Window!PollSignedIn, Window!PollRefused,
         Window!PollDevices, Window!PollRegistered, Window!PollDeleted, Window!PollPaired,
         Window!PollReported, WindowTyped
  <2>3. devices' \subseteq Devs
    BY <1>1 DEF Window!PollJob, Window!PollSignedIn, Window!PollRefused,
         Window!PollDevices, Window!PollRegistered, Window!PollDeleted, Window!PollPaired,
         Window!PollReported, Window!Done, WindowTyped, JobTyped
  <2>4. \/ job' = Window!Idle
        \/ /\ account \in Users
           /\ job' = [Window!Idle EXCEPT !.kind = "list", !.user = account]
    BY <1>1 DEF Window!PollJob, Window!PollSignedIn, Window!PollRefused,
         Window!PollDevices, Window!PollRegistered, Window!PollDeleted, Window!PollPaired,
         Window!PollReported, WindowTyped
  <2>5. JobTyped'
    <3>1. CASE job' = Window!Idle
      BY <3>1, JobValues DEF JobTyped, Tasks
    <3>2. CASE account \in Users /\ job' = [Window!Idle EXCEPT !.kind = "list", !.user = account]
      BY <3>2, FreshJob DEF Tasks
    <3> QED
      BY <2>4, <3>1, <3>2
  <2> QED
    BY <1>1, <2>1, <2>2, <2>3, <2>5 DEF WindowTyped
<1> QED
  BY <1>1, <1>2, <1>3, <1>4, <1>5 DEF WinInv, Undisturbed, Dialed, Window!ScreenShowsSession,
                                      Window!DialsThePinned

\* What a user does on a screen that shows no session, and that leads to none.
LEMMA ElsewhereStep ==
  ASSUME WinInv, WindowTyped', UNCHANGED <<dialed, pins>>,
         screen \notin {"connecting", "session"}, screen' \notin {"connecting", "session"}
  PROVE  WinInv'
<1>1. dialed = Window!NoSession
  BY DEF WinInv, Window!ScreenShowsSession
<1> QED
  BY <1>1 DEF WinInv, Undisturbed, Dialed, Window!ScreenShowsSession, Window!DialsThePinned

LEMMA MenuStep ==
  ASSUME WinInv,
         \/ \E u \in Users : Window!SignIn(u) \/ Window!CreateAccount(u)
         \/ Window!OpenPairing \/ Window!StartPairing \/ Window!Back \/ Window!SignOut
         \/ Window!DevicesJob
  PROVE  WinInv'
<1>1. WindowTyped
  BY DEF WinInv
<1>2. ASSUME NEW u \in Users, Window!SignIn(u) \/ Window!CreateAccount(u) PROVE WinInv'
  <2>1. JobTyped'
    BY <1>1, <1>2, SpawnType DEF Window!SignIn, Window!CreateAccount, Tasks
  <2>2. /\ screen = "login" /\ account' \in {u, account}
        /\ UNCHANGED <<screen, devices, dialed, pins, keyOf>>
    BY <1>2 DEF Window!SignIn, Window!CreateAccount
  <2>3. WindowTyped'
    BY <1>1, <2>1, <2>2 DEF WindowTyped
  <2> QED
    BY <2>2, <2>3, ElsewhereStep
<1>3. CASE Window!OpenPairing \/ Window!Back
  <2>1. /\ UNCHANGED <<account, devices, job, dialed, pins, keyOf>>
        /\ screen \notin {"connecting", "session"} /\ screen' \notin {"connecting", "session"}
    BY <1>3 DEF Window!OpenPairing, Window!Back, Window!Home
  <2>2. WindowTyped'
    BY <1>1, <2>1 DEF WindowTyped, JobTyped
  <2> QED
    BY <2>1, <2>2, ElsewhereStep
<1>4. CASE Window!StartPairing
  <2>1. JobTyped'
    BY <1>1, <1>4, SpawnType DEF Window!StartPairing, Tasks
  <2>2. screen = "pair" /\ UNCHANGED <<screen, account, devices, dialed, pins, keyOf>>
    BY <1>4 DEF Window!StartPairing
  <2>3. WindowTyped'
    BY <1>1, <2>1, <2>2 DEF WindowTyped
  <2> QED
    BY <2>2, <2>3, ElsewhereStep
<1>5. CASE Window!SignOut
  <2>1. /\ account' = NoOne /\ devices' = {} /\ screen = "devices" /\ screen' = "login"
        /\ UNCHANGED <<job, dialed, pins, keyOf>>
    BY <1>5 DEF Window!SignOut
  <2>2. WindowTyped'
    BY <1>1, <2>1 DEF WindowTyped, JobTyped
  <2> QED
    BY <2>1, <2>2, ElsewhereStep
<1>6. CASE Window!DevicesJob
  <2>1. JobTyped'
    BY <1>1, <1>6, SpawnSignedInType DEF Window!DevicesJob, Tasks
  <2>2. screen = "devices" /\ UNCHANGED <<screen, account, devices, dialed, pins, keyOf>>
    BY <1>6 DEF Window!DevicesJob
  <2>3. WindowTyped'
    BY <1>1, <2>1, <2>2 DEF WindowTyped
  <2> QED
    BY <2>2, <2>3, ElsewhereStep
<1> QED
  BY <1>2, <1>3, <1>4, <1>5, <1>6

\* The verdict on the device that was picked, with nothing dialed yet.
LEMMA BeginConnectStep ==
  ASSUME WinInv, NEW d \in devices, Window!BeginConnect(d)
  PROVE  WinInv'
<1>1. /\ screen = "devices" /\ screen' = "connecting" /\ job = Window!Idle
      /\ conn' \in {"first use", "trusted", "changed"} /\ selected' = d
      /\ UNCHANGED <<account, devices, job, dialed, pins, keyOf>>
  BY DEF Window!BeginConnect, Window!Busy
<1>2. dialed = Window!NoSession /\ d \in Devs
  BY <1>1 DEF WinInv, WindowTyped, Window!ScreenShowsSession
<1> QED
  BY <1>1, <1>2 DEF WinInv, WindowTyped, JobTyped, Undisturbed, Dialed,
                    Window!ScreenShowsSession, Window!DialsThePinned

\* Leaving drops the session and the selection.
LEMMA LeaveStep ==
  ASSUME WinInv, Window!Leave, DOMAIN pins' = Users, UNCHANGED <<account, devices, job, keyOf>>
  PROVE  WinInv'
<1>1. dialed' = Window!NoSession /\ screen' \in {"login", "devices"}
  BY DEF Window!Leave, Window!Home
<1> QED
  BY <1>1 DEF WinInv, WindowTyped, JobTyped, Undisturbed, Dialed,
              Window!ScreenShowsSession, Window!DialsThePinned

\* The recheck holds at the very moment that the session is dialed.
LEMMA ConfirmConnectStep ==
  ASSUME WinInv, Window!ConfirmConnect
  PROVE  WinInv'
<1>1. /\ screen = "connecting" /\ conn \in {"first use", "trusted"}
      /\ UNCHANGED <<account, devices, job, keyOf>>
  BY DEF Window!ConfirmConnect
<1>2. dialed = Window!NoSession /\ selected \in Devs /\ job = Window!Idle
  BY <1>1 DEF WinInv, Window!ScreenShowsSession, Undisturbed
<1>3. CASE Window!Leave /\ UNCHANGED pins
  BY <1>1, <1>3, LeaveStep DEF WinInv, WindowTyped
<1>4. CASE Window!Leave /\ Window!Pin(selected)
  <2>1. DOMAIN pins' = Users
    BY <1>4 DEF Window!Pin, WinInv, WindowTyped
  <2> QED
    BY <1>1, <1>4, <2>1, LeaveStep
<1>5. CASE /\ Window!Recheck(selected) /\ Window!Pin(selected)
           /\ dialed' = [host |-> selected, at |-> "dialing"] /\ conn' = "establishing"
           /\ UNCHANGED <<screen, selected>>
  <2>1. DOMAIN pins' = Users /\ selected.owner \in Users
    BY <1>2, <1>5 DEF Window!Pin, WinInv, WindowTyped, Devs
  <2>2. pins'[selected.owner] = selected.key
    BY <1>5, <2>1 DEF Window!Recheck, Window!Trusts, Window!Pin, Window!NoKey, WinInv, WindowTyped
  <2>3. dialed' # Window!NoSession /\ dialed'.host = selected /\ dialed'.at = "dialing"
    BY <1>5, JobValues
  <2>4. Dialed' /\ Window!DialsThePinned' /\ Window!ScreenShowsSession'
    BY <1>1, <1>2, <1>5, <2>2, <2>3 DEF Dialed, Window!DialsThePinned, Window!ScreenShowsSession
  <2> QED
    BY <1>1, <1>2, <1>5, <2>1, <2>4 DEF WinInv, WindowTyped, JobTyped, Undisturbed
<1> QED
  BY <1>3, <1>4, <1>5 DEF Window!ConfirmConnect, Window!StartSession

\* A session that goes on is still the one that was dialed.
LEMMA GoesOn ==
  ASSUME WinInv, dialed # Window!NoSession, NEW p, p # "none",
         dialed' = [dialed EXCEPT !.at = p],
         \/ screen' = "session"
         \/ screen' = "connecting" /\ conn' \in {"establishing", "password"},
         UNCHANGED <<selected, account, devices, job, pins, keyOf>>
  PROVE  WinInv'
<1>1. /\ dialed' = [host |-> dialed.host, at |-> p] /\ dialed.host \in Devs
      /\ dialed'.host = dialed.host /\ dialed'.at = p /\ dialed' # Window!NoSession
  BY JobValues DEF WinInv, Dialed
<1>2. job = Window!Idle /\ selected \in Devs
  BY DEF WinInv, Undisturbed, Window!ScreenShowsSession
<1> QED
  BY <1>1, <1>2 DEF WinInv, WindowTyped, JobTyped, Undisturbed, Dialed,
                    Window!ScreenShowsSession, Window!DialsThePinned

LEMMA SessionStep ==
  ASSUME WinInv, Window!LeaveSession \/ Window!SubmitPassword \/ Window!SessionUpdate
  PROVE  WinInv'
<1>1. CASE Window!LeaveSession
  BY <1>1, LeaveStep DEF Window!LeaveSession, WinInv, WindowTyped
<1>2. CASE Window!SubmitPassword
  <2>1. dialed # Window!NoSession
    BY <1>2 DEF Window!SubmitPassword, WinInv, Window!ScreenShowsSession
  <2> QED
    BY <1>2, <2>1, GoesOn DEF Window!SubmitPassword
<1>3. CASE Window!SessionUpdate
  <2>1. UNCHANGED <<account, devices, job, pins, keyOf>> /\ DOMAIN pins = Users
    BY <1>3 DEF Window!SessionUpdate, WinInv, WindowTyped
  <2>2. CASE Window!Leave
    BY <2>1, <2>2, LeaveStep
  <2>3. CASE Window!Connected
    BY <2>1, <2>3, GoesOn, JobValues DEF Window!Connected
  <2>4. CASE Window!PasswordRequired
    BY <2>1, <2>4, GoesOn, JobValues DEF Window!PasswordRequired
  <2>5. CASE /\ dialed.at = "asking" /\ dialed' = [dialed EXCEPT !.at = "paired"]
             /\ screen' = "session" /\ UNCHANGED <<conn, selected>>
    BY <2>1, <2>5, GoesOn, JobValues
  <2> QED
    BY <1>3, <2>2, <2>3, <2>4, <2>5 DEF Window!SessionUpdate, Window!Greeted, Window!Ended
<1> QED
  BY <1>1, <1>2, <1>3

\* What happens outside this window.
LEMMA WorldStep ==
  ASSUME WinInv, NEW u \in Users, Window!Reinstall(u) \/ Window!OtherWindow(u)
  PROVE  WinInv'
<1>1. UNCHANGED <<screen, conn, account, devices, job, selected, dialed>>
  BY DEF Window!Reinstall, Window!OtherWindow
<1>2. DOMAIN pins' = Users /\ Window!DialsThePinned'
  BY <1>1, PinKeeps DEF Window!Reinstall, Window!OtherWindow, WinInv, WindowTyped,
                        Window!DialsThePinned
<1>3. keyOf' \in [Users -> Nat \ {0}]
  BY DEF Window!Reinstall, Window!OtherWindow, WinInv, WindowTyped
<1> QED
  BY <1>1, <1>2, <1>3 DEF WinInv, WindowTyped, JobTyped, Undisturbed, Dialed,
                          Window!ScreenShowsSession

LEMMA WindowInit == Window!Init => WinInv
<1> SUFFICES ASSUME Window!Init PROVE WinInv
  OBVIOUS
<1>1. JobTyped
  BY JobValues DEF Window!Init, JobTyped, Tasks
<1> QED
  BY <1>1 DEF Window!Init, WinInv, WindowTyped, Undisturbed, Dialed, Window!ScreenShowsSession,
              Window!DialsThePinned, Window!NoKey

\* Whatever a job that ends late, another window or a reinstalled host does meanwhile:
\* the screen shows the session there is, and that was dialed under the key that is
\* pinned for its owner (begin_connect, confirm_connect, poll_job in main.rs).
THEOREM ThePinnedIsShown == SideSpec => []ShowsWhatIsPinned
<1>1. SideInit => WinInv
  BY WindowInit DEF SideInit
<1>2. WinInv /\ [SideNext]_sideVars => WinInv'
  <2> SUFFICES ASSUME WinInv, [SideNext]_sideVars PROVE WinInv'
    OBVIOUS
  <2>1. CASE UNCHANGED windowVars
    BY <2>1 DEF windowVars, WinInv, WindowTyped, JobTyped, Undisturbed, Dialed,
                Window!ScreenShowsSession, Window!DialsThePinned
  <2>2. CASE Window!Next
    BY <2>2, WorkStep, PollStep, MenuStep, BeginConnectStep, ConfirmConnectStep, SessionStep,
       WorldStep DEF Window!Next
  <2> QED
    BY <2>1, <2>2 DEF SideNext, sideVars, Sessions, Windows, Pages, Touches, Types
<1>3. WinInv => ShowsWhatIsPinned
  BY DEF WinInv, ShowsWhatIsPinned
<1> QED
  BY <1>1, <1>2, <1>3, PTL DEF SideSpec

-----------------------------------------------------------------------------
(* The touch surface.                                                       *)

TouchTyped ==
    /\ touches \in Seq(Fingers)
    /\ finger \in [down : BOOLEAN, most : Nat, moved : BOOLEAN, recent : BOOLEAN]
    /\ truth \in [most : Nat, travelled : BOOLEAN, young : BOOLEAN, unseen : BOOLEAN]

\* Between gestures nothing is armed or counted.
BetweenGestures ==
    ~finger.down => /\ ~dragging /\ ~lp /\ Touch!OnVideo = {}
                    /\ finger.most = 0 /\ truth.most = 0 /\ ~truth.travelled

\* In a gesture the cells count what the fingers do.  One that had three is no tap.
Counted ==
    finger.down => /\ touches # << >>
                   /\ finger.most = truth.most /\ finger.most >= Len(touches)
                   /\ truth.travelled /\ finger.most <= 2 => finger.moved

\* A drag and an armed long press are one finger's; deltas are anchored to the primary
\* finger that is down, a pinch to the two that are.
Anchored ==
    /\ (dragging \/ lp) => Len(touches) = 1
    /\ touches # << >> /\ finger.recent => truth.young
    /\ Touch!OnVideo # {} => prev = <<Head(touches)>>
    /\ Touch!OnVideo # {} /\ Len(touches) = 2 /\ finger.most < 3 => pinch = touches

\* Of what came and went unseen nothing is known, but of a click whether it did.
TouchInv ==
    /\ TouchTyped
    /\ ~truth.unseen => BetweenGestures /\ Counted /\ Anchored /\ Touch!MovesFromItsFingers
    /\ Touch!ClicksAreTaps

\* The touch module counts as any other.
LEMMA SameCount ==
  ASSUME NEW S
  PROVE  Touch!Cardinality(S) = Cardinality(S)
  BY DEF Touch!Cardinality, Cardinality

\* Fingers that land in one event come in some order.
LEMMA Enumerated ==
  ASSUME NEW S \in SUBSET Fingers, S # {}
  PROVE  /\ Touch!SetToSeq(S) \in Seq(Fingers)
         /\ Len(Touch!SetToSeq(S)) \in Nat \ {0}
<1>1. IsFiniteSet(S)
  BY ViewerAssumption, FS_Subset
<1>2. Cardinality(S) \in Nat \ {0} /\ ExistsBijection(1 .. Cardinality(S), S)
  BY <1>1, FS_CardinalityType, FS_EmptySet
<1>3. \E f \in [1 .. Cardinality(S) -> S] : Touch!IsInjective(f)
  <2>1. PICK f : f \in Bijection(1 .. Cardinality(S), S)
    BY <1>2 DEF ExistsBijection
  <2>2. f \in [1 .. Cardinality(S) -> S] /\ \A a, b \in DOMAIN f : f[a] = f[b] => a = b
    BY <2>1 DEF Bijection, Injection, IsInjective
  <2> QED
    BY <2>2 DEF Touch!IsInjective
<1>4. Touch!SetToSeq(S) \in [1 .. Cardinality(S) -> S]
  BY <1>3, SameCount DEF Touch!SetToSeq
<1> QED
  BY <1>2, <1>4

\* More fingers, after those that are down.
LEMMA Landed ==
  ASSUME NEW F, NEW now \in Seq(F), NEW new \in Seq(F), Len(new) \in Nat \ {0}
  PROVE  /\ now \o new \in Seq(F) /\ Len(now \o new) = Len(now) + Len(new)
         /\ now \o new # << >>
         /\ Len(now \o new) = 1 => Len(now) = 0
         /\ Len(now \o new) = 2 => SubSeq(now \o new, 1, 2) = now \o new
  OBVIOUS

\* A finger less, of those that were there.
LEMMA Lifted ==
  ASSUME NEW F, NEW s \in Seq(F), NEW i \in DOMAIN s
  PROVE  /\ Touch!RemoveAt(s, i) \in Seq(F)
         /\ Len(Touch!RemoveAt(s, i)) = Len(s) - 1 /\ Len(s) \in Nat \ {0}
         /\ Touch!ToSet(Touch!RemoveAt(s, i)) \subseteq Touch!ToSet(s)
<1> DEFINE t == Touch!RemoveAt(s, i)
<1>0. i \in 1 .. Len(s) /\ Len(s) \in Nat
  OBVIOUS
<1>1. t \in Seq(F) /\ Len(t) = Len(s) - 1 /\ Len(s) \in Nat \ {0}
  BY DEF Touch!RemoveAt
<1> HIDE DEF t
<1>2. ASSUME NEW j \in 1 .. Len(t) PROVE t[j] \in Touch!ToSet(s)
  <2> DEFINE before == SubSeq(s, 1, i - 1)
             after == SubSeq(s, i + 1, Len(s))
  <2>1. /\ before \in Seq(F) /\ Len(before) = i - 1
        /\ after \in Seq(F) /\ Len(after) = Len(s) - i
    BY <1>0
  <2>2. /\ \A k \in 1 .. Len(before) : before[k] = s[k]
        /\ \A k \in 1 .. Len(after) : after[k] = s[i + k]
    <3>1. \A k \in 1 .. i - 1 : s[k] \in F
      BY <1>0
    <3>2. \A k \in i + 1 .. Len(s) : s[k] \in F
      BY <1>0
    <3>3. \A k \in 1 .. i - 1 : before[k] = s[k]
      <4> HIDE DEF after
      <4>1. \A k \in 1 .. (i - 1) - 1 + 1 : before[k] = s[1 + k - 1]
        BY <1>0, <3>1, SubSeqProperties
      <4> QED
        BY <1>0, <4>1
    <3>4. \A k \in 1 .. Len(s) - i : after[k] = s[i + k]
      <4> HIDE DEF before
      <4>1. \A k \in 1 .. Len(s) - (i + 1) + 1 : after[k] = s[(i + 1) + k - 1]
        BY <1>0, <3>2, SubSeqProperties, SMTT(60)
      <4> HIDE DEF after
      <4>2. ASSUME NEW k \in 1 .. Len(s) - i PROVE after[k] = s[i + k]
        <5>1. k \in 1 .. Len(s) - (i + 1) + 1 /\ (i + 1) + k - 1 = i + k
          BY <1>0
        <5> QED
          BY <4>1, <5>1
      <4> QED
        BY <4>2
    <3> QED
      BY <2>1, <3>3, <3>4
  <2>3. t = before \o after
    BY DEF t, Touch!RemoveAt
  <2> HIDE DEF before, after
  <2>4. t[j] = IF j <= Len(before) THEN before[j] ELSE after[j - Len(before)]
    <3>1. j \in 1 .. Len(before) + Len(after)
      BY <1>0, <1>1, <2>1
    <3> QED
      BY <2>1, <2>3, <3>1, ConcatProperties
  <2>5. CASE j <= Len(before)
    BY <1>0, <1>1, <2>1, <2>2, <2>4, <2>5, SMTT(60) DEF Touch!ToSet
  <2>6. CASE ~(j <= Len(before))
    <3>1. j - Len(before) \in 1 .. Len(after) /\ i + (j - Len(before)) \in 1 .. Len(s)
      BY <1>0, <1>1, <2>1, <2>6
    <3>2. t[j] = s[i + (j - Len(before))]
      BY <2>2, <2>4, <2>6, <3>1
    <3> QED
      BY <3>1, <3>2 DEF Touch!ToSet
  <2> QED
    BY <2>5, <2>6
<1>3. Touch!ToSet(t) \subseteq Touch!ToSet(s)
  BY <1>1, <1>2 DEF Touch!ToSet
<1> QED
  BY <1>1, <1>3 DEF t

\* What moves no pointer and clicks nothing.
LEMMA Still ==
  ASSUME did'.what \notin {"move", "scroll", "zoom", "left", "right"}
  PROVE  Touch!MovesFromItsFingers' /\ Touch!ClicksAreTaps'
  BY DEF Touch!MovesFromItsFingers, Touch!ClicksAreTaps

\* However many land, the one that is left alone may drag, and all are measured anew.
LEMMA TouchStartStep ==
  ASSUME TouchInv, Touch!TouchStart
  PROVE  TouchInv'
<1>1. PICK S \in SUBSET ((Fingers \ Elsewhere) \ Touch!ToSet(touches)) : S # {} /\ Touch!Land(Touch!SetToSeq(S))
  BY DEF Touch!TouchStart
<1> DEFINE new == Touch!SetToSeq(S)
<1>2. new \in Seq(Fingers) /\ Len(new) \in Nat \ {0} /\ touches \in Seq(Fingers)
  BY <1>1, Enumerated DEF TouchInv, TouchTyped
<1>3. Touch!Land(new)
  BY <1>1
<1> HIDE DEF new
<1> DEFINE now == touches \o new
           n == Len(now)
<1>4. /\ now \in Seq(Fingers) /\ now # << >> /\ n \in Nat \ {0}
      /\ n = 1 => touches = << >>
      /\ n = 2 => SubSeq(now, 1, 2) = now
  BY <1>2, Landed, Lengths
<1>5. /\ touches' = now /\ prev' = <<Head(now)>>
      /\ finger' = [down |-> TRUE, most |-> Touch!Larger(n, finger.most),
                    moved |-> n # 1 /\ finger.down /\ finger.moved,
                    recent |-> n = 1 \/ finger.recent]
      /\ truth' = [most |-> IF touches = << >> THEN n ELSE Touch!Larger(n, truth.most),
                   travelled |-> touches # << >> /\ truth.travelled,
                   young |-> touches = << >> \/ truth.young,
                   unseen |-> truth.unseen]
      /\ IF n = 1 THEN Touch!FirstFinger /\ UNCHANGED pinch
         ELSE lp' = FALSE /\ Touch!SecondFinger /\ pinch' = SubSeq(now, 1, 2)
  BY <1>3 DEF Touch!Land, Touch!FirstTwo
<1> HIDE DEF now
<1>6. did'.what \in {"nothing", "press", "release"}
  BY <1>5 DEF Touch!FirstFinger, Touch!SecondFinger, Touch!Tells, Touch!Nothing
<1>7. Touch!MovesFromItsFingers' /\ Touch!ClicksAreTaps'
  BY <1>6, Still
<1>8. TouchTyped'
  BY <1>4, <1>5 DEF TouchInv, TouchTyped, Touch!Larger
<1>9. ASSUME ~truth.unseen PROVE BetweenGestures' /\ Counted' /\ Anchored'
  <2>1. BetweenGestures /\ Counted /\ Anchored /\ TouchTyped
    BY <1>9 DEF TouchInv
  <2>2. touches = << >> => finger.most = 0 /\ ~finger.down
    BY <2>1 DEF BetweenGestures, Counted
  <2>3. finger.most = truth.most
    BY <2>1 DEF BetweenGestures, Counted
  <2>4. Counted'
    BY <1>4, <1>5, <2>1, <2>2, <2>3 DEF Counted, BetweenGestures, TouchTyped, Touch!Larger
  <2>5. (dragging' \/ lp') => n = 1
    BY <1>4, <1>5 DEF Touch!SecondFinger
  <2>6. touches' # << >> /\ finger'.recent => truth'.young
    BY <1>4, <1>5, <2>1 DEF Anchored
  <2>7. Anchored'
    BY <1>4, <1>5, <2>5, <2>6 DEF Anchored
  <2> QED
    BY <1>5, <2>4, <2>7 DEF BetweenGestures
<1> QED
  BY <1>5, <1>7, <1>8, <1>9 DEF TouchInv

\* A movement is measured from the anchor, which is where the fingers were.
LEMMA TouchMoveStep ==
  ASSUME TouchInv, Touch!TouchMove
  PROVE  TouchInv'
<1>1. PICK far \in BOOLEAN :
        /\ Touch!SettleScroll \/ Touch!Pinch \/ Touch!Slide(far)
        /\ truth' = [truth EXCEPT !.travelled = @ \/ far \/ (Len(touches) = 2 /\ pinch # << >>)]
  BY DEF Touch!TouchMove
<1>2. Touch!OnVideo # {} /\ UNCHANGED <<touches, dragging, Touch!OnVideo>> /\ TouchTyped
  BY DEF Touch!TouchMove, TouchInv, Touch!OnVideo
<1>3. /\ truth' \in [most : Nat, travelled : BOOLEAN, young : BOOLEAN, unseen : BOOLEAN]
      /\ truth'.unseen = truth.unseen /\ truth'.most = truth.most /\ truth'.young = truth.young
      /\ truth'.travelled = (truth.travelled \/ far \/ (Len(touches) = 2 /\ pinch # << >>))
  BY <1>1, <1>2 DEF TouchTyped
<1>4. /\ finger' \in [down : BOOLEAN, most : Nat, moved : BOOLEAN, recent : BOOLEAN]
      /\ finger'.down = finger.down /\ finger'.most = finger.most
      /\ finger'.recent = finger.recent /\ (finger.moved => finger'.moved)
      /\ lp' => lp
  BY <1>1, <1>2 DEF TouchTyped, Touch!SettleScroll, Touch!Pinch, Touch!Slide
<1>5. Touch!ClicksAreTaps'
  BY <1>1 DEF Touch!SettleScroll, Touch!Pinch, Touch!Slide, Touch!Tells, Touch!Nothing, Touch!ClicksAreTaps
<1>6. ASSUME ~truth.unseen
      PROVE  BetweenGestures' /\ Counted' /\ Anchored' /\ Touch!MovesFromItsFingers'
  <2>1. /\ Counted /\ Anchored /\ finger.down
        /\ finger.most >= Len(touches) /\ prev = <<Head(touches)>>
        /\ Len(touches) = 2 /\ finger.most < 3 => pinch = touches
    BY <1>2, <1>6 DEF TouchInv, BetweenGestures, Counted, Anchored
  <2>2. CASE Touch!SettleScroll
    <3>1. Len(touches) = 2 /\ finger.most >= 3 /\ UNCHANGED <<finger, lp, prev>>
      BY <2>2 DEF Touch!SettleScroll
    <3>2. Touch!MovesFromItsFingers'
      BY <2>2, Still DEF Touch!SettleScroll, Touch!Tells, Touch!Nothing
    <3>3. Counted' /\ Anchored'
      BY <1>2, <1>3, <2>1, <3>1 DEF Counted, Anchored, TouchTyped
    <3> QED
      BY <1>4, <2>1, <3>2, <3>3 DEF BetweenGestures
  <2>3. CASE Touch!Pinch
    <3>1. Len(touches) = 2 /\ finger.most < 3 /\ pinch' = touches /\ UNCHANGED <<lp, prev>>
      BY <2>3 DEF Touch!Pinch
    <3>2. pinch = touches /\ pinch # << >>
      BY <2>1, <3>1 DEF Counted
    <3>3. finger'.moved /\ did'.what = "zoom" /\ did'.from = touches
      BY <1>2, <2>3, <3>2 DEF Touch!Pinch, Touch!Nothing, TouchTyped
    <3>4. Touch!MovesFromItsFingers'
      BY <1>2, <3>3 DEF Touch!MovesFromItsFingers
    <3>5. Counted' /\ Anchored'
      BY <1>2, <1>3, <1>4, <2>1, <3>1, <3>3 DEF Counted, Anchored
    <3> QED
      BY <1>4, <2>1, <3>4, <3>5 DEF BetweenGestures
  <2>4. CASE Touch!Slide(far)
    <3>1. Len(touches) # 2 /\ prev' = <<Head(touches)>> /\ UNCHANGED pinch
      BY <2>4 DEF Touch!Slide
    <3>2. far => finger'.moved
      BY <1>2, <2>4 DEF Touch!Slide, TouchTyped
    <3>3. did'.from = prev /\ did'.what \in {"move", "scroll"}
      BY <2>4 DEF Touch!Slide, Touch!Nothing
    <3>4. Touch!MovesFromItsFingers'
      BY <1>2, <2>1, <3>3 DEF Touch!MovesFromItsFingers
    <3>5. Counted' /\ Anchored'
      BY <1>2, <1>3, <1>4, <2>1, <3>1, <3>2 DEF Counted, Anchored
    <3> QED
      BY <1>4, <2>1, <3>4, <3>5 DEF BetweenGestures
  <2> QED
    BY <1>1, <2>2, <2>3, <2>4
<1> QED
  BY <1>2, <1>3, <1>4, <1>5, <1>6 DEF TouchInv, TouchTyped

\* The lift that leaves the page free ends whatever the gesture was.
LEMMA TouchEndStep ==
  ASSUME TouchInv, NEW i \in DOMAIN touches, Touch!TouchEnd(i)
  PROVE  TouchInv'
<1> DEFINE left == Touch!RemoveAt(touches, i)
<1>0. TouchTyped /\ Touch!OnVideo # {}
  BY DEF TouchInv, TouchTyped, Touch!TouchEnd, Touch!OnVideo, Touch!ToSet
<1>1. left \in Seq(Fingers) /\ Len(left) = Len(touches) - 1 /\ Len(touches) \in Nat \ {0}
  BY <1>0, Lifted DEF TouchTyped
<1>2. touches' = left /\ pinch' = << >>
  BY DEF Touch!TouchEnd
<1>3. CASE left # << >>
  <2>1. prev' = <<Head(left)>> /\ did' = Touch!Nothing /\ UNCHANGED <<finger, lp, dragging>>
    BY <1>3 DEF Touch!TouchEnd, Touch!Reanchor, Touch!Tells, Touch!Nothing
  <2> HIDE DEF left
  <2>2. Len(left) \in Nat \ {0}
    BY <1>1, <1>3, Lengths
  <2>3. truth' = truth
    <3>1. Len(touches) # 1
      BY <1>1, <2>2
    <3> QED
      BY <3>1 DEF Touch!TouchEnd
  <2>4. Touch!MovesFromItsFingers' /\ Touch!ClicksAreTaps'
    BY <2>1, Still DEF Touch!Nothing
  <2>5. ASSUME ~truth.unseen PROVE BetweenGestures' /\ Counted' /\ Anchored'
    <3>1. /\ finger.down /\ Counted /\ ~dragging /\ ~lp
          /\ touches # << >> /\ finger.recent => truth.young
      BY <1>0, <1>1, <2>2, <2>5 DEF TouchInv, BetweenGestures, Anchored
    <3>2. Counted'
      BY <1>0, <1>1, <1>2, <1>3, <2>1, <2>3, <3>1 DEF Counted, TouchTyped
    <3>3. Len(left) = 2 => finger.most >= 3
      BY <1>0, <1>1, <3>1 DEF Counted, TouchTyped
    <3>4. touches # << >>
      BY <3>1 DEF Counted
    <3>5. Anchored'
      BY <1>0, <1>2, <2>1, <2>3, <3>1, <3>3, <3>4 DEF Anchored, TouchTyped
    <3> QED
      BY <2>1, <3>1, <3>2, <3>5 DEF BetweenGestures
  <2> QED
    BY <1>0, <1>1, <1>2, <2>1, <2>3, <2>4, <2>5 DEF TouchInv, TouchTyped
<1>4. CASE left = << >>
  <2>1. /\ finger' = [finger EXCEPT !.down = FALSE, !.most = 0]
        /\ lp' = FALSE /\ dragging' = FALSE
        /\ IF dragging THEN Touch!Tells("release") ELSE IF finger.moved THEN Touch!Tells("nothing")
           ELSE Touch!Click
    BY <1>4 DEF Touch!TouchEnd, Touch!LastUp
  <2> HIDE DEF left
  <2>2. Len(touches) = 1 /\ touches' = << >>
    BY <1>1, <1>2, <1>4
  <2>3. truth' = Touch!NoTruth
    BY <2>2 DEF Touch!TouchEnd
  <2>4. did'.what \notin {"move", "scroll", "zoom"}
    BY <2>1 DEF Touch!Click, Touch!Clicks, Touch!Tells, Touch!Nothing
  <2>5. Touch!MovesFromItsFingers'
    BY <2>4 DEF Touch!MovesFromItsFingers
  <2>6. Touch!ClicksAreTaps'
    <3>1. CASE did'.what \notin {"left", "right"}
      BY <3>1 DEF Touch!ClicksAreTaps
    <3>2. CASE did'.what \in {"left", "right"}
      <4>1. Touch!Click /\ ~finger.moved
        BY <2>1, <3>2 DEF Touch!Tells, Touch!Nothing
      <4>2. /\ did'.of = truth
            /\ did'.what = "left" => finger.most = 1
            /\ did'.what = "right" => finger.most = 2 /\ finger.recent
        <5>1. CASE finger.most = 1 /\ Touch!Clicks("left")
          BY <5>1 DEF Touch!Clicks, Touch!Nothing
        <5>2. CASE finger.most = 2 /\ finger.recent /\ Touch!Clicks("right")
          BY <5>2 DEF Touch!Clicks, Touch!Nothing
        <5>3. ~Touch!Tells("nothing")
          BY <3>2 DEF Touch!Tells, Touch!Nothing
        <5> QED
          BY <4>1, <5>1, <5>2, <5>3 DEF Touch!Click
      <4>3. ~truth.unseen => /\ finger.down /\ Counted
                             /\ touches # << >> /\ finger.recent => truth.young
        BY <1>0 DEF TouchInv, BetweenGestures, Anchored
      <4> QED
        BY <1>0, <4>1, <4>2, <4>3 DEF Touch!ClicksAreTaps, Counted, TouchTyped
    <3> QED
      BY <3>1, <3>2
  <2>7. TouchTyped'
    BY <1>0, <1>1, <1>2, <2>1, <2>3 DEF TouchTyped, Touch!NoTruth
  <2>8. Touch!OnVideo' = {}
    BY <2>2 DEF Touch!OnVideo, Touch!ToSet
  <2>9. BetweenGestures' /\ Counted' /\ Anchored'
    BY <1>0, <2>1, <2>2, <2>3, <2>8 DEF BetweenGestures, Counted, Anchored, TouchTyped, Touch!NoTruth
  <2> QED
    BY <2>5, <2>6, <2>7, <2>9 DEF TouchInv
<1> QED
  BY <1>3, <1>4

\* The timer fires for the one finger it was set for.
LEMMA LongPressStep ==
  ASSUME TouchInv, Touch!LongPress
  PROVE  TouchInv'
<1>1. /\ lp /\ ~lp' /\ did'.what \in {"press", "nothing"}
      /\ UNCHANGED <<touches, finger, truth, prev, pinch, Touch!OnVideo>>
      /\ UNCHANGED dragging \/ finger.down
  BY DEF Touch!LongPress, Touch!Tells, Touch!Nothing, Touch!OnVideo
<1>2. Touch!MovesFromItsFingers' /\ Touch!ClicksAreTaps'
  BY <1>1, Still
<1> QED
  BY <1>1, <1>2 DEF TouchInv, TouchTyped, BetweenGestures, Counted, Anchored

\* Fingers that change unseen are none of a gesture that has not begun.
LEMMA UnseenStep ==
  ASSUME TouchInv, Touch!Unseen, touches' \in Seq(Fingers),
         Touch!OnVideo' \subseteq Touch!OnVideo
  PROVE  TouchInv'
<1>1. /\ UNCHANGED <<finger, lp, prev, pinch, dragging>> /\ did' = Touch!Nothing
      /\ truth' = [truth EXCEPT !.young = @ \/ touches = << >>, !.unseen = @ \/ finger.down]
      /\ TouchTyped
  BY DEF Touch!Unseen, TouchInv
<1>2. TouchTyped'
  BY <1>1 DEF TouchTyped
<1>3. Touch!MovesFromItsFingers' /\ Touch!ClicksAreTaps'
  BY <1>1, Still DEF Touch!Nothing
<1>4. /\ truth'.unseen = (truth.unseen \/ finger.down) /\ truth'.young = (truth.young \/ touches = << >>)
      /\ truth'.most = truth.most /\ truth'.travelled = truth.travelled
  BY <1>1 DEF TouchTyped
<1>5. ASSUME ~truth'.unseen PROVE BetweenGestures' /\ Counted' /\ Anchored'
  <2>1. ~finger.down /\ BetweenGestures /\ Anchored
    BY <1>4, <1>5 DEF TouchInv
  <2>2. ~dragging /\ ~lp /\ Touch!OnVideo = {} /\ finger.most = 0 /\ truth.most = 0 /\ ~truth.travelled
    BY <2>1 DEF BetweenGestures
  <2>3. Touch!OnVideo' = {}
    BY <2>2
  <2>4. finger.recent => truth'.young
    BY <1>4, <2>1 DEF Anchored
  <2> QED
    BY <1>1, <1>4, <2>1, <2>2, <2>3, <2>4 DEF BetweenGestures, Counted, Anchored
<1> QED
  BY <1>2, <1>3, <1>5 DEF TouchInv

\* A finger beside the video lands.
LEMMA LandElsewhereStep ==
  ASSUME TouchInv, NEW f \in Elsewhere, Touch!LandElsewhere(f)
  PROVE  TouchInv'
<1>1. touches' = Append(touches, f) /\ Touch!Unseen /\ f \in Fingers /\ touches \in Seq(Fingers)
  BY ViewerAssumption DEF Touch!LandElsewhere, TouchInv, TouchTyped
<1>2. touches' \in Seq(Fingers) /\ Touch!ToSet(touches') \subseteq Touch!ToSet(touches) \cup {f}
  BY <1>1 DEF Touch!ToSet
<1>3. Touch!OnVideo' \subseteq Touch!OnVideo
  BY <1>2 DEF Touch!OnVideo
<1> QED
  BY <1>1, <1>2, <1>3, UnseenStep

\* A finger goes.
LEMMA GoneStep ==
  ASSUME TouchInv, NEW i \in DOMAIN touches, touches' = Touch!RemoveAt(touches, i), Touch!Unseen
  PROVE  TouchInv'
<1>1. touches \in Seq(Fingers)
  BY DEF TouchInv, TouchTyped
<1>2. touches' \in Seq(Fingers) /\ Touch!ToSet(touches') \subseteq Touch!ToSet(touches)
  BY <1>1, Lifted
<1>3. Touch!OnVideo' \subseteq Touch!OnVideo
  BY <1>2 DEF Touch!OnVideo
<1> QED
  BY <1>2, <1>3, UnseenStep

\* It lifts beside the video, or the system takes it, or all.
LEMMA LiftElsewhereStep ==
  ASSUME TouchInv, NEW i \in DOMAIN touches, Touch!LiftElsewhere(i)
  PROVE  TouchInv'
  BY GoneStep DEF Touch!LiftElsewhere

LEMMA TouchCancelStep ==
  ASSUME TouchInv, Touch!TouchCancel
  PROVE  TouchInv'
<1>1. CASE touches' = << >>
  <2>1. touches' \in Seq(Fingers) /\ Touch!OnVideo' = {}
    BY <1>1, EmptySequence DEF Touch!OnVideo, Touch!ToSet
  <2> QED
    BY <2>1, UnseenStep DEF Touch!TouchCancel
<1>2. CASE touches' # << >>
  BY <1>2, GoneStep DEF Touch!TouchCancel
<1> QED
  BY <1>1, <1>2

\* New callbacks begin anew, with fingers they have not seen if there are any.
LEMMA AttachStep ==
  ASSUME TouchInv, Touch!Attach
  PROVE  TouchInv'
<1>1. /\ finger' = Touch!NoGesture /\ ~lp' /\ ~dragging' /\ did' = Touch!Nothing
      /\ truth' = [Touch!NoTruth EXCEPT !.young = truth.young, !.unseen = Touch!OnVideo # {}]
      /\ UNCHANGED <<touches, Touch!OnVideo>> /\ TouchTyped
  BY DEF Touch!Attach, TouchInv, Touch!OnVideo
<1>2. TouchTyped'
  BY <1>1 DEF TouchTyped, Touch!NoGesture, Touch!NoTruth
<1>3. Touch!MovesFromItsFingers' /\ Touch!ClicksAreTaps'
  BY <1>1, Still DEF Touch!Nothing
<1>4. ASSUME ~truth'.unseen PROVE BetweenGestures' /\ Counted' /\ Anchored'
  <2>1. Touch!OnVideo' = {}
    BY <1>1, <1>4 DEF Touch!NoTruth
  <2> QED
    BY <1>1, <2>1 DEF BetweenGestures, Counted, Anchored, Touch!NoGesture, Touch!NoTruth
<1> QED
  BY <1>2, <1>3, <1>4 DEF TouchInv

\* Time, and the mode of a drag.
LEMMA TimeStep ==
  ASSUME TouchInv, Touch!Wait \/ Touch!SetMode
  PROVE  TouchInv'
<1>1. did' = Touch!Nothing /\ UNCHANGED <<touches, lp, prev, pinch, dragging, Touch!OnVideo>> /\ TouchTyped
  BY DEF Touch!Wait, Touch!SetMode, TouchInv, Touch!OnVideo
<1>2. \/ UNCHANGED <<finger, truth>>
      \/ /\ finger' = [finger EXCEPT !.recent = FALSE]
         /\ truth' = [truth EXCEPT !.young = FALSE]
  BY DEF Touch!Wait, Touch!SetMode
<1>3. TouchTyped'
  BY <1>1, <1>2 DEF TouchTyped
<1>4. Touch!MovesFromItsFingers' /\ Touch!ClicksAreTaps'
  BY <1>1, Still DEF Touch!Nothing
<1>5. ~truth'.unseen => BetweenGestures' /\ Counted' /\ Anchored'
  BY <1>1, <1>2 DEF TouchInv, TouchTyped, BetweenGestures, Counted, Anchored
<1> QED
  BY <1>3, <1>4, <1>5 DEF TouchInv

\* Whatever fingers do elsewhere on the page, whatever the system or a new channel cuts:
\* a gesture that no such finger came into or went from has its button held for one finger
\* that is down, moves, scrolls and zooms from where its very fingers were, and clicks for
\* the tap that was made (the touch callbacks and the long-press timer of attach_input).
THEOREM GesturesFollowTheFingers == SideSpec => []FollowsTheFingers
<1>1. SideInit => TouchInv
  <2> SUFFICES ASSUME Touch!Init PROVE TouchInv
    BY DEF SideInit
  <2>1. /\ touches = << >> /\ touches \in Seq(Fingers) /\ did = Touch!Nothing /\ ~lp /\ ~dragging
        /\ finger = Touch!NoGesture /\ truth = Touch!NoTruth
    BY EmptySequence DEF Touch!Init
  <2>2. Touch!OnVideo = {}
    BY <2>1 DEF Touch!OnVideo, Touch!ToSet
  <2>3. Touch!MovesFromItsFingers /\ Touch!ClicksAreTaps
    BY <2>1 DEF Touch!MovesFromItsFingers, Touch!ClicksAreTaps, Touch!Nothing
  <2> QED
    BY <2>1, <2>2, <2>3 DEF TouchInv, TouchTyped, BetweenGestures, Counted, Anchored,
                            Touch!NoGesture, Touch!NoTruth
<1>2. TouchInv /\ [SideNext]_sideVars => TouchInv'
  <2> SUFFICES ASSUME TouchInv, [SideNext]_sideVars PROVE TouchInv'
    OBVIOUS
  <2>1. CASE UNCHANGED touchVars
    <3>1. UNCHANGED <<touches, finger, lp, prev, pinch, dragging, did, truth, Touch!OnVideo>>
      BY <2>1 DEF touchVars, Touch!OnVideo
    <3>2. (TouchTyped <=> TouchTyped') /\ (Anchored <=> Anchored')
      BY <3>1 DEF TouchTyped, Anchored
    <3>3. (BetweenGestures <=> BetweenGestures') /\ (Counted <=> Counted')
      BY <3>1 DEF BetweenGestures, Counted
    <3>4. (Touch!MovesFromItsFingers <=> Touch!MovesFromItsFingers')
          /\ (Touch!ClicksAreTaps <=> Touch!ClicksAreTaps')
      BY <3>1 DEF Touch!MovesFromItsFingers, Touch!ClicksAreTaps
    <3> QED
      BY <3>1, <3>2, <3>3, <3>4 DEF TouchInv
  <2>2. CASE Touch!Next
    BY <2>2, TouchStartStep, TouchMoveStep, TouchEndStep, LongPressStep,
       LandElsewhereStep, LiftElsewhereStep, TouchCancelStep, AttachStep, TimeStep DEF Touch!Next
  <2> QED
    BY <2>1, <2>2 DEF SideNext, sideVars, Sessions, Windows, Pages, Touches, Types
<1>3. TouchInv => FollowsTheFingers
  BY DEF TouchInv, FollowsTheFingers, Touch!SeenIsFollowed, Touch!HeldWhileTouched, Anchored
<1> QED
  BY <1>1, <1>2, <1>3, PTL DEF SideSpec

-----------------------------------------------------------------------------
(* The rebuilds of a session.                                               *)

Frames  == [t : {"offer", "candidate"}, host : Nat \ {0}]
Hellos  == [t : {"hello"}, proof : Nat, password : {"none", "right", "wrong"}]
Answers == [t : {"answer"}, host : Nat \ {0}, viewer : Nat \ {0}]
Acks    == [t : {"ack"}, proof : Nat, said : {"reject", "password", "accept"}]
Notices == [t : {"connected", "disconnected"}]

ViewerPcs == [id : Nat \ {0}, offer : Nat, heard : SUBSET Nat, early : SUBSET Nat,
              rebuild : {"no", "drain", "now"}, pending : Nat, up : BOOLEAN]

SessionTyped ==
    /\ host \in [id : Nat \ {0}, negotiated : BOOLEAN, by : Nat, up : BOOLEAN, losses : Nat]
    /\ pc \in ViewerPcs
    /\ toViewer \in Seq(Frames) /\ toHost \in Seq(Answers)
    /\ cmds \in Seq(Frames \cup Hellos)
    /\ events \in Seq(Answers \cup Acks \cup Notices)
    /\ known \in [local : Nat, host : Nat]
    /\ channel \in [toHost : Seq(Hellos), toViewer : Seq(Acks)]

\* How many of a kind are under way in a queue.
Count(s, kind) == Cardinality({i \in DOMAIN s : s[i].t = kind})
Is(m, kind)    == IF m.t = kind THEN 1 ELSE 0

Answered   == IF host.negotiated THEN 1 ELSE 0
OffersOut  == Count(toViewer, "offer") + Count(cmds, "offer") + (IF pc.pending = 0 THEN 0 ELSE 1)
AnswersOut == Count(events, "answer") + Count(toHost, "answer")

\* A host's connection is spent on an offer and an answer: what is spent, still under way
\* or taken is what the first connection and the losses brought, and it never runs out.
Turns ==
    /\ Answered + OffersOut + AnswersOut >= 1
    /\ host.id + Answered + OffersOut + AnswersOut <= 2 + 2 * host.losses

\* Each of the viewer's connections was made for an offer, or waits for one.
Spent ==
    /\ pc.id + OffersOut <= host.id + (IF pc.offer = 0 THEN 1 ELSE 0)
    /\ pc.pending # 0 \/ pc.rebuild # "no" => pc.offer # 0

\* What is up is linked, or the host has gone on; before a loss there is one connection.
Rebuilds ==
    /\ ~host.negotiated => host.by = 0
    /\ pc.up => pc.offer # 0 /\ (Session!Linked \/ host.id > pc.offer)
    /\ host.losses = 0 => pc.id = 1 /\ pc.rebuild = "no"

SessionInv == SessionTyped /\ Turns /\ Spent /\ Rebuilds

\* What is counted of a sequence is no more than it is long.
LEMMA CountIsNat ==
  ASSUME NEW S, NEW s \in Seq(S), NEW kind
  PROVE  Count(s, kind) \in Nat /\ IsFiniteSet({i \in DOMAIN s : s[i].t = kind})
<1>1. {i \in DOMAIN s : s[i].t = kind} \subseteq 1 .. Len(s) /\ Len(s) \in Nat
  OBVIOUS
<1>2. IsFiniteSet(1 .. Len(s))
  BY <1>1, FS_Interval
<1> QED
  BY <1>1, <1>2, FS_Subset, FS_CardinalityType DEF Count

LEMMA CountOfNone ==
  ASSUME NEW kind
  PROVE  Count(<< >>, kind) = 0
<1>1. {i \in DOMAIN << >> : << >>[i].t = kind} = {}
  OBVIOUS
<1> QED
  BY <1>1, FS_EmptySet DEF Count

\* A message that joins a queue is one more of its kind.
LEMMA CountAppended ==
  ASSUME NEW S, NEW s \in Seq(S), NEW m \in S, NEW kind
  PROVE  Count(Append(s, m), kind) = Count(s, kind) + Is(m, kind)
<1> DEFINE before == {i \in DOMAIN s : s[i].t = kind}
           after  == {i \in DOMAIN Append(s, m) : Append(s, m)[i].t = kind}
<1>1. /\ Len(s) \in Nat /\ DOMAIN s = 1 .. Len(s)
      /\ DOMAIN Append(s, m) = 1 .. (Len(s) + 1)
      /\ \A i \in 1 .. Len(s) : Append(s, m)[i] = s[i]
      /\ Append(s, m)[Len(s) + 1] = m
  OBVIOUS
<1>2. IsFiniteSet(before) /\ Cardinality(before) \in Nat
  BY CountIsNat DEF Count
<1>3. Len(s) + 1 \notin before
  BY <1>1
<1>4. CASE m.t = kind
  <2>1. after = before \cup {Len(s) + 1}
    BY <1>1, <1>4
  <2>2. Cardinality(after) = Cardinality(before) + 1
    BY <1>2, <1>3, <2>1, FS_AddElement
  <2> QED
    BY <1>4, <2>2 DEF Count, Is
<1>5. CASE m.t # kind
  <2>1. after = before
    BY <1>1, <1>5
  <2>2. /\ Is(m, kind) = 0 /\ Count(s, kind) = Cardinality(before)
        /\ Count(Append(s, m), kind) = Cardinality(after)
    BY <1>5 DEF Is, Count
  <2> HIDE DEF before, after
  <2> QED
    BY <1>2, <2>1, <2>2
<1> QED
  BY <1>4, <1>5

\* A message that is taken was one of its kind.
LEMMA CountTaken ==
  ASSUME NEW S, NEW s \in Seq(S), s # << >>, NEW kind
  PROVE  /\ Tail(s) \in Seq(S) /\ Head(s) \in S
         /\ Count(s, kind) = Count(Tail(s), kind) + Is(Head(s), kind)
<1> DEFINE rest  == {i \in DOMAIN Tail(s) : Tail(s)[i].t = kind}
           later == {i \in DOMAIN s : i # 1 /\ s[i].t = kind}
           all   == {i \in DOMAIN s : s[i].t = kind}
<1>1. /\ Len(s) \in Nat \ {0} /\ DOMAIN s = 1 .. Len(s) /\ Head(s) = s[1] /\ Head(s) \in S
      /\ Tail(s) \in Seq(S)
      /\ DOMAIN Tail(s) = 1 .. (Len(s) - 1)
      /\ \A i \in 1 .. (Len(s) - 1) : Tail(s)[i] = s[i + 1]
  OBVIOUS
<1>2. IsFiniteSet(rest) /\ Cardinality(rest) \in Nat
  BY <1>1, CountIsNat DEF Count
<1>3. Cardinality(later) = Cardinality(rest) /\ IsFiniteSet(later)
  <2> DEFINE f == [i \in rest |-> i + 1]
  <2>1. f \in [rest -> later]
    BY <1>1
  <2>2. \A a, b \in DOMAIN f : f[a] = f[b] => a = b
    BY <1>1
  <2>3. \A j \in later : \E i \in rest : f[i] = j
    <3> SUFFICES ASSUME NEW j \in later PROVE j - 1 \in rest /\ f[j - 1] = j
      OBVIOUS
    <3> QED
      BY <1>1
  <2>4. f \in Bijection(rest, later)
    <3> HIDE DEF f, rest, later
    <3> QED
      BY <2>1, <2>2, <2>3 DEF Bijection, Injection, Surjection, IsInjective
  <2>5. ExistsBijection(rest, later)
    BY <2>4 DEF ExistsBijection
  <2> HIDE DEF rest, later
  <2> QED
    BY <1>2, <2>5, FS_Bijection
<1>4. CASE Head(s).t = kind
  <2>1. all = later \cup {1} /\ 1 \notin later
    BY <1>1, <1>4
  <2>2. Cardinality(all) = Cardinality(later) + 1
    BY <1>3, <2>1, FS_AddElement
  <2> QED
    BY <1>1, <1>3, <1>4, <2>2 DEF Count, Is
<1>5. CASE Head(s).t # kind
  <2>1. all = later
    BY <1>1, <1>5
  <2>2. /\ Is(Head(s), kind) = 0 /\ Count(s, kind) = Cardinality(all)
        /\ Count(Tail(s), kind) = Cardinality(rest)
    BY <1>5 DEF Is, Count
  <2> HIDE DEF all, later, rest
  <2> QED
    BY <1>2, <1>3, <2>1, <2>2
<1> QED
  BY <1>1, <1>4, <1>5

\* Two things added at once.
LEMMA Twice ==
  ASSUME NEW S, NEW q \in Seq(S), NEW a \in S, NEW b \in S
  PROVE  /\ q \o <<a, b>> = Append(Append(q, a), b)
         /\ Append(q, a) \in Seq(S) /\ Append(Append(q, a), b) \in Seq(S)
  OBVIOUS

LEMMA Kinds ==
  /\ \A m \in Hellos : Is(m, "offer") = 0 /\ m.t = "hello"
  /\ \A m \in Frames : m.t = "candidate" => Is(m, "offer") = 0
  /\ \A m \in Frames : m.t = "offer" => Is(m, "offer") = 1
  /\ \A m \in Answers : Is(m, "answer") = 1 /\ m.t = "answer"
  /\ \A m \in Acks : Is(m, "answer") = 0 /\ m.t = "ack"
  /\ \A m \in Notices : Is(m, "answer") = 0 /\ m.t \in {"connected", "disconnected"}
  BY DEF Is, Hellos, Frames, Answers, Acks, Notices

LEMMA Messages ==
  /\ \A n \in Nat \ {0} : Session!Offer(n) \in Frames /\ Session!Offer(n).t = "offer"
  /\ \A n \in Nat \ {0} : Session!Candidate(n) \in Frames /\ Session!Candidate(n).t = "candidate"
  /\ \A n, v \in Nat \ {0} : Session!Answer(n, v) \in Answers
  /\ \A n \in Nat, said \in {"reject", "password", "accept"} : Session!Ack(n, said) \in Acks
  /\ \A v \in Nat, pw \in {"none", "right", "wrong"} : Session!Hello(v, pw) \in Hellos
  BY DEF Session!Offer, Session!Candidate, Session!Answer, Session!Ack, Session!Hello,
         Frames, Answers, Acks, Hellos

\* The counts are of queues, so they are numbers.
LEMMA CountsAreNat ==
  ASSUME SessionTyped
  PROVE  /\ Count(toViewer, "offer") \in Nat /\ Count(cmds, "offer") \in Nat
         /\ Count(events, "answer") \in Nat /\ Count(toHost, "answer") \in Nat
         /\ OffersOut \in Nat /\ AnswersOut \in Nat /\ Answered \in Nat
<1>1. /\ Count(toViewer, "offer") \in Nat /\ Count(cmds, "offer") \in Nat
      /\ Count(events, "answer") \in Nat /\ Count(toHost, "answer") \in Nat
  BY CountIsNat DEF SessionTyped
<1> QED
  BY <1>1 DEF OffersOut, AnswersOut, Answered

\* A step that spends nothing and rebuilds nothing.
LEMMA Unmoved ==
  ASSUME SessionInv, SessionTyped',
         host'.id = host.id, host'.negotiated = host.negotiated, host'.by = host.by,
         host'.losses = host.losses,
         pc'.id = pc.id, pc'.offer = pc.offer, pc'.pending = pc.pending,
         pc'.rebuild = pc.rebuild,
         pc'.up => pc.up \/ Session!Linked,
         OffersOut' = OffersOut, AnswersOut' = AnswersOut
  PROVE  SessionInv'
<1>1. Turns'
  BY DEF SessionInv, Turns, Answered
<1>2. Spent'
  BY DEF SessionInv, Spent
<1>3. Rebuilds'
  <2>1. Session!Linked' <=> Session!Linked
    BY DEF Session!Linked
  <2>2. Session!Linked => pc.offer # 0
    BY DEF Session!Linked, SessionInv, SessionTyped
  <2> QED
    BY <2>1, <2>2 DEF SessionInv, Rebuilds
<1> QED
  BY <1>1, <1>2, <1>3 DEF SessionInv

\* The host offers anew, for an answer or for a loss.
LEMMA HostRebuildStep ==
  ASSUME SessionTyped, NEW losses \in Nat, Session!HostRebuild(losses)
  PROVE  /\ host'.id = host.id + 1 /\ ~host'.negotiated /\ host'.by = 0 /\ ~host'.up
         /\ host'.losses = losses
         /\ host' \in [id : Nat \ {0}, negotiated : BOOLEAN, by : Nat, up : BOOLEAN, losses : Nat]
         /\ toViewer' \in Seq(Frames)
         /\ Count(toViewer, "offer")' = Count(toViewer, "offer") + 1
         /\ channel' \in [toHost : Seq(Hellos), toViewer : Seq(Acks)]
<1> DEFINE n == host.id + 1
<1>1. n \in Nat \ {0}
  BY DEF SessionTyped
<1>2. host' = [[id |-> n, negotiated |-> FALSE, by |-> 0, up |-> FALSE, losses |-> host.losses]
                  EXCEPT !.losses = losses]
  BY DEF Session!HostRebuild, Session!HostPc
<1>3. toViewer' = toViewer \o <<Session!Offer(n), Session!Candidate(n)>>
  BY DEF Session!HostRebuild
<1>4. channel' = [toHost |-> << >>, toViewer |-> << >>]
  BY DEF Session!HostRebuild, Session!Silence
<1>5. Session!Offer(n) \in Frames /\ Session!Candidate(n) \in Frames
  BY <1>1, Messages
<1> DEFINE once == Append(toViewer, Session!Offer(n))
<1>6. toViewer' = Append(once, Session!Candidate(n)) /\ once \in Seq(Frames)
  <2>1. toViewer \in Seq(Frames)
    BY DEF SessionTyped
  <2> QED
    BY <1>3, <1>5, <2>1, Twice
<1>7. toViewer' \in Seq(Frames)
  BY <1>5, <1>6, Appended
<1>8. Count(once, "offer") = Count(toViewer, "offer") + 1
  <2>1. Count(once, "offer") = Count(toViewer, "offer") + Is(Session!Offer(n), "offer")
    BY <1>5, CountAppended DEF SessionTyped
  <2> QED
    BY <1>1, <1>5, <2>1, Kinds, Messages
<1>9. Count(toViewer', "offer") = Count(toViewer, "offer") + 1
  <2> HIDE DEF once
  <2>1. Count(toViewer', "offer") = Count(once, "offer") + Is(Session!Candidate(n), "offer")
    BY <1>5, <1>6, CountAppended
  <2>2. Is(Session!Candidate(n), "offer") = 0
    BY <1>1, <1>5, Kinds, Messages
  <2> QED
    BY <1>8, <2>1, <2>2, CountsAreNat
<1>10. << >> \in Seq(Hellos) /\ << >> \in Seq(Acks)
  BY EmptySequence
<1>11. /\ host'.id = n /\ ~host'.negotiated /\ host'.by = 0 /\ ~host'.up /\ host'.losses = losses
       /\ host' \in [id : Nat \ {0}, negotiated : BOOLEAN, by : Nat, up : BOOLEAN, losses : Nat]
  BY <1>1, <1>2 DEF SessionTyped
<1> QED
  BY <1>4, <1>7, <1>9, <1>10, <1>11

\* One more loss pays for two more connections; a second answer is paid by itself.
LEMMA HostLosesStep ==
  ASSUME SessionInv, Session!HostLoses
  PROVE  SessionInv'
<1>1. SessionTyped /\ host.losses + 1 \in Nat /\ host.losses \in Nat
      /\ host.id \in Nat /\ pc.offer \in Nat /\ pc.id \in Nat
  BY DEF SessionInv, SessionTyped, ViewerPcs
<1>2. Session!HostRebuild(host.losses + 1) /\ UNCHANGED <<toHost, cmds, events, pc, known, app>>
  BY DEF Session!HostLoses
<1>3. /\ host'.id = host.id + 1 /\ ~host'.negotiated /\ host'.by = 0
      /\ host'.losses = host.losses + 1 /\ SessionTyped'
      /\ Count(toViewer, "offer")' = Count(toViewer, "offer") + 1
  BY <1>1, <1>2, HostRebuildStep DEF SessionTyped
<1>4. OffersOut' = OffersOut + 1 /\ AnswersOut' = AnswersOut
  BY <1>1, <1>2, <1>3, CountsAreNat DEF OffersOut, AnswersOut
<1>5. Turns'
  <2>1. Answered' = 0
    BY <1>3 DEF Answered
  <2> QED
    BY <1>1, <1>3, <1>4, <2>1, CountsAreNat DEF SessionInv, Turns
<1>6. Spent'
  BY <1>1, <1>2, <1>3, <1>4, CountsAreNat DEF SessionInv, Spent
<1>7. Rebuilds'
  <2>1. pc.up => pc.offer # 0 /\ host.id + 1 > pc.offer
    BY <1>1 DEF SessionInv, Rebuilds, Session!Linked
  <2> QED
    BY <1>1, <1>2, <1>3, <2>1 DEF Rebuilds
<1> QED
  BY <1>3, <1>5, <1>6, <1>7 DEF SessionInv

LEMMA HostTakesAnswerStep ==
  ASSUME SessionInv, Session!HostTakesAnswer
  PROVE  SessionInv'
<1>1. SessionTyped /\ host.losses \in Nat /\ host.id \in Nat \ {0}
      /\ pc.offer \in Nat /\ pc.id \in Nat
  BY DEF SessionInv, SessionTyped, ViewerPcs
<1>2. toHost # << >> /\ toHost' = Tail(toHost) /\ UNCHANGED <<cmds, events, pc, known, app>>
  BY DEF Session!HostTakesAnswer
<1>3. /\ toHost' \in Seq(Answers) /\ Head(toHost) \in Answers
      /\ Count(toHost, "answer") = Count(toHost', "answer") + 1
      /\ Count(toHost', "answer") \in Nat
  <2>1. /\ Tail(toHost) \in Seq(Answers) /\ Head(toHost) \in Answers
        /\ Count(toHost, "answer") = Count(Tail(toHost), "answer") + Is(Head(toHost), "answer")
    BY <1>2, CountTaken DEF SessionInv, SessionTyped
  <2> QED
    BY <1>2, <2>1, Kinds, CountIsNat
<1>4. AnswersOut = AnswersOut' + 1 /\ AnswersOut' \in Nat
  BY <1>1, <1>2, <1>3, CountsAreNat, SMTT(60) DEF AnswersOut
<1>5. CASE host.negotiated
  <2>1. Session!HostRebuild(host.losses)
    BY <1>5 DEF Session!HostTakesAnswer
  <2>2. /\ host'.id = host.id + 1 /\ ~host'.negotiated /\ host'.by = 0
        /\ host'.losses = host.losses /\ SessionTyped'
        /\ Count(toViewer, "offer")' = Count(toViewer, "offer") + 1
    BY <1>1, <1>2, <1>3, <2>1, HostRebuildStep DEF SessionTyped
  <2>3. OffersOut' = OffersOut + 1
    BY <1>1, <1>2, <2>2, CountsAreNat, SMTT(60) DEF OffersOut
  <2>4. Turns'
    <3>1. Answered' = 0 /\ Answered = 1
      BY <1>5, <2>2 DEF Answered
    <3> QED
      BY <1>1, <1>4, <2>2, <2>3, <3>1, CountsAreNat DEF SessionInv, Turns
  <2>5. Spent'
    <3>1. Spent /\ OffersOut \in Nat
      BY <1>1, CountsAreNat DEF SessionInv
    <3>2. pc' = pc /\ host'.id = host.id + 1
      BY <1>2, <2>2
    <3> QED
      BY <1>1, <2>3, <3>1, <3>2 DEF Spent
  <2>6. Rebuilds'
    <3>1. pc.up => pc.offer # 0 /\ host.id + 1 > pc.offer
      BY <1>1 DEF SessionInv, Rebuilds, Session!Linked
    <3> QED
      BY <1>1, <1>2, <2>2, <3>1 DEF SessionInv, Rebuilds
  <2> QED
    BY <2>2, <2>4, <2>5, <2>6 DEF SessionInv
<1>6. CASE ~host.negotiated
  <2>1. PICK by : /\ host' = [host EXCEPT !.negotiated = TRUE, !.by = by]
                  /\ by = IF Head(toHost).host = host.id THEN Head(toHost).viewer ELSE 0
                  /\ UNCHANGED <<toViewer, channel>>
    BY <1>6 DEF Session!HostTakesAnswer
  <2>2. by \in Nat
    BY <1>3, <2>1 DEF Answers
  <2>3. /\ host'.id = host.id /\ host'.negotiated /\ host'.losses = host.losses
        /\ host' \in [id : Nat \ {0}, negotiated : BOOLEAN, by : Nat, up : BOOLEAN, losses : Nat]
    BY <2>1, <2>2 DEF SessionInv, SessionTyped
  <2>4. SessionTyped'
    BY <1>1, <1>2, <1>3, <2>1, <2>3 DEF SessionTyped
  <2>5. OffersOut' = OffersOut
    BY <1>2, <2>1 DEF OffersOut
  <2>6. Turns'
    <3>1. Answered' = 1 /\ Answered = 0
      BY <1>6, <2>3 DEF Answered
    <3> QED
      BY <1>1, <1>4, <2>3, <2>5, <3>1, CountsAreNat DEF SessionInv, Turns
  <2>7. Spent'
    BY <1>2, <2>3, <2>5 DEF SessionInv, Spent
  <2>8. Rebuilds'
    <3>1. ~Session!Linked
      BY <1>6 DEF SessionInv, Rebuilds, Session!Linked, SessionTyped, ViewerPcs
    <3> QED
      BY <1>2, <2>3, <3>1 DEF SessionInv, Rebuilds
  <2> QED
    BY <2>4, <2>6, <2>7, <2>8 DEF SessionInv
<1> QED
  BY <1>5, <1>6

Events == Answers \cup Acks \cup Notices
Cmds   == Frames \cup Hellos

\* What the driver tells the pump, and what the pump and the window tell the driver.
LEMMA EventPosted ==
  ASSUME SessionTyped, NEW m \in Events, events' = Append(events, m)
  PROVE  /\ events' \in Seq(Answers \cup Acks \cup Notices)
         /\ Count(events, "answer")' = Count(events, "answer") + Is(m, "answer")
         /\ Is(m, "answer") = 0 => Count(events, "answer")' = Count(events, "answer")
<1>1. events \in Seq(Events) /\ Count(events, "answer") \in Nat
  BY CountIsNat DEF SessionTyped, Events
<1>2. /\ Append(events, m) \in Seq(Events)
      /\ Count(Append(events, m), "answer") = Count(events, "answer") + Is(m, "answer")
  BY <1>1, Appended, CountAppended
<1> QED
  BY <1>1, <1>2 DEF Events

LEMMA EventTaken ==
  ASSUME SessionTyped, events # << >>, events' = Tail(events)
  PROVE  /\ events' \in Seq(Answers \cup Acks \cup Notices)
         /\ Count(events, "answer")' \in Nat /\ Head(events) \in Events
         /\ Count(events, "answer") = Count(events, "answer")' + Is(Head(events), "answer")
         /\ Is(Head(events), "answer") = 0 => Count(events, "answer")' = Count(events, "answer")
<1>1. events \in Seq(Events)
  BY DEF SessionTyped, Events
<1>2. /\ Tail(events) \in Seq(Events) /\ Head(events) \in Events
      /\ Count(events, "answer") = Count(Tail(events), "answer") + Is(Head(events), "answer")
  BY <1>1, CountTaken
<1>3. Count(Tail(events), "answer") \in Nat
  BY <1>2, CountIsNat
<1> QED
  BY <1>2, <1>3 DEF Events

LEMMA CommandPosted ==
  ASSUME SessionTyped, NEW m \in Cmds, cmds' = Append(cmds, m)
  PROVE  /\ cmds' \in Seq(Frames \cup Hellos)
         /\ Count(cmds, "offer")' = Count(cmds, "offer") + Is(m, "offer")
         /\ Is(m, "offer") = 0 => Count(cmds, "offer")' = Count(cmds, "offer")
<1>1. cmds \in Seq(Cmds) /\ Count(cmds, "offer") \in Nat
  BY CountIsNat DEF SessionTyped, Cmds
<1>2. /\ Append(cmds, m) \in Seq(Cmds)
      /\ Count(Append(cmds, m), "offer") = Count(cmds, "offer") + Is(m, "offer")
  BY <1>1, Appended, CountAppended
<1> QED
  BY <1>1, <1>2 DEF Cmds

LEMMA CommandTaken ==
  ASSUME SessionTyped, cmds # << >>, cmds' = Tail(cmds)
  PROVE  /\ cmds' \in Seq(Frames \cup Hellos)
         /\ Count(cmds, "offer")' \in Nat /\ Head(cmds) \in Cmds
         /\ Count(cmds, "offer") = Count(cmds, "offer")' + Is(Head(cmds), "offer")
         /\ Is(Head(cmds), "offer") = 0 => Count(cmds, "offer")' = Count(cmds, "offer")
<1>1. cmds \in Seq(Cmds)
  BY DEF SessionTyped, Cmds
<1>2. /\ Tail(cmds) \in Seq(Cmds) /\ Head(cmds) \in Cmds
      /\ Count(cmds, "offer") = Count(Tail(cmds), "offer") + Is(Head(cmds), "offer")
  BY <1>1, CountTaken
<1>3. Count(Tail(cmds), "offer") \in Nat
  BY <1>2, CountIsNat
<1> QED
  BY <1>2, <1>3 DEF Cmds

\* Steps that only carry something else than offers and answers.
LEMMA QuietStep ==
  ASSUME SessionInv,
         \/ Session!HostConnects \/ Session!HostJudges \/ Session!Connect \/ Session!Receive
         \/ Session!LeaveSession \/ Session!PumpDisconnected \/ Session!PumpAck
  PROVE  SessionInv'
<1>1. SessionTyped
  BY DEF SessionInv
<1>2. CASE Session!HostConnects
  <2>1. host' = [host EXCEPT !.up = TRUE]
        /\ UNCHANGED <<toViewer, toHost, cmds, events, pc, known, channel>>
    BY <1>2 DEF Session!HostConnects
  <2>2. /\ host'.id = host.id /\ host'.negotiated = host.negotiated /\ host'.by = host.by
        /\ host'.losses = host.losses /\ SessionTyped'
    BY <1>1, <2>1 DEF SessionTyped
  <2>3. OffersOut' = OffersOut /\ AnswersOut' = AnswersOut
    BY <2>1 DEF OffersOut, AnswersOut
  <2> QED
    BY <2>1, <2>2, <2>3, Unmoved
<1>3. CASE Session!HostJudges
  <2>1. channel.toHost # << >> /\ UNCHANGED <<host, toViewer, toHost, cmds, events, pc, known>>
    BY <1>3 DEF Session!HostJudges
  <2>2. PICK said \in {"reject", "password", "accept"} :
           channel' = [toHost |-> Tail(channel.toHost),
                       toViewer |-> Append(channel.toViewer, Session!Ack(host.id, said))]
    BY <1>3 DEF Session!HostJudges
  <2>3. Session!Ack(host.id, said) \in Acks
    BY <1>1, Messages DEF SessionTyped
  <2>4. channel.toHost \in Seq(Hellos) /\ channel.toViewer \in Seq(Acks)
    BY <1>1 DEF SessionTyped
  <2>5. Tail(channel.toHost) \in Seq(Hellos)
    BY <2>1, <2>4, CountTaken
  <2>6. Append(channel.toViewer, Session!Ack(host.id, said)) \in Seq(Acks)
    BY <2>3, <2>4, Appended
  <2>7. SessionTyped'
    BY <1>1, <2>1, <2>2, <2>5, <2>6 DEF SessionTyped
  <2>8. OffersOut' = OffersOut /\ AnswersOut' = AnswersOut
    BY <2>1 DEF OffersOut, AnswersOut
  <2> QED
    BY <2>1, <2>7, <2>8, Unmoved
<1>4. CASE Session!LeaveSession
  <2>1. UNCHANGED <<host, toViewer, toHost, cmds, events, pc, known, channel>>
    BY <1>4 DEF Session!LeaveSession, Session!HangUp
  <2>2. SessionTyped'
    BY <1>1, <2>1 DEF SessionTyped
  <2>3. OffersOut' = OffersOut /\ AnswersOut' = AnswersOut
    BY <2>1 DEF OffersOut, AnswersOut
  <2> QED
    BY <2>1, <2>2, <2>3, Unmoved
<1>5. CASE Session!Connect
  <2>1. /\ pc' = [pc EXCEPT !.up = TRUE] /\ Session!Linked
        /\ events' = Append(events, [t |-> "connected"])
        /\ UNCHANGED <<host, toViewer, toHost, cmds, known, channel>>
    BY <1>5 DEF Session!Connect
  <2>2. [t |-> "connected"] \in Events /\ Is([t |-> "connected"], "answer") = 0
    BY DEF Notices, Events, Is
  <2>3. /\ events' \in Seq(Answers \cup Acks \cup Notices)
        /\ Count(events, "answer")' = Count(events, "answer")
    BY <1>1, <2>1, <2>2, EventPosted
  <2>4. /\ pc'.id = pc.id /\ pc'.offer = pc.offer /\ pc'.pending = pc.pending
        /\ pc'.rebuild = pc.rebuild /\ SessionTyped'
    BY <1>1, <2>1, <2>3 DEF SessionTyped, ViewerPcs
  <2>5. OffersOut' = OffersOut /\ AnswersOut' = AnswersOut
    BY <2>1, <2>3, <2>4 DEF OffersOut, AnswersOut
  <2> QED
    BY <2>1, <2>4, <2>5, Unmoved
<1>6. CASE Session!Receive
  <2>1. /\ channel.toViewer # << >> /\ events' = Append(events, Head(channel.toViewer))
        /\ channel' = [channel EXCEPT !.toViewer = Tail(channel.toViewer)]
        /\ UNCHANGED <<host, toViewer, toHost, cmds, pc, known>>
    BY <1>6 DEF Session!Receive
  <2>2. channel.toViewer \in Seq(Acks)
    BY <1>1 DEF SessionTyped
  <2>3. Head(channel.toViewer) \in Acks /\ Tail(channel.toViewer) \in Seq(Acks)
    BY <2>1, <2>2, CountTaken
  <2>4. /\ events' \in Seq(Answers \cup Acks \cup Notices)
        /\ Count(events, "answer")' = Count(events, "answer")
    <3>1. Head(channel.toViewer) \in Events /\ Is(Head(channel.toViewer), "answer") = 0
      BY <2>3, Kinds DEF Events
    <3> QED
      BY <1>1, <2>1, <3>1, EventPosted
  <2>5. SessionTyped'
    BY <1>1, <2>1, <2>3, <2>4 DEF SessionTyped
  <2>6. OffersOut' = OffersOut /\ AnswersOut' = AnswersOut
    BY <2>1, <2>4 DEF OffersOut, AnswersOut
  <2> QED
    BY <2>1, <2>5, <2>6, Unmoved
<1>7. CASE Session!PumpDisconnected \/ Session!PumpAck
  <2>1. /\ events # << >> /\ Head(events).t \in {"disconnected", "ack"} /\ events' = Tail(events)
        /\ UNCHANGED <<host, toViewer, pc, channel, toHost, cmds, known>>
    BY <1>7 DEF Session!PumpDisconnected, Session!PumpAck, Session!Event
  <2>2. /\ events' \in Seq(Answers \cup Acks \cup Notices)
        /\ Count(events, "answer")' = Count(events, "answer")
    <3>1. Is(Head(events), "answer") = 0
      BY <2>1 DEF Is
    <3> QED
      BY <1>1, <2>1, <3>1, EventTaken
  <2>3. SessionTyped'
    BY <1>1, <2>1, <2>2 DEF SessionTyped
  <2>4. OffersOut' = OffersOut /\ AnswersOut' = AnswersOut
    BY <2>1, <2>2 DEF OffersOut, AnswersOut
  <2> QED
    BY <2>1, <2>3, <2>4, Unmoved
<1> QED
  BY <1>2, <1>3, <1>4, <1>5, <1>6, <1>7

\* What becomes of a connection, field by field.
LEMMA PcHears ==
  ASSUME pc \in ViewerPcs, NEW n \in Nat,
         \/ pc' = [pc EXCEPT !.heard = pc.heard \cup {n}]
         \/ pc' = [pc EXCEPT !.early = pc.early \cup {n}]
  PROVE  /\ pc' \in ViewerPcs
         /\ pc'.id = pc.id /\ pc'.offer = pc.offer /\ pc'.pending = pc.pending
         /\ pc'.rebuild = pc.rebuild /\ pc'.up = pc.up
  BY DEF ViewerPcs

LEMMA PcDrains ==
  ASSUME pc \in ViewerPcs, NEW n \in Nat,
         pc' = [pc EXCEPT !.rebuild = "drain", !.pending = n]
  PROVE  /\ pc' \in ViewerPcs
         /\ pc'.id = pc.id /\ pc'.offer = pc.offer /\ pc'.pending = n /\ pc'.up = pc.up
  BY DEF ViewerPcs

LEMMA PcAnswers ==
  ASSUME pc \in ViewerPcs, NEW n \in Nat,
         pc' = [pc EXCEPT !.offer = n, !.heard = pc.early, !.early = {}]
  PROVE  /\ pc' \in ViewerPcs
         /\ pc'.id = pc.id /\ pc'.offer = n /\ pc'.pending = pc.pending
         /\ pc'.rebuild = pc.rebuild /\ pc'.up = pc.up
  BY DEF ViewerPcs

LEMMA Sums ==
  ASSUME NEW a \in Nat, NEW h \in Nat, NEW l \in Nat,
         NEW o \in Nat, NEW r \in Nat, NEW o2 \in Nat, NEW r2 \in Nat,
         a + o + r >= 1, h + a + o + r <= 2 + 2 * l,
         o2 + r2 <= o + r, o2 + r2 >= 1 \/ o2 + r2 = o + r
  PROVE  a + o2 + r2 >= 1 /\ h + a + o2 + r2 <= 2 + 2 * l
  OBVIOUS

\* Offers turn into answers, and do not all vanish.
LEMMA TurnsKept ==
  ASSUME SessionTyped, Turns, host' = host, OffersOut' \in Nat, AnswersOut' \in Nat,
         OffersOut' + AnswersOut' <= OffersOut + AnswersOut,
         \/ OffersOut' + AnswersOut' >= 1
         \/ OffersOut' + AnswersOut' = OffersOut + AnswersOut
  PROVE  Turns'
<1>1. OffersOut \in Nat /\ AnswersOut \in Nat /\ Answered \in Nat
  BY CountsAreNat
<1>2. Answered' = Answered
  BY DEF Answered
<1>3. host.id \in Nat /\ host.losses \in Nat
  BY DEF SessionTyped
<1>4. /\ Answered + OffersOut' + AnswersOut' >= 1
      /\ host.id + Answered + OffersOut' + AnswersOut' <= 2 + 2 * host.losses
  BY <1>1, <1>3, Sums DEF Turns
<1> QED
  BY <1>2, <1>4 DEF Turns

\* What the pump and the window say goes on to the host, to the driver, and back.
LEMMA CarryStep ==
  ASSUME SessionInv,
         \/ Session!PumpSignal \/ Session!PumpAnswer \/ Session!PumpConnected
         \/ Session!SubmitPassword
  PROVE  SessionInv'
<1>1. SessionTyped
  BY DEF SessionInv
<1>2. CASE Session!PumpSignal
  <2>1. /\ toViewer # << >> /\ toViewer' = Tail(toViewer) /\ cmds' = Append(cmds, Head(toViewer))
        /\ \/ known' = known
           \/ known' = [known EXCEPT !.host = Head(toViewer).host]
        /\ UNCHANGED <<host, toHost, events, pc, channel>>
    BY <1>2 DEF Session!PumpSignal
  <2>2. /\ toViewer' \in Seq(Frames) /\ Head(toViewer) \in Frames
        /\ Count(toViewer', "offer") \in Nat
        /\ Count(toViewer, "offer") = Count(toViewer', "offer") + Is(Head(toViewer), "offer")
    <3>1. /\ Tail(toViewer) \in Seq(Frames) /\ Head(toViewer) \in Frames
          /\ Count(toViewer, "offer")
                = Count(Tail(toViewer), "offer") + Is(Head(toViewer), "offer")
      BY <1>1, <2>1, CountTaken DEF SessionTyped
    <3>2. Count(Tail(toViewer), "offer") \in Nat
      BY <3>1, CountIsNat
    <3> QED
      BY <2>1, <3>1, <3>2
  <2>3. /\ cmds' \in Seq(Frames \cup Hellos)
        /\ Count(cmds', "offer") = Count(cmds, "offer") + Is(Head(toViewer), "offer")
    BY <1>1, <2>1, <2>2, CommandPosted DEF Cmds
  <2>4. Head(toViewer).host \in Nat
    BY <2>2 DEF Frames
  <2>5. SessionTyped'
    BY <1>1, <2>1, <2>2, <2>3, <2>4 DEF SessionTyped
  <2>6. Is(Head(toViewer), "offer") \in Nat
    BY DEF Is
  <2>7. OffersOut' = OffersOut
    BY <1>1, <2>1, <2>2, <2>3, <2>6, CountsAreNat DEF OffersOut
  <2>8. AnswersOut' = AnswersOut
    BY <2>1 DEF AnswersOut
  <2> QED
    BY <2>1, <2>5, <2>7, <2>8, Unmoved
<1>3. CASE Session!PumpAnswer
  <2>1. /\ events # << >> /\ Head(events).t = "answer" /\ events' = Tail(events)
        /\ known' = [known EXCEPT !.local = Head(events).viewer]
        /\ toHost' = Append(toHost, Head(events))
        /\ UNCHANGED <<host, toViewer, pc, channel, cmds>>
    BY <1>3 DEF Session!PumpAnswer, Session!Event
  <2>2. /\ events' \in Seq(Answers \cup Acks \cup Notices)
        /\ Count(events', "answer") \in Nat /\ Head(events) \in Events
        /\ Count(events, "answer") = Count(events', "answer") + Is(Head(events), "answer")
    BY <1>1, <2>1, EventTaken
  <2>3. Head(events) \in Answers /\ Is(Head(events), "answer") = 1
    BY <2>1, <2>2, Kinds DEF Events
  <2>4. /\ toHost' \in Seq(Answers)
        /\ Count(toHost', "answer") = Count(toHost, "answer") + 1
    <3>1. toHost \in Seq(Answers)
      BY <1>1 DEF SessionTyped
    <3> QED
      BY <2>1, <2>3, <3>1, Appended, CountAppended
  <2>5. Head(events).viewer \in Nat
    BY <2>3 DEF Answers
  <2>6. SessionTyped'
    BY <1>1, <2>1, <2>2, <2>4, <2>5 DEF SessionTyped
  <2>7. AnswersOut' = AnswersOut
    BY <1>1, <2>2, <2>3, <2>4, CountsAreNat DEF AnswersOut
  <2>8. OffersOut' = OffersOut
    BY <2>1 DEF OffersOut
  <2> QED
    BY <2>1, <2>6, <2>7, <2>8, Unmoved
<1>4. CASE Session!PumpConnected
  <2>1. /\ events # << >> /\ Head(events).t = "connected" /\ events' = Tail(events)
        /\ cmds' = Append(cmds, Session!Hello(known.local, "none"))
        /\ UNCHANGED <<host, toViewer, pc, channel, toHost, known>>
    BY <1>4 DEF Session!PumpConnected, Session!Event
  <2>2. /\ events' \in Seq(Answers \cup Acks \cup Notices)
        /\ Count(events', "answer") = Count(events, "answer")
    <3>1. Is(Head(events), "answer") = 0
      BY <2>1 DEF Is
    <3> QED
      BY <1>1, <2>1, <3>1, EventTaken
  <2>3. Session!Hello(known.local, "none") \in Hellos
    BY <1>1, Messages DEF SessionTyped
  <2>4. /\ cmds' \in Seq(Frames \cup Hellos)
        /\ Count(cmds', "offer") = Count(cmds, "offer")
    BY <1>1, <2>1, <2>3, CommandPosted, Kinds DEF Cmds
  <2>5. SessionTyped'
    BY <1>1, <2>1, <2>2, <2>4 DEF SessionTyped
  <2>6. OffersOut' = OffersOut /\ AnswersOut' = AnswersOut
    BY <2>1, <2>2, <2>4 DEF OffersOut, AnswersOut
  <2> QED
    BY <2>1, <2>5, <2>6, Unmoved
<1>5. CASE Session!SubmitPassword
  <2>1. PICK pw \in {"right", "wrong"} : cmds' = Append(cmds, Session!Hello(known.local, pw))
    BY <1>5 DEF Session!SubmitPassword
  <2>2. UNCHANGED <<host, toViewer, toHost, events, pc, known, channel>>
    BY <1>5 DEF Session!SubmitPassword
  <2>3. Session!Hello(known.local, pw) \in Hellos
    BY <1>1, Messages DEF SessionTyped
  <2>4. /\ cmds' \in Seq(Frames \cup Hellos)
        /\ Count(cmds', "offer") = Count(cmds, "offer")
    BY <1>1, <2>1, <2>3, CommandPosted, Kinds DEF Cmds
  <2>5. SessionTyped'
    BY <1>1, <2>2, <2>4 DEF SessionTyped
  <2>6. OffersOut' = OffersOut /\ AnswersOut' = AnswersOut
    BY <2>2, <2>4 DEF OffersOut, AnswersOut
  <2> QED
    BY <2>2, <2>5, <2>6, Unmoved
<1> QED
  BY <1>2, <1>3, <1>4, <1>5

\* The driver takes a candidate or a Hello, which count for nothing.
LEMMA TakeStep ==
  ASSUME SessionInv, Session!TakeCandidate \/ Session!TakeHello
  PROVE  SessionInv'
<1>1. SessionTyped
  BY DEF SessionInv
<1>2. /\ cmds # << >> /\ Head(cmds).t \in {"candidate", "hello"} /\ cmds' = Tail(cmds)
      /\ UNCHANGED <<host, toViewer, toHost, known, events>>
  BY DEF Session!TakeCandidate, Session!TakeHello, Session!Take
<1>3. /\ cmds' \in Seq(Frames \cup Hellos) /\ Count(cmds', "offer") = Count(cmds, "offer")
      /\ Head(cmds) \in Cmds
  <2>1. Is(Head(cmds), "offer") = 0
    BY <1>2 DEF Is
  <2> QED
    BY <1>1, <1>2, <2>1, CommandTaken
<1>4. CASE Session!TakeCandidate
  <2>1. channel' = channel
    BY <1>4 DEF Session!TakeCandidate
  <2>2. Head(cmds).host \in Nat
    BY <1>3, <1>4, Kinds DEF Session!TakeCandidate, Session!Take, Cmds, Frames
  <2>3. \/ pc' = [pc EXCEPT !.heard = pc.heard \cup {Head(cmds).host}]
        \/ pc' = [pc EXCEPT !.early = pc.early \cup {Head(cmds).host}]
    BY <1>4 DEF Session!TakeCandidate
  <2>4. /\ pc'.id = pc.id /\ pc'.offer = pc.offer /\ pc'.pending = pc.pending
        /\ pc'.rebuild = pc.rebuild /\ pc'.up = pc.up /\ SessionTyped'
    <3>1. pc \in ViewerPcs
      BY <1>1 DEF SessionTyped
    <3> DEFINE n == Head(cmds).host
    <3>2. \/ pc' = [pc EXCEPT !.heard = pc.heard \cup {n}]
          \/ pc' = [pc EXCEPT !.early = pc.early \cup {n}]
      BY <2>3
    <3> HIDE DEF n
    <3>3. n \in Nat
      BY <2>2 DEF n
    <3> QED
      BY <1>1, <1>2, <1>3, <2>1, <3>1, <3>2, <3>3, PcHears DEF SessionTyped
  <2>5. OffersOut' = OffersOut /\ AnswersOut' = AnswersOut
    BY <1>2, <1>3, <2>4 DEF OffersOut, AnswersOut
  <2> QED
    BY <1>2, <2>4, <2>5, Unmoved
<1>5. CASE Session!TakeHello
  <2>1. pc' = pc
    BY <1>5 DEF Session!TakeHello
  <2>2. Head(cmds) \in Hellos
    BY <1>3, <1>5 DEF Session!TakeHello, Session!Take, Cmds, Frames
  <2>3. \/ channel' = channel
        \/ channel' = [channel EXCEPT !.toHost = Append(channel.toHost, Head(cmds))]
    BY <1>5 DEF Session!TakeHello
  <2>4. channel.toHost \in Seq(Hellos)
    BY <1>1 DEF SessionTyped
  <2>5. Append(channel.toHost, Head(cmds)) \in Seq(Hellos)
    BY <2>2, <2>4, Appended
  <2>6. SessionTyped'
    BY <1>1, <1>2, <1>3, <2>1, <2>3, <2>5 DEF SessionTyped
  <2>7. OffersOut' = OffersOut /\ AnswersOut' = AnswersOut
    BY <1>2, <1>3, <2>1 DEF OffersOut, AnswersOut
  <2> QED
    BY <1>2, <2>1, <2>6, <2>7, Unmoved
<1> QED
  BY <1>4, <1>5

\* What comes before the first loss.
LEMMA BeforeALoss ==
  ASSUME SessionInv, host.losses = 0
  PROVE  host.id = 1 /\ (pc.offer # 0 => OffersOut = 0)
<1>1. SessionTyped /\ host.id \in Nat \ {0} /\ pc.id = 1
  BY DEF SessionInv, SessionTyped, Rebuilds, ViewerPcs
<1>2. host.id = 1
  BY <1>1, CountsAreNat DEF SessionInv, Turns
<1> QED
  BY <1>1, <1>2, CountsAreNat DEF SessionInv, Spent

\* An offer is answered, or asks for a connection of its own.
LEMMA TakeOfferStep ==
  ASSUME SessionInv, Session!TakeOffer
  PROVE  SessionInv'
<1> DEFINE n == Head(cmds).host
<1>1. /\ SessionTyped /\ Turns /\ Spent /\ Rebuilds
      /\ host.id \in Nat /\ host.losses \in Nat /\ pc.id \in Nat \ {0} /\ pc.pending \in Nat
  BY DEF SessionInv, SessionTyped, ViewerPcs
<1>2. /\ cmds # << >> /\ Head(cmds).t = "offer" /\ cmds' = Tail(cmds)
      /\ UNCHANGED <<host, toViewer, toHost, known, channel>>
  BY DEF Session!TakeOffer, Session!Take
<1>3. /\ cmds' \in Seq(Frames \cup Hellos) /\ Count(cmds', "offer") \in Nat
      /\ Count(cmds, "offer") = Count(cmds', "offer") + 1 /\ Head(cmds) \in Cmds
  <2>1. Is(Head(cmds), "offer") = 1
    BY <1>2 DEF Is
  <2> QED
    BY <1>1, <1>2, <2>1, CommandTaken
<1>4. n \in Nat \ {0}
  BY <1>2, <1>3 DEF Cmds, Frames, Hellos
<1>5. CASE pc.offer # 0
  <2>1. pc' = [pc EXCEPT !.rebuild = "drain", !.pending = n] /\ UNCHANGED events
    BY <1>5 DEF Session!TakeOffer
  <2> HIDE DEF n
  <2>2. /\ pc'.id = pc.id /\ pc'.offer = pc.offer /\ pc'.up = pc.up /\ pc'.pending = n
        /\ SessionTyped'
    <3>1. pc \in ViewerPcs
      BY <1>1 DEF SessionTyped
    <3> QED
      BY <1>1, <1>2, <1>3, <1>4, <2>1, <3>1, PcDrains DEF SessionTyped
  <2>3. OffersOut' \in Nat \ {0} /\ OffersOut' <= OffersOut /\ AnswersOut' = AnswersOut
    <3>1. /\ Count(toViewer, "offer") \in Nat /\ Count(toViewer', "offer") = Count(toViewer, "offer")
          /\ Count(toHost', "answer") = Count(toHost, "answer")
          /\ Count(events', "answer") = Count(events, "answer")
      BY <1>1, <1>2, <2>1, CountsAreNat
    <3>2. OffersOut' = Count(toViewer, "offer") + Count(cmds', "offer") + 1
      BY <1>4, <2>2, <3>1 DEF OffersOut
    <3>3. OffersOut = Count(toViewer, "offer") + (Count(cmds', "offer") + 1)
                         + (IF pc.pending = 0 THEN 0 ELSE 1)
      BY <1>3 DEF OffersOut
    <3>4. AnswersOut' = AnswersOut
      BY <3>1 DEF AnswersOut
    <3> QED
      BY <1>3, <3>1, <3>2, <3>3, <3>4
  <2>4. host.losses # 0
    BY <1>1, <1>5, <2>3, BeforeALoss, CountsAreNat
  <2>5. Turns'
    BY <1>1, <1>2, <2>3, CountsAreNat, TurnsKept
  <2>6. Spent'
    BY <1>1, <1>2, <1>5, <2>2, <2>3, CountsAreNat, SMTT(60) DEF Spent
  <2>7. Rebuilds'
    BY <1>1, <1>2, <2>2, <2>4 DEF Rebuilds, Session!Linked
  <2> QED
    BY <2>2, <2>5, <2>6, <2>7 DEF SessionInv
<1>6. CASE pc.offer = 0
  <2>1. /\ pc' = [pc EXCEPT !.offer = n, !.heard = pc.early, !.early = {}]
        /\ events' = Append(events, Session!Answer(n, pc.id))
    BY <1>6 DEF Session!TakeOffer
  <2> HIDE DEF n
  <2>2. pc.pending = 0 /\ pc.rebuild = "no" /\ ~pc.up
    BY <1>1, <1>6 DEF Spent, Rebuilds
  <2>3. Session!Answer(n, pc.id) \in Answers
    BY <1>1, <1>4, Messages
  <2>4. /\ events' \in Seq(Answers \cup Acks \cup Notices)
        /\ Count(events', "answer") = Count(events, "answer") + 1
    BY <1>1, <2>1, <2>3, EventPosted, Kinds DEF Events
  <2>5. /\ pc'.id = pc.id /\ pc'.offer = n /\ pc'.up = pc.up /\ pc'.pending = pc.pending
        /\ pc'.rebuild = pc.rebuild /\ SessionTyped'
    <3>1. pc \in ViewerPcs
      BY <1>1 DEF SessionTyped
    <3> QED
      BY <1>1, <1>2, <1>3, <1>4, <2>1, <2>4, <3>1, PcAnswers DEF SessionTyped
  <2>6. OffersOut = OffersOut' + 1 /\ AnswersOut' = AnswersOut + 1 /\ OffersOut' \in Nat
    <3>1. /\ Count(toViewer, "offer") \in Nat /\ Count(toViewer', "offer") = Count(toViewer, "offer")
          /\ Count(toHost, "answer") \in Nat /\ Count(toHost', "answer") = Count(toHost, "answer")
          /\ Count(events, "answer") \in Nat
      BY <1>1, <1>2, CountsAreNat
    <3>2. OffersOut' = Count(toViewer, "offer") + Count(cmds', "offer")
      BY <1>3, <2>2, <2>5, <3>1 DEF OffersOut
    <3>3. OffersOut = Count(toViewer, "offer") + (Count(cmds', "offer") + 1)
      BY <1>3, <2>2, <3>1 DEF OffersOut
    <3>4. AnswersOut' = AnswersOut + 1
      BY <2>4, <3>1 DEF AnswersOut
    <3> QED
      BY <1>3, <3>1, <3>2, <3>3, <3>4
  <2>7. Turns'
    BY <1>1, <1>2, <2>6, CountsAreNat, TurnsKept, SMTT(60)
  <2>8. Spent'
    <3>1. host' = host /\ pc'.id = pc.id /\ pc'.offer # 0 /\ pc.id + OffersOut <= host.id + 1
      BY <1>1, <1>2, <1>4, <1>6, <2>5 DEF Spent
    <3> QED
      BY <1>1, <2>6, <3>1 DEF Spent
  <2>9. Rebuilds'
    BY <1>1, <1>2, <2>2, <2>5 DEF Rebuilds
  <2> QED
    BY <2>5, <2>7, <2>8, <2>9 DEF SessionInv
<1> QED
  BY <1>5, <1>6

\* Only what the host has left behind is lost.
LEMMA LoseStep ==
  ASSUME SessionInv, Session!Lose
  PROVE  SessionInv'
<1>1. SessionTyped /\ Turns /\ Spent /\ Rebuilds
  BY DEF SessionInv
<1>2. /\ pc.up /\ ~Session!Linked /\ pc' = [pc EXCEPT !.up = FALSE, !.rebuild = "now"]
      /\ events' = Append(events, [t |-> "disconnected"])
      /\ UNCHANGED <<host, toViewer, toHost, cmds, known, channel>>
  BY DEF Session!Lose
<1>3. [t |-> "disconnected"] \in Events /\ Is([t |-> "disconnected"], "answer") = 0
  BY DEF Notices, Events, Is
<1>4. /\ events' \in Seq(Answers \cup Acks \cup Notices)
      /\ Count(events', "answer") = Count(events, "answer")
  BY <1>1, <1>2, <1>3, EventPosted
<1>5. /\ pc'.id = pc.id /\ pc'.offer = pc.offer /\ pc'.pending = pc.pending /\ ~pc'.up
      /\ SessionTyped'
  BY <1>1, <1>2, <1>4 DEF SessionTyped, ViewerPcs
<1>6. OffersOut' = OffersOut /\ AnswersOut' = AnswersOut
  BY <1>2, <1>4, <1>5 DEF OffersOut, AnswersOut
<1>7. pc.offer # 0 /\ host.losses # 0
  <2>1. pc.offer # 0 /\ host.id > pc.offer /\ pc.offer \in Nat
    BY <1>1, <1>2 DEF Rebuilds, SessionTyped, ViewerPcs
  <2> QED
    BY <2>1, BeforeALoss
<1>8. Turns' /\ Spent'
  BY <1>1, <1>2, <1>5, <1>6, <1>7 DEF Turns, Spent, Answered
<1>9. Rebuilds'
  BY <1>1, <1>2, <1>5, <1>7 DEF Rebuilds
<1> QED
  BY <1>5, <1>8, <1>9 DEF SessionInv

\* A fresh connection has taken the offer that asked for it, or waits for the next.
LEMMA RebuildStep ==
  ASSUME SessionInv, Session!Rebuild
  PROVE  SessionInv'
<1> DEFINE v == pc.id + 1
<1>1. /\ SessionTyped /\ Turns /\ Spent /\ Rebuilds
      /\ host.id \in Nat /\ host.losses \in Nat /\ pc.id \in Nat \ {0} /\ pc.pending \in Nat
      /\ v \in Nat \ {0}
  BY SMTT(60) DEF SessionInv, SessionTyped, ViewerPcs
<1>2. /\ pc.rebuild # "no"
      /\ pc' = [[id |-> v, offer |-> 0, heard |-> {}, early |-> {}, rebuild |-> "no",
                 pending |-> 0, up |-> FALSE] EXCEPT !.offer = pc.pending]
      /\ events' = IF pc.pending # 0 THEN Append(events, Session!Answer(pc.pending, v)) ELSE events
      /\ channel' = [toHost |-> << >>, toViewer |-> << >>]
      /\ UNCHANGED <<host, toViewer, toHost, cmds, known>>
  BY DEF Session!Rebuild, Session!Fresh, Session!ViewerPc, Session!Pending, Session!Silence
<1>3. pc.offer # 0 /\ host.losses # 0
  BY <1>1, <1>2 DEF Spent, Rebuilds
<1>4. /\ pc'.id = v /\ pc'.offer = pc.pending /\ pc'.pending = 0 /\ pc'.rebuild = "no" /\ ~pc'.up
      /\ pc' \in ViewerPcs
  BY <1>1, <1>2 DEF ViewerPcs
<1>5. /\ events' \in Seq(Answers \cup Acks \cup Notices)
      /\ Count(events', "answer")
            = Count(events, "answer") + (IF pc.pending = 0 THEN 0 ELSE 1)
  <2>1. CASE pc.pending = 0
    BY <1>1, <1>2, <2>1, CountsAreNat DEF SessionTyped
  <2>2. CASE pc.pending # 0
    <3>1. Session!Answer(pc.pending, v) \in Answers
      BY <1>1, <2>2, Messages
    <3> QED
      BY <1>1, <1>2, <2>2, <3>1, EventPosted, Kinds DEF Events
  <2> QED
    BY <2>1, <2>2
<1>6. SessionTyped'
  <2>1. << >> \in Seq(Hellos) /\ << >> \in Seq(Acks)
    BY EmptySequence
  <2> QED
    BY <1>1, <1>2, <1>4, <1>5, <2>1 DEF SessionTyped
<1> HIDE DEF v
<1>7. /\ OffersOut = OffersOut' + (IF pc.pending = 0 THEN 0 ELSE 1)
      /\ AnswersOut' = AnswersOut + (IF pc.pending = 0 THEN 0 ELSE 1)
      /\ OffersOut' \in Nat /\ OffersOut \in Nat /\ AnswersOut' \in Nat /\ AnswersOut \in Nat
  <2>1. /\ OffersOut \in Nat /\ AnswersOut \in Nat
        /\ Count(toViewer, "offer") \in Nat /\ Count(cmds, "offer") \in Nat
        /\ Count(events, "answer") \in Nat /\ Count(toHost, "answer") \in Nat
    BY <1>1, CountsAreNat
  <2>2. /\ Count(toViewer', "offer") = Count(toViewer, "offer")
        /\ Count(cmds', "offer") = Count(cmds, "offer")
        /\ Count(toHost', "answer") = Count(toHost, "answer")
    BY <1>2
  <2>3. OffersOut' = Count(toViewer, "offer") + Count(cmds, "offer")
    BY <1>4, <2>1, <2>2 DEF OffersOut
  <2>4. OffersOut = OffersOut' + (IF pc.pending = 0 THEN 0 ELSE 1)
    BY <2>3 DEF OffersOut
  <2>5. AnswersOut' = AnswersOut + (IF pc.pending = 0 THEN 0 ELSE 1)
    BY <1>5, <2>1, <2>2 DEF AnswersOut
  <2> QED
    BY <2>1, <2>3, <2>4, <2>5
<1>8. Turns'
  <2>1. OffersOut' + AnswersOut' = OffersOut + AnswersOut
    BY <1>7
  <2> QED
    BY <1>1, <1>2, <1>7, <2>1, TurnsKept
<1>9. Spent'
  <2>1. pc.id + OffersOut <= host.id /\ host' = host
    BY <1>1, <1>2, <1>3 DEF Spent
  <2>2. v + OffersOut' <= host.id + (IF pc.pending = 0 THEN 1 ELSE 0)
    BY <1>1, <1>7, <2>1 DEF v
  <2> QED
    BY <1>4, <2>1, <2>2 DEF Spent
<1>10. Rebuilds'
  BY <1>1, <1>2, <1>3, <1>4 DEF Rebuilds
<1> QED
  BY <1>6, <1>8, <1>9, <1>10 DEF SessionInv

LEMMA CountOfTwo ==
  ASSUME NEW S, NEW a \in S, NEW b \in S, NEW kind
  PROVE  <<a, b>> \in Seq(S) /\ Count(<<a, b>>, kind) = Is(a, kind) + Is(b, kind)
<1>1. PICK q \in Seq(S) : q = << >>
  BY EmptySequence
<1> DEFINE one == Append(q, a)
<1>2. one \in Seq(S) /\ Count(one, kind) = Count(q, kind) + Is(a, kind)
  BY Appended, CountAppended
<1>3. <<a, b>> = Append(one, b)
  BY <1>1
<1>4. Count(q, kind) = 0
  BY <1>1, CountOfNone
<1>5. Append(one, b) \in Seq(S) /\ Count(Append(one, b), kind) = Count(one, kind) + Is(b, kind)
  <2> HIDE DEF one
  <2> QED
    BY <1>2, Appended, CountAppended
<1>6. Is(a, kind) \in Nat
  BY DEF Is
<1>7. <<a, b>> \in Seq(S) /\ Count(<<a, b>>, kind) = Count(one, kind) + Is(b, kind)
  <2> HIDE DEF one
  <2> QED
    BY <1>3, <1>5, Zenon
<1>8. Count(one, kind) = Is(a, kind)
  <2> HIDE DEF one
  <2> QED
    BY <1>2, <1>4, <1>6
<1> HIDE DEF one
<1> QED
  BY <1>7, <1>8, Zenon

LEMMA SessionStart == Session!Init => SessionInv
<1> SUFFICES ASSUME Session!Init PROVE SessionInv
  OBVIOUS
<1> DEFINE o == Session!Offer(1)
           c == Session!Candidate(1)
<1>1. /\ host = [id |-> 1, negotiated |-> FALSE, by |-> 0, up |-> FALSE, losses |-> 0]
      /\ toViewer = <<o, c>> /\ toHost = << >> /\ cmds = << >> /\ events = << >>
      /\ pc = [id |-> 1, offer |-> 0, heard |-> {}, early |-> {}, rebuild |-> "no",
               pending |-> 0, up |-> FALSE]
      /\ known = [local |-> 0, host |-> 0]
      /\ channel = [toHost |-> << >>, toViewer |-> << >>]
  BY DEF Session!Init, Session!ViewerPc, Session!Silence
<1>2. o \in Frames /\ c \in Frames /\ o.t = "offer" /\ c.t = "candidate"
  BY Messages
<1> HIDE DEF o, c
<1>4. toViewer \in Seq(Frames) /\ Count(toViewer, "offer") = 1
  <2>1. toViewer \in Seq(Frames) /\ Count(toViewer, "offer") = Is(o, "offer") + Is(c, "offer")
    BY <1>1, <1>2, CountOfTwo
  <2> QED
    BY <1>2, <2>1, Kinds
<1>5. /\ << >> \in Seq(Hellos) /\ << >> \in Seq(Acks) /\ << >> \in Seq(Answers)
      /\ << >> \in Seq(Frames \cup Hellos) /\ << >> \in Seq(Answers \cup Acks \cup Notices)
  BY EmptySequence
<1>6. SessionTyped
  BY <1>1, <1>4, <1>5 DEF SessionTyped, ViewerPcs
<1>7. OffersOut = 1 /\ AnswersOut = 0 /\ Answered = 0
  BY <1>1, <1>4, CountOfNone DEF OffersOut, AnswersOut, Answered
<1>8. /\ host.id = 1 /\ host.losses = 0 /\ host.by = 0
      /\ pc.id = 1 /\ pc.offer = 0 /\ pc.pending = 0 /\ pc.rebuild = "no" /\ ~pc.up
  BY <1>1
<1> QED
  BY <1>6, <1>7, <1>8 DEF SessionInv, Turns, Spent, Rebuilds

\* Whatever answers and offers cross: the host rebuilds twice at most for each connection
\* that is lost, and the viewer once more than that (a second offer in apply_signal, a
\* loss in drain_events, the rebuild in run_viewer, driver.rs).
THEOREM LossesBoundTheRebuilds == SideSpec => []NoRebuildStorm
<1>1. SideInit => SessionInv
  BY SessionStart DEF SideInit
<1>2. SessionInv /\ [SideNext]_sideVars => SessionInv'
  <2> SUFFICES ASSUME SessionInv, [SideNext]_sideVars PROVE SessionInv'
    OBVIOUS
  <2>1. CASE UNCHANGED sessionVars
    <3>1. UNCHANGED <<host, toViewer, toHost, cmds, events, pc, known, channel>>
      BY <2>1 DEF sessionVars
    <3>2. SessionTyped'
      BY <3>1 DEF SessionInv, SessionTyped
    <3>3. OffersOut' = OffersOut /\ AnswersOut' = AnswersOut
      BY <3>1 DEF OffersOut, AnswersOut
    <3> QED
      BY <3>1, <3>2, <3>3, Unmoved
  <2>2. CASE Session!Next
    BY <2>2, QuietStep, CarryStep, TakeStep, TakeOfferStep, LoseStep, RebuildStep,
       HostLosesStep, HostTakesAnswerStep
       DEF Session!Next, Session!Host, Session!Driver, Session!Pump
  <2> QED
    BY <2>1, <2>2 DEF SideNext, sideVars, Sessions, Windows, Pages, Touches, Types
<1>3. SessionInv => NoRebuildStorm
  <2> SUFFICES ASSUME SessionInv PROVE NoRebuildStorm
    OBVIOUS
  <2>1. /\ SessionTyped /\ Turns /\ Spent /\ Rebuilds
        /\ host.id \in Nat \ {0} /\ host.losses \in Nat /\ pc.id \in Nat
    BY DEF SessionInv, SessionTyped, ViewerPcs
  <2>2. host.id <= 1 + 2 * host.losses
    BY <2>1, CountsAreNat DEF Turns
  <2>3. pc.id <= host.id + host.losses
    <3>1. CASE host.losses = 0
      BY <2>1, <3>1 DEF Rebuilds
    <3>2. CASE host.losses # 0
      BY <2>1, <3>2, CountsAreNat DEF Spent
    <3> QED
      BY <3>1, <3>2
  <2> QED
    BY <2>2, <2>3 DEF NoRebuildStorm, Session!NoRebuildStorm
<1> QED
  BY <1>1, <1>2, <1>3, PTL DEF SideSpec
=============================================================================
