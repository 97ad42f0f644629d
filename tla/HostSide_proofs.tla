---------------------------- MODULE HostSide_proofs ----------------------------
(***************************************************************************)
(* Proofs about the parts of a host, for every value of their constants:   *)
(* the clipboard, the screen's stream, pairing and the injected input.     *)
(* What is shown of a part is an invariant of its own steps; those of the  *)
(* other parts leave its variables alone.                                  *)
(***************************************************************************)
EXTENDS HostSide, SequenceTheorems, TLAPS

\* The empty sequence is one of anything.
LEMMA EmptySequence ==
  ASSUME NEW S
  PROVE  << >> \in Seq(S)
  OBVIOUS

\* What is taken from a sequence, or added to it.
LEMMA SequenceStep ==
  ASSUME NEW S, NEW q \in Seq(S)
  PROVE  /\ q # << >> => Head(q) \in S /\ Tail(q) \in Seq(S)
         /\ \A x \in S : Append(q, x) \in Seq(S)
  OBVIOUS

\* A sequence of some is one of more.
LEMMA SequenceWidens ==
  ASSUME NEW S, NEW T, S \subseteq T, NEW q \in Seq(S)
  PROVE  q \in Seq(T)
  BY SeqMonotonic

-----------------------------------------------------------------------------
(* The clipboard.                                                           *)

\* What is in a side's clipboard came from its user, or over the wire and is
\* remembered; what is under way from it came from its user.
Remembers(s) == clip[s] \in copied[s] \cup {None, lastHash[s]}

ClipInv ==
    /\ DOMAIN clip = Clipboard!Sides /\ DOMAIN lastHash = Clipboard!Sides
    /\ DOMAIN wire = Clipboard!Sides /\ DOMAIN copied = Clipboard!Sides
    /\ \A s \in Clipboard!Sides : Remembers(s)
    /\ \A s \in Clipboard!Sides : wire[Clipboard!Peer(s)] \in Seq(copied[s])

LEMMA ClipInit == Clipboard!Init => ClipInv
  BY EmptySequence DEF Clipboard!Init, ClipInv, Remembers, Clipboard!Quiet, Clipboard!Sides, Clipboard!Peer

LEMMA ClipStep == ClipInv /\ Clipboard!Next => ClipInv'
<1> SUFFICES ASSUME ClipInv, Clipboard!Next PROVE ClipInv'
  OBVIOUS
<1> USE DEF Clipboard!Sides
<1>0. \A s \in Clipboard!Sides : Clipboard!Peer(s) \in Clipboard!Sides /\ Clipboard!Peer(Clipboard!Peer(s)) = s
  BY DEF Clipboard!Peer
<1>1. ASSUME NEW s \in Clipboard!Sides, Clipboard!ApplyRemote(s) PROVE ClipInv'
  BY <1>1 DEF Clipboard!ApplyRemote, Clipboard!Remembered, ClipInv, Remembers
<1>2. ASSUME NEW s \in Clipboard!Sides, Clipboard!Drained(s) PROVE ClipInv'
  BY <1>2 DEF Clipboard!Drained, ClipInv, Remembers
<1>3. ASSUME NEW s \in Clipboard!Sides, Clipboard!DetectLocal(s) PROVE ClipInv'
  <2>1. CASE clip[s] \in {None, lastHash[s]}
    BY <1>3, <2>1 DEF Clipboard!DetectLocal, ClipInv, Remembers
  <2>2. CASE clip[s] \notin {None, lastHash[s]}
    <3>1. clip[s] \in copied[s]
      BY <2>2 DEF ClipInv, Remembers
    <3>2. Append(wire[Clipboard!Peer(s)], clip[s]) \in Seq(copied[s])
      BY <3>1, SequenceStep DEF ClipInv
    <3>3. /\ lastHash' = [lastHash EXCEPT ![s] = clip[s]]
          /\ \/ wire' = wire
             \/ wire' = [wire EXCEPT ![Clipboard!Peer(s)] = Append(@, clip[s])]
          /\ UNCHANGED <<clip, copied>>
      BY <1>3, <2>2 DEF Clipboard!DetectLocal, Clipboard!Sent
    <3>4. \A r \in Clipboard!Sides : wire'[Clipboard!Peer(r)] \in Seq(copied'[r])
      BY <1>0, <3>2, <3>3 DEF ClipInv
    <3> QED
      BY <3>3, <3>4 DEF ClipInv, Remembers
  <2> QED
    BY <2>1, <2>2
<1>4. ASSUME NEW s \in Clipboard!Sides, Clipboard!Deliver(s) PROVE ClipInv'
  <2>1. Tail(wire[s]) \in Seq(copied[Clipboard!Peer(s)])
    BY <1>0, <1>4, SequenceStep DEF Clipboard!Deliver, ClipInv
  <2>2. \A r \in Clipboard!Sides : wire'[Clipboard!Peer(r)] \in Seq(copied'[r])
    BY <1>0, <1>4, <2>1 DEF Clipboard!Deliver, ClipInv
  <2> QED
    BY <1>4, <2>2 DEF Clipboard!Deliver, ClipInv, Remembers
<1>5. ASSUME NEW s \in Clipboard!Sides, NEW t \in Texts, Clipboard!UserCopies(s, t) PROVE ClipInv'
  <2>1. copied' = [copied EXCEPT ![s] = @ \cup {t}] /\ clip' = [clip EXCEPT ![s] = t]
        /\ UNCHANGED <<lastHash, wire>>
    BY <1>5 DEF Clipboard!UserCopies
  <2>2. \A r \in Clipboard!Sides : copied[r] \subseteq copied'[r]
    BY <2>1 DEF ClipInv
  <2>3. \A r \in Clipboard!Sides : wire[Clipboard!Peer(r)] \in Seq(copied'[r])
    BY <2>2, SequenceWidens DEF ClipInv
  <2> QED
    BY <2>1, <2>3 DEF ClipInv, Remembers
<1>6. CASE Clipboard!Opens \/ Clipboard!Accepts
  BY <1>6 DEF Clipboard!Opens, Clipboard!Accepts, ClipInv, Remembers
<1>7. CASE Clipboard!Closes
  BY <1>7, EmptySequence DEF Clipboard!Closes, Clipboard!Quiet, Clipboard!Peer, ClipInv, Remembers
<1> QED
  BY <1>1, <1>2, <1>3, <1>4, <1>5, <1>6, <1>7 DEF Clipboard!Next

\* Whatever crosses, fails, reconnects or is copied in between, a side sends only what
\* its own user copied: an applied text does not bounce back (last_hash in run).
THEOREM AppliedTextsStay == SideSpec => []NoEcho
<1>1. SideInit => ClipInv
  BY ClipInit DEF SideInit
<1>2. ClipInv /\ [SideNext]_sideVars => ClipInv'
  <2> SUFFICES ASSUME ClipInv, [SideNext]_sideVars PROVE ClipInv'
    OBVIOUS
  <2>1. CASE UNCHANGED clipVars
    BY <2>1 DEF clipVars, ClipInv, Remembers
  <2>2. CASE Clipboard!Next
    BY <2>2, ClipStep
  <2> QED
    BY <2>1, <2>2 DEF SideNext, sideVars, Stores, Pairs, Inputs, Shows, Syncs
<1>3. ClipInv => NoEcho
  <2> SUFFICES ASSUME ClipInv, NEW s \in Clipboard!Sides, NEW k \in DOMAIN wire[Clipboard!Peer(s)]
               PROVE  wire[Clipboard!Peer(s)][k] \in copied[s]
    BY DEF NoEcho, Clipboard!NoEcho
  <2> QED
    BY DEF ClipInv
<1> QED
  BY <1>1, <1>2, <1>3, PTL DEF SideSpec

-----------------------------------------------------------------------------
(* The screen's stream.                                                     *)

Viewers == 0 .. MaxViewers

\* What the driver tells the host loop.
ScreenEvents ==
    [what : {"connected", "disconnected", "zoom", "pli"}, from : Viewers, arg : {None}]
      \cup [what : {"hello"}, from : Viewers, arg : BOOLEAN]
      \cup [what : {"select"}, from : Viewers, arg : Displays]

ScreenTyped ==
    /\ viewer \in Viewers /\ zoom \in Viewers
    /\ events \in Seq(ScreenEvents)
    /\ accepting \in ScreenEvents \cup {None}
    /\ accepting # None => accepting.what = "hello"
    /\ current \in Displays /\ show \in BOOLEAN
    /\ handle \in Captures \cup {None} /\ frame \in Displays \cup {None}
    /\ job \in Jobs \cup {None}
    /\ force \in BOOLEAN

ScreenInv == ScreenTyped /\ Screen!RequestsAreKept

USE ScreenAssumption DEF Viewers

LEMMA ScreenInit == Screen!Init => ScreenInv
<1> SUFFICES ASSUME Screen!Init PROVE ScreenInv
  OBVIOUS
<1>1. Screen!First \in Displays
  BY DEF Screen!First
<1>2. << >> \in Seq(ScreenEvents)
  BY EmptySequence
<1> HIDE DEF ScreenEvents
<1>3. ScreenTyped
  BY <1>1, <1>2 DEF Screen!Init, ScreenTyped
<1>4. Screen!RequestsAreKept
  BY DEF Screen!Init, Screen!RequestsAreKept
<1> QED
  BY <1>3, <1>4 DEF ScreenInv

\* Events of the driver: the request, if there is one, stays where it is.
LEMMA ConnectionStep ==
  ASSUME ScreenInv,
         \/ Screen!Connect \/ Screen!Lose \/ Screen!PictureLoss \/ Screen!PacketsLost
         \/ \E cursor \in BOOLEAN : Screen!Say("hello", cursor)
         \/ \E d \in Displays : Screen!Say("select", d)
         \/ Screen!Say("zoom", None)
  PROVE  ScreenInv'
<1>1. UNCHANGED <<authorized, accepting, current, show, handle, zoom, frame, force, owed, job, intra>>
  BY DEF Screen!Connect, Screen!Lose, Screen!PictureLoss, Screen!PacketsLost, Screen!Say,
         Screen!host, Screen!enc
<1>2. viewer' \in Viewers
  BY DEF ScreenInv, ScreenTyped, Screen!Connect, Screen!Lose, Screen!PictureLoss, Screen!PacketsLost, Screen!Say
<1>3. \/ events' = events
      \/ \E e \in ScreenEvents : events' = Append(events, e)
  <2>1. CASE Screen!PacketsLost
    BY <2>1 DEF Screen!PacketsLost
  <2>2. CASE Screen!Connect
    <3>1. events' = Append(events, [what |-> "connected", from |-> viewer', arg |-> None])
      BY <2>2 DEF Screen!Connect, Screen!Tell
    <3> QED
      BY <1>2, <3>1 DEF ScreenEvents
  <2>3. CASE Screen!Lose
    <3>1. events' = Append(events, [what |-> "disconnected", from |-> viewer', arg |-> None])
      BY <2>3 DEF Screen!Lose, Screen!Tell
    <3> QED
      BY <1>2, <3>1 DEF ScreenEvents
  <2>4. CASE Screen!PictureLoss
    <3>1. events' = Append(events, [what |-> "pli", from |-> viewer', arg |-> None])
      BY <2>4 DEF Screen!PictureLoss, Screen!Tell
    <3> QED
      BY <1>2, <3>1 DEF ScreenEvents
  <2>5. ASSUME NEW cursor \in BOOLEAN, Screen!Say("hello", cursor)
        PROVE  \E e \in ScreenEvents : events' = Append(events, e)
    <3>1. events' = Append(events, [what |-> "hello", from |-> viewer', arg |-> cursor])
      BY <2>5 DEF Screen!Say, Screen!Tell
    <3> QED
      BY <1>2, <3>1 DEF ScreenEvents
  <2>6. ASSUME NEW d \in Displays, Screen!Say("select", d)
        PROVE  \E e \in ScreenEvents : events' = Append(events, e)
    <3>1. events' = Append(events, [what |-> "select", from |-> viewer', arg |-> d])
      BY <2>6 DEF Screen!Say, Screen!Tell
    <3> QED
      BY <1>2, <3>1 DEF ScreenEvents
  <2>7. CASE Screen!Say("zoom", None)
    <3>1. events' = Append(events, [what |-> "zoom", from |-> viewer', arg |-> None])
      BY <2>7 DEF Screen!Say, Screen!Tell
    <3> QED
      BY <1>2, <3>1 DEF ScreenEvents
  <2> QED
    BY <2>1, <2>2, <2>3, <2>4, <2>5, <2>6, <2>7
<1>4. events' \in Seq(ScreenEvents)
  BY <1>3, SequenceStep DEF ScreenInv, ScreenTyped
<1> HIDE DEF ScreenEvents
<1> QED
  BY <1>1, <1>2, <1>4 DEF ScreenInv, ScreenTyped, Screen!RequestsAreKept

\* Whoever starts a capture has a keyframe flagged and owed.
LEMMA StartCaptureStep ==
  ASSUME NEW d \in Displays, NEW cursor \in BOOLEAN, ScreenInv, Screen!StartCapture(d, cursor)
  PROVE  /\ handle' \in Captures \cup {None}
         /\ force' = TRUE \/ UNCHANGED <<force, owed>>
  BY DEF Screen!StartCapture, Captures, ScreenInv, ScreenTyped

LEMMA HostLoopStep ==
  ASSUME ScreenInv, Screen!HostLoop
  PROVE  ScreenInv'
<1> DEFINE e == Head(events)
<1>1. e \in ScreenEvents /\ events' \in Seq(ScreenEvents)
  BY SequenceStep DEF Screen!HostLoop, ScreenInv, ScreenTyped
<1>2. UNCHANGED <<viewer, frame, job, intra>> /\ Screen!Handle(e)
  BY DEF Screen!HostLoop, Screen!enc
<1>3. /\ zoom' \in Viewers /\ accepting' \in ScreenEvents \cup {None}
      /\ accepting' # None => accepting'.what = "hello"
      /\ current' \in Displays /\ show' \in BOOLEAN
      /\ handle' \in Captures \cup {None}
      /\ force' = TRUE \/ UNCHANGED <<force, owed>>
  <2>0. /\ zoom \in Viewers /\ accepting \in ScreenEvents \cup {None}
        /\ accepting # None => accepting.what = "hello"
        /\ current \in Displays /\ show \in BOOLEAN
        /\ handle \in Captures \cup {None}
        /\ e.from \in Viewers
        /\ e.what = "select" => e.arg \in Displays
    BY <1>1 DEF ScreenInv, ScreenTyped, ScreenEvents
  <2> HIDE DEF e, ScreenEvents
  <2>1. CASE e.what = "connected" /\ Screen!HandleConnected
    BY <2>0, <2>1 DEF Screen!HandleConnected
  <2>2. CASE e.what = "disconnected" /\ Screen!HandleDisconnected
    BY <2>0, <2>2 DEF Screen!HandleDisconnected, Screen!Pause
  <2>3. CASE e.what = "hello" /\ Screen!HandleHello(e)
    BY <1>1, <2>0, <2>3 DEF Screen!HandleHello
  <2>4. CASE e.what = "select" /\ Screen!HandleSelect(e)
    <3>1. UNCHANGED <<accepting, show, zoom>> /\ Screen!Select(e.arg)
      BY <2>4 DEF Screen!HandleSelect
    <3>2. current' \in Displays
      BY <2>0, <2>4, <3>1 DEF Screen!Select
    <3>3. /\ handle' \in Captures \cup {None}
          /\ force' = TRUE \/ UNCHANGED <<force, owed>>
      BY <2>0, <2>4, <3>1, StartCaptureStep DEF Screen!Select
    <3> QED
      BY <2>0, <3>1, <3>2, <3>3
  <2>5. CASE e.what = "zoom" /\ Screen!HandleZoom(e)
    BY <2>0, <2>5 DEF Screen!HandleZoom
  <2>6. CASE e.what = "pli" /\ Screen!HandlePictureLoss
    BY <2>0, <2>6 DEF Screen!HandlePictureLoss, Screen!RequestKeyframe, Screen!host
  <2>7. CASE UNCHANGED <<Screen!host, force, owed>>
    BY <2>0, <2>7 DEF Screen!host
  <2> QED
    BY <1>2, <2>1, <2>2, <2>3, <2>4, <2>5, <2>6, <2>7 DEF Screen!Handle
<1> HIDE DEF e, ScreenEvents
<1>4. ScreenTyped'
  BY <1>1, <1>2, <1>3 DEF ScreenInv, ScreenTyped
<1>5. Screen!RequestsAreKept'
  <2>1. CASE force' = TRUE
    BY <2>1 DEF Screen!RequestsAreKept
  <2>2. CASE UNCHANGED <<force, owed>>
    BY <1>2, <2>2 DEF ScreenInv, Screen!RequestsAreKept
  <2> QED
    BY <1>3, <2>1, <2>2
<1> QED
  BY <1>4, <1>5 DEF ScreenInv

LEMMA ResumeStep ==
  ASSUME ScreenInv, Screen!Resume
  PROVE  ScreenInv'
<1>1. accepting.arg \in BOOLEAN
  BY DEF Screen!Resume, ScreenInv, ScreenTyped, ScreenEvents
<1>2. UNCHANGED <<viewer, events, current, zoom, frame, job, intra>> /\ accepting' = None
  BY DEF Screen!Resume, Screen!conn, Screen!enc
<1> HIDE DEF ScreenEvents
<1>3. /\ show' \in BOOLEAN /\ handle' \in Captures \cup {None}
      /\ force' = TRUE \/ UNCHANGED <<force, owed>>
  <2>1. show' = accepting.arg /\ (Screen!StartCapture(current, accepting.arg) \/ UNCHANGED <<handle, force, owed>>)
    BY DEF Screen!Resume, Screen!ShowAndResume
  <2>2. current \in Displays /\ handle \in Captures \cup {None}
    BY DEF ScreenInv, ScreenTyped
  <2> QED
    BY <1>1, <2>1, <2>2, StartCaptureStep
<1>4. ScreenTyped'
  BY <1>2, <1>3 DEF ScreenInv, ScreenTyped
<1>5. Screen!RequestsAreKept'
  <2>1. CASE force' = TRUE
    BY <2>1 DEF Screen!RequestsAreKept
  <2>2. CASE UNCHANGED <<force, owed>>
    BY <1>2, <2>2 DEF ScreenInv, Screen!RequestsAreKept
  <2> QED
    BY <1>3, <2>1, <2>2
<1> QED
  BY <1>4, <1>5 DEF ScreenInv

LEMMA EncodeStep ==
  ASSUME ScreenInv, "build" \notin MayFail,
         Screen!Grab \/ Screen!Take \/ Screen!Begin \/ Screen!Finish
  PROVE  ScreenInv'
<1> HIDE DEF ScreenEvents
<1>0. ScreenTyped /\ Screen!RequestsAreKept
  BY DEF ScreenInv
<1>1. CASE Screen!Grab
  <2>0. frame' \in Displays
    BY <1>0, <1>1 DEF Screen!Grab, ScreenTyped, Captures
  <2>1. ScreenTyped'
    BY <1>0, <1>1, <2>0 DEF Screen!Grab, ScreenTyped, Screen!conn, Screen!host, Screen!enc
  <2>2. Screen!RequestsAreKept'
    BY <1>0, <1>1 DEF Screen!Grab, Screen!RequestsAreKept, Screen!enc
  <2> QED
    BY <2>1, <2>2 DEF ScreenInv
<1>2. CASE Screen!Take
  <2>1. job' \in Jobs \cup {None}
    BY <1>0, <1>2 DEF Screen!Take, ScreenTyped, Jobs
  <2>2. ScreenTyped'
    BY <1>0, <1>2, <2>1 DEF Screen!Take, ScreenTyped, Screen!conn, Screen!host
  <2>3. Screen!RequestsAreKept'
    BY <1>0, <1>2 DEF Screen!Take, Screen!RequestsAreKept
  <2> QED
    BY <2>2, <2>3 DEF ScreenInv
<1>3. CASE Screen!Begin
  <2>1. /\ job \in Jobs /\ force \in BOOLEAN /\ zoom \in Viewers
        /\ job' = [job EXCEPT !.begun = TRUE, !.forced = force, !.zoom = zoom]
    BY <1>0, <1>3 DEF Screen!Begin, ScreenTyped
  <2>2. job' \in Jobs /\ job'.begun /\ job'.forced = force
    BY <2>1 DEF Jobs
  <2>3. force' = FALSE /\ owed' = owed /\ intra' = intra /\ ~job.begun
    BY <1>3 DEF Screen!Begin, Screen!Flag, Screen!Clears
  <2>4. ScreenTyped'
    BY <1>0, <1>3, <2>2, <2>3 DEF Screen!Begin, ScreenTyped, Screen!conn, Screen!host
  <2>5. owed => force \/ intra
    BY <1>0, <2>3 DEF Screen!RequestsAreKept
  <2>6. job' # None
    BY <2>2
  <2>7. Screen!RequestsAreKept'
    BY <2>2, <2>3, <2>5, <2>6 DEF Screen!RequestsAreKept
  <2> QED
    BY <2>4, <2>7 DEF ScreenInv
<1>4. CASE Screen!Finish
  <2>1. PICK due \in BOOLEAN : Screen!Encode(due) \/ Screen!Nothing(due)
    BY <1>4 DEF Screen!Finish, Screen!Made, Screen!Finishes, Screen!FailedBuild
  <2>2. force' = force /\ job' = None /\ UNCHANGED <<viewer, events, Screen!host, frame>>
    BY <1>0, <1>4 DEF Screen!Finish, Screen!Made, Screen!Finishes, Screen!Flag, Screen!Clears, ScreenTyped
  <2>3. owed' => force \/ intra'
    <3>1. CASE Screen!Encode(due)
      <4>1. PICK key \in BOOLEAN : (Screen!Intra(due) => key) /\ owed' = (owed /\ (force \/ ~key))
        BY <3>1 DEF Screen!Encode
      <4>2. owed' => force
        BY <1>0, <4>1 DEF Screen!Intra, Screen!RequestsAreKept
      <4> QED
        BY <4>2
    <3>2. CASE Screen!Nothing(due)
      <4>1. intra' = (intra \/ Screen!Rebuilds(due) \/ job.forced) /\ owed' = owed
        BY <3>2 DEF Screen!Nothing, Screen!Intra
      <4> QED
        BY <1>0, <4>1 DEF Screen!RequestsAreKept
    <3> QED
      BY <2>1, <3>1, <3>2
  <2>4. ScreenTyped'
    BY <1>0, <2>2 DEF ScreenTyped, Screen!host
  <2>5. Screen!RequestsAreKept'
    BY <2>2, <2>3 DEF Screen!RequestsAreKept
  <2> QED
    BY <2>4, <2>5 DEF ScreenInv
<1> QED
  BY <1>1, <1>2, <1>3, <1>4

\* A keyframe that was asked for is flagged, in the making, or left to the encoder by a
\* frame that was skipped or failed, until it is made, whatever the encode thread is
\* doing when it is asked for (force_keyframe.swap), of an encoder that is built whenever it is rebuilt: a frame that is lost with a failed
\* build takes its request along.
THEOREM KeyframesAreMade == "build" \notin MayFail => (SideSpec => []RequestsAreKept)
<1> SUFFICES ASSUME "build" \notin MayFail PROVE SideSpec => []RequestsAreKept
  OBVIOUS
<1>1. SideInit => ScreenInv
  BY ScreenInit DEF SideInit
<1>2. ScreenInv /\ [SideNext]_sideVars => ScreenInv'
  <2> SUFFICES ASSUME ScreenInv, [SideNext]_sideVars PROVE ScreenInv'
    OBVIOUS
  <2>1. CASE UNCHANGED screenVars
    BY <2>1 DEF screenVars, ScreenInv, ScreenTyped, Screen!RequestsAreKept
  <2>2. CASE Screen!Next
    BY <2>2, ConnectionStep, HostLoopStep, ResumeStep, EncodeStep DEF Screen!Next
  <2> QED
    BY <2>1, <2>2 DEF SideNext, sideVars, Stores, Pairs, Inputs, Shows, Syncs
<1>3. ScreenInv => RequestsAreKept
  BY DEF ScreenInv, RequestsAreKept
<1> QED
  BY <1>1, <1>2, <1>3, PTL DEF SideSpec

-----------------------------------------------------------------------------
(* Pairing.                                                                 *)

\* Those that have gone on with a Hello, for good.
Bound == {a \in Attempts : pairAt[a] \in {"confirming", "paired", "failed", "gone"}}

\* The tags under way are of those, for the Hello each went on with.
Tags == {Pair!Confirm(a, peer[a]) : a \in Bound}

Greetings(a) == {Pair!Hello(b) : b \in Attempts \ {a}}

\* What a client may have sent, and what may reach it.
Ups(a)   == {Pair!End, Pair!Hello(a)} \cup Tags
Inbox(a) == {Pair!Joined, Pair!Left} \cup Greetings(a) \cup Tags

PairTyped ==
    /\ DOMAIN pairAt = Attempts /\ DOMAIN peer = Attempts
    /\ DOMAIN pairUp = Attempts /\ DOMAIN inbox = Attempts

\* Who has paired has the tag of a peer that is bound to it in turn.
Mutual(a) ==
    pairAt[a] = "paired" =>
        /\ peer[a] \in Attempts \ {a} /\ peer[a] \in Bound
        /\ SecretOf[peer[a]] = SecretOf[a]
        /\ peer[peer[a]] = a

PairInv ==
    /\ PairTyped
    /\ \A a \in Attempts : pairUp[a] \in Seq(Ups(a)) /\ inbox[a] \in Seq(Inbox(a))
    /\ \A a \in Attempts : pairAt[a] = "confirming" => peer[a] \in Attempts \ {a}
    /\ \A a \in Attempts : Mutual(a)

\* Who is bound stays so, and to the same peer.
Keeps == \A a \in Bound : a \in Bound' /\ peer'[a] = peer[a]

\* Two messages of different kinds are different.
LEMMA MessageKinds ==
  /\ Pair!Joined.t = "joined" /\ Pair!Left.t = "left" /\ Pair!End.t = "end"
  /\ \A a : Pair!Hello(a).t = "hello" /\ Pair!Hello(a).from = a
  /\ \A m \in Tags : m.t = "confirm"
  BY DEF Pair!Joined, Pair!Left, Pair!End, Pair!Hello, Pair!Confirm, Tags

LEMMA TagsStay ==
  ASSUME Keeps
  PROVE  /\ Tags \subseteq Tags'
         /\ \A a \in Attempts : Ups(a) \subseteq Ups(a)' /\ Inbox(a) \subseteq Inbox(a)'
<1>1. Tags \subseteq Tags'
  <2> SUFFICES ASSUME NEW a \in Bound PROVE Pair!Confirm(a, peer[a]) \in Tags'
    BY DEF Tags
  <2>1. a \in Bound' /\ Pair!Confirm(a, peer'[a]) = Pair!Confirm(a, peer[a])
    BY DEF Keeps
  <2> QED
    BY <2>1 DEF Tags, Pair!Confirm
<1> QED
  BY <1>1 DEF Ups, Inbox, Greetings

\* What is under way may stay so, whatever is bound meanwhile.
LEMMA QueuesStay ==
  ASSUME PairInv, Keeps, NEW a \in Attempts
  PROVE  /\ \A q \in Seq(Ups(a)) : q \in Seq(Ups(a)')
         /\ \A q \in Seq(Inbox(a)) : q \in Seq(Inbox(a)')
<1>1. Ups(a) \subseteq Ups(a)' /\ Inbox(a) \subseteq Inbox(a)'
  BY TagsStay
<1>2. \A q \in Seq(Ups(a)) : q \in Seq(Ups(a)')
  BY <1>1, SequenceWidens
<1>3. \A q \in Seq(Inbox(a)) : q \in Seq(Inbox(a)')
  BY <1>1, SequenceWidens
<1> QED
  BY <1>2, <1>3

\* What a step has to show: those that are bound stay bound, and who pairs by it is
\* mutual.
LEMMA PairStays ==
  ASSUME PairInv, Keeps, PairTyped',
         \A a \in Attempts : pairUp'[a] \in Seq(Ups(a)') /\ inbox'[a] \in Seq(Inbox(a)'),
         \A a \in Attempts : pairAt'[a] = "confirming" => peer'[a] \in Attempts \ {a},
         \A a \in Attempts : pairAt'[a] = "paired" /\ pairAt[a] # "paired" => Mutual(a)'
  PROVE  PairInv'
<1>1. ASSUME NEW a \in Attempts, pairAt[a] = "paired" PROVE Mutual(a)'
  BY <1>1 DEF PairInv, PairTyped, Mutual, Keeps, Bound
<1>2. \A a \in Attempts : Mutual(a)'
  BY <1>1 DEF Mutual
<1> QED
  BY <1>2 DEF PairInv

\* The relay's frames, and a member's, to the others of the room.
LEMMA ToOthersTypes ==
  ASSUME PairInv, NEW a \in Attempts,
         NEW m \in {Pair!Joined, Pair!Left, Pair!Hello(a)} \cup Tags
  PROVE  /\ DOMAIN Pair!ToOthers(a, m) = Attempts
         /\ \A b \in Attempts : Pair!ToOthers(a, m)[b] \in Seq(Inbox(b))
<1>1. ASSUME NEW b \in Attempts PROVE Pair!ToOthers(a, m)[b] \in Seq(Inbox(b))
  <2>1. inbox[b] \in Seq(Inbox(b))
    BY DEF PairInv
  <2>2. CASE b \in Pair!Others(a)
    <3>1. b # a
      BY <2>2 DEF Pair!Others
    <3>2. m \in Inbox(b)
      BY <3>1 DEF Inbox, Greetings
    <3>3. Append(inbox[b], m) \in Seq(Inbox(b))
      BY <2>1, <3>2, SequenceStep
    <3> QED
      BY <2>2, <3>3 DEF Pair!ToOthers
  <2>3. CASE b \notin Pair!Others(a)
    BY <2>1, <2>3 DEF Pair!ToOthers
  <2> QED
    BY <2>2, <2>3
<1> QED
  BY <1>1 DEF Pair!ToOthers

LEMMA PairInit == Pair!Init => PairInv
<1> SUFFICES ASSUME Pair!Init PROVE PairInv
  OBVIOUS
<1>1. \A S : << >> \in Seq(S)
  BY EmptySequence
<1>2. PairTyped
  BY <1>1 DEF Pair!Init, PairTyped
<1>3. \A a \in Attempts : pairUp[a] \in Seq(Ups(a)) /\ inbox[a] \in Seq(Inbox(a))
  BY <1>1 DEF Pair!Init
<1>4. \A a \in Attempts : pairAt[a] = "off"
  BY DEF Pair!Init
<1> QED
  BY <1>2, <1>3, <1>4 DEF PairInv, Mutual

LEMMA JoinRoomStep ==
  ASSUME PairInv, NEW a \in Attempts, Pair!JoinRoom(a)
  PROVE  PairInv'
<1>1. /\ \E p \in {"waiting", "failed"} : pairAt' = [pairAt EXCEPT ![a] = p]
      /\ pairAt[a] = "off" /\ UNCHANGED <<pairUp, peer>>
  BY DEF Pair!JoinRoom
<1>2. Keeps
  BY <1>1 DEF Keeps, Bound, PairInv, PairTyped
<1>3. \/ inbox' = inbox
      \/ inbox' = [Pair!ToOthers(a, Pair!Joined) EXCEPT ![a] = Append(@, Pair!Joined)]
  BY DEF Pair!JoinRoom
<1>4. /\ DOMAIN inbox' = Attempts
      /\ \A b \in Attempts : inbox'[b] \in Seq(Inbox(b))
  <2> DEFINE told == Pair!ToOthers(a, Pair!Joined)
  <2>1. DOMAIN told = Attempts /\ \A b \in Attempts : told[b] \in Seq(Inbox(b))
    BY ToOthersTypes
  <2>2. Pair!Joined \in Inbox(a)
    BY DEF Inbox
  <2>6. inbox' = inbox \/ inbox' = [told EXCEPT ![a] = Append(@, Pair!Joined)]
    BY <1>3
  <2> HIDE DEF told
  <2>3. Append(told[a], Pair!Joined) \in Seq(Inbox(a))
    BY <2>1, <2>2, SequenceStep
  <2>4. CASE inbox' = inbox
    BY <2>4 DEF PairInv, PairTyped
  <2>5. CASE inbox' = [told EXCEPT ![a] = Append(@, Pair!Joined)]
    BY <2>1, <2>3, <2>5
  <2> QED
    BY <2>4, <2>5, <2>6
<1>5. PairTyped'
  BY <1>1, <1>4 DEF PairInv, PairTyped
<1>6. \A b \in Attempts : pairUp'[b] \in Seq(Ups(b)') /\ inbox'[b] \in Seq(Inbox(b)')
  BY <1>1, <1>2, <1>4, QueuesStay DEF PairInv
<1>7. \A b \in Attempts : /\ pairAt'[b] = "confirming" => peer'[b] \in Attempts \ {b}
                          /\ pairAt'[b] = "paired" => pairAt[b] = "paired"
  BY <1>1 DEF PairInv, PairTyped
<1> QED
  BY <1>2, <1>5, <1>6, <1>7, PairStays

\* A step that changes queues only.
LEMMA HubStep ==
  ASSUME PairInv, NEW a \in Attempts, Pair!Hub(a)
  PROVE  PairInv'
<1>1. UNCHANGED <<pairAt, peer>> /\ pairUp[a] # << >> /\ pairUp' = [pairUp EXCEPT ![a] = Tail(@)]
  BY DEF Pair!Hub, Pair!ReadFrame, Pair!LeaveRoom
<1>2. Keeps
  BY <1>1 DEF Keeps, Bound
<1>3. /\ Head(pairUp[a]) \in Ups(a) /\ Tail(pairUp[a]) \in Seq(Ups(a))
  BY <1>1, SequenceStep DEF PairInv
<1>4. /\ DOMAIN inbox' = Attempts
      /\ \A b \in Attempts : inbox'[b] \in Seq(Inbox(b))
  <2>1. CASE Pair!ReadFrame(a)
    <3>1. inbox' = Pair!ToOthers(a, Head(pairUp[a])) /\ Head(pairUp[a]) # Pair!End
      BY <2>1 DEF Pair!ReadFrame, Pair!RelayRoom
    <3>2. Head(pairUp[a]) \in {Pair!Joined, Pair!Left, Pair!Hello(a)} \cup Tags
      BY <1>3, <3>1 DEF Ups
    <3> QED
      BY <3>1, <3>2, ToOthersTypes DEF PairInv, PairTyped
  <2>2. CASE Pair!LeaveRoom(a)
    <3> DEFINE told == Pair!ToOthers(a, Pair!Left)
    <3>1. inbox' = [told EXCEPT ![a] = << >>]
      BY <2>2 DEF Pair!LeaveRoom
    <3>2. DOMAIN told = Attempts /\ \A b \in Attempts : told[b] \in Seq(Inbox(b))
      BY ToOthersTypes
    <3>3. << >> \in Seq(Inbox(a))
      BY EmptySequence
    <3> HIDE DEF told
    <3> QED
      BY <3>1, <3>2, <3>3
  <2> QED
    BY <2>1, <2>2 DEF Pair!Hub
<1>5. PairTyped'
  BY <1>1, <1>4 DEF PairInv, PairTyped
<1>6. \A b \in Attempts : pairUp'[b] \in Seq(Ups(b))
  BY <1>1, <1>3 DEF PairInv, PairTyped
<1>7. \A b \in Attempts : pairUp'[b] \in Seq(Ups(b)') /\ inbox'[b] \in Seq(Inbox(b)')
  BY <1>2, <1>4, <1>6, QueuesStay
<1> QED
  BY <1>1, <1>2, <1>5, <1>7, PairStays DEF PairInv

\* A client's step: the head of its inbox, read in some place, moves it to another
\* and has it send something.
LEMMA ReceiveTypes ==
  ASSUME PairInv, NEW a \in Attempts, NEW where, NEW kinds, Pair!Receive(a, where, kinds)
  PROVE  /\ Head(inbox[a]) \in Inbox(a) /\ Head(inbox[a]).t \in kinds
         /\ pairAt[a] = where
         /\ DOMAIN inbox' = Attempts
         /\ \A b \in Attempts : inbox'[b] \in Seq(Inbox(b))
<1>1. /\ pairAt[a] = where /\ inbox[a] # << >> /\ Head(inbox[a]).t \in kinds
      /\ inbox' = [inbox EXCEPT ![a] = Tail(@)]
  BY DEF Pair!Receive
<1>2. Head(inbox[a]) \in Inbox(a) /\ Tail(inbox[a]) \in Seq(Inbox(a))
  BY <1>1, SequenceStep DEF PairInv
<1> QED
  BY <1>1, <1>2 DEF PairInv, PairTyped

\* What a client's step has to show besides: where it goes, and what it sends, which
\* is of the tags that are under way then.
LEMMA ClientStays ==
  ASSUME PairInv, Keeps, NEW a \in Attempts, NEW to, NEW msgs \in Seq(Ups(a)'),
         Pair!Goes(a, to), Pair!Send(a, msgs), DOMAIN peer' = Attempts,
         DOMAIN inbox' = Attempts,
         \A b \in Attempts : inbox'[b] \in Seq(Inbox(b)),
         \A b \in Attempts : b # a => peer'[b] = peer[b],
         to = "confirming" => peer'[a] \in Attempts \ {a},
         to = "paired" => Mutual(a)'
  PROVE  PairInv'
<1>1. pairAt' = [pairAt EXCEPT ![a] = to] /\ pairUp' = [pairUp EXCEPT ![a] = @ \o msgs]
  BY DEF Pair!Goes, Pair!Send
<1>2. PairTyped'
  BY <1>1 DEF PairInv, PairTyped
<1>3. \A b \in Attempts : pairUp[b] \in Seq(Ups(b)') /\ inbox'[b] \in Seq(Inbox(b)')
  BY QueuesStay DEF PairInv
<1>4. pairUp[a] \o msgs \in Seq(Ups(a)')
  BY <1>3, ConcatProperties
<1>5. \A b \in Attempts : pairUp'[b] \in Seq(Ups(b)')
  BY <1>1, <1>3, <1>4 DEF PairInv, PairTyped
<1>6. \A b \in Attempts : /\ b # a => pairAt'[b] = pairAt[b]
                          /\ pairAt'[a] = to
  BY <1>1 DEF PairInv, PairTyped
<1>7. \A b \in Attempts : pairAt'[b] = "confirming" => peer'[b] \in Attempts \ {b}
  BY <1>6 DEF PairInv
<1>8. \A b \in Attempts : pairAt'[b] = "paired" /\ pairAt[b] # "paired" => Mutual(b)'
  BY <1>6
<1> QED
  BY <1>2, <1>3, <1>5, <1>7, <1>8, PairStays

\* A sequence of one, which its members may have sent.
LEMMA OneMessage ==
  ASSUME NEW S, NEW m \in S
  PROVE  <<m>> \in Seq(S)
  OBVIOUS

\* End and the client's own Hello may always be sent.
LEMMA Sendable ==
  ASSUME NEW a \in Attempts
  PROVE  <<Pair!End>> \in Seq(Ups(a)') /\ <<Pair!Hello(a)>> \in Seq(Ups(a)')
<1>1. Pair!End \in Ups(a)' /\ Pair!Hello(a) \in Ups(a)'
  BY DEF Ups
<1> QED
  BY <1>1, OneMessage

LEMMA PeerJoinedStep ==
  ASSUME PairInv, NEW a \in Attempts, Pair!PeerJoined(a)
  PROVE  PairInv'
<1>1. /\ Pair!Receive(a, "waiting", {"joined"}) /\ Pair!Goes(a, "greeted") /\ UNCHANGED peer
      /\ Pair!Send(a, <<Pair!Hello(a)>>)
  BY DEF Pair!PeerJoined
<1>2. /\ pairAt[a] = "waiting" /\ DOMAIN inbox' = Attempts
      /\ \A b \in Attempts : inbox'[b] \in Seq(Inbox(b))
  BY <1>1, ReceiveTypes
<1>3. Keeps
  BY <1>1, <1>2 DEF Pair!Goes, Keeps, Bound, PairInv, PairTyped
<1> QED
  BY <1>1, <1>2, <1>3, Sendable, ClientStays DEF PairInv, PairTyped

LEMMA PeerLeftStep ==
  ASSUME PairInv, NEW a \in Attempts, Pair!PeerLeft(a)
  PROVE  PairInv'
<1>1. /\ Pair!Receive(a, "waiting", {"left"}) /\ Pair!Goes(a, "failed") /\ UNCHANGED peer
      /\ Pair!Send(a, <<Pair!End>>)
  BY DEF Pair!PeerLeft
<1>2. /\ pairAt[a] = "waiting" /\ DOMAIN inbox' = Attempts
      /\ \A b \in Attempts : inbox'[b] \in Seq(Inbox(b))
  BY <1>1, ReceiveTypes
<1>3. Keeps
  BY <1>1, <1>2 DEF Pair!Goes, Keeps, Bound, PairInv, PairTyped
<1> QED
  BY <1>1, <1>2, <1>3, Sendable, ClientStays DEF PairInv, PairTyped

LEMMA SkipStep ==
  ASSUME PairInv, NEW a \in Attempts, Pair!Skip(a)
  PROVE  PairInv'
<1>1. /\ UNCHANGED <<pairUp, pairAt, peer>>
      /\ DOMAIN inbox' = Attempts /\ \A b \in Attempts : inbox'[b] \in Seq(Inbox(b))
  <2>1. UNCHANGED <<pairUp, pairAt, peer>>
    BY DEF Pair!Skip
  <2>2. PICK where, kinds : Pair!Receive(a, where, kinds)
    BY DEF Pair!Skip
  <2> QED
    BY <2>1, <2>2, ReceiveTypes
<1>2. Keeps
  BY <1>1 DEF Keeps, Bound
<1>3. PairTyped'
  BY <1>1 DEF PairInv, PairTyped
<1>4. \A b \in Attempts : pairUp'[b] \in Seq(Ups(b)') /\ inbox'[b] \in Seq(Inbox(b)')
  BY <1>1, <1>2, QueuesStay DEF PairInv
<1> QED
  BY <1>1, <1>2, <1>3, <1>4, PairStays DEF PairInv

\* The Hello it goes on with is another's.
LEMMA PeerHelloStep ==
  ASSUME PairInv, NEW a \in Attempts, Pair!PeerHello(a)
  PROVE  PairInv'
<1> DEFINE b == Head(inbox[a]).from
<1>1. /\ Pair!Receive(a, "greeted", {"hello"}) /\ Pair!Goes(a, "confirming")
      /\ peer' = [peer EXCEPT ![a] = b] /\ Pair!Send(a, <<Pair!Confirm(a, b)>>)
  BY DEF Pair!PeerHello
<1>2. /\ pairAt[a] = "greeted" /\ DOMAIN inbox' = Attempts
      /\ Head(inbox[a]) \in Inbox(a) /\ Head(inbox[a]).t = "hello"
      /\ \A c \in Attempts : inbox'[c] \in Seq(Inbox(c))
  BY <1>1, ReceiveTypes
<1>3. b \in Attempts \ {a}
  <2>1. Head(inbox[a]) \in Greetings(a)
    BY <1>2, MessageKinds DEF Inbox
  <2> QED
    BY <2>1, MessageKinds DEF Greetings
<1> HIDE DEF b
<1>4. Keeps
  BY <1>1, <1>2 DEF Pair!Goes, Keeps, Bound, PairInv, PairTyped
<1>5. pairAt'[a] = "confirming" /\ peer'[a] = b
  BY <1>1 DEF Pair!Goes, PairInv, PairTyped
<1>6. <<Pair!Confirm(a, b)>> \in Seq(Ups(a)')
  <2>1. a \in Bound' /\ Pair!Confirm(a, peer'[a]) = Pair!Confirm(a, b)
    BY <1>5 DEF Bound
  <2>2. Pair!Confirm(a, b) \in Tags'
    BY <2>1 DEF Tags, Pair!Confirm
  <2>3. Pair!Confirm(a, b) \in Ups(a)'
    BY <2>2 DEF Ups
  <2> QED
    BY <2>3, OneMessage
<1>7. DOMAIN peer' = Attempts /\ \A c \in Attempts : c # a => peer'[c] = peer[c]
  BY <1>1 DEF PairInv, PairTyped
<1> QED
  BY <1>1, <1>2, <1>3, <1>4, <1>5, <1>6, <1>7, ClientStays

\* A tag that is right under our key is the peer's own, who is bound to us.
LEMMA PeerConfirmsStep ==
  ASSUME PairInv, NEW a \in Attempts, Pair!PeerConfirms(a)
  PROVE  PairInv'
<1> DEFINE tag == Head(inbox[a])
           to  == IF Pair!TagsEqual(a, tag) THEN "paired" ELSE "failed"
<1>1. /\ Pair!Receive(a, "confirming", {"confirm"}) /\ Pair!Goes(a, to)
      /\ UNCHANGED peer /\ Pair!Send(a, <<Pair!End>>)
  BY DEF Pair!PeerConfirms
<1>2. /\ pairAt[a] = "confirming" /\ DOMAIN inbox' = Attempts
      /\ tag \in Inbox(a) /\ tag.t = "confirm"
      /\ \A c \in Attempts : inbox'[c] \in Seq(Inbox(c))
  BY <1>1, ReceiveTypes
<1>3. tag \in Tags
  BY <1>2, MessageKinds DEF Inbox, Greetings
<1>4. ASSUME Pair!TagsEqual(a, tag)
      PROVE  /\ peer[a] \in Bound /\ SecretOf[peer[a]] = SecretOf[a]
             /\ peer[peer[a]] = a
  <2>1. PICK x \in Bound : tag = Pair!Confirm(x, peer[x])
    BY <1>3 DEF Tags
  <2>2. tag = [t |-> "confirm", secret |-> SecretOf[a], from |-> peer[a], to |-> a]
    BY <1>4 DEF Pair!TagsEqual, Pair!Confirm
  <2>3. x = peer[a] /\ SecretOf[x] = SecretOf[a] /\ peer[x] = a
    BY <2>1, <2>2 DEF Pair!Confirm
  <2> QED
    BY <2>3
<1>5. peer[a] \in Attempts \ {a}
  BY <1>2 DEF PairInv
<1>6. to \in {"paired", "failed"} /\ (to = "paired" => Pair!TagsEqual(a, tag))
  OBVIOUS
<1> HIDE DEF to, tag
<1>7. Keeps
  BY <1>1, <1>2, <1>6 DEF Pair!Goes, Keeps, Bound, PairInv, PairTyped
<1>8. to = "paired" => Mutual(a)'
  BY <1>1, <1>4, <1>5, <1>6, <1>7 DEF Mutual, Keeps
<1> QED
  BY <1>1, <1>2, <1>6, <1>7, <1>8, Sendable, ClientStays DEF PairInv, PairTyped

\* The beginnings of a sequence are sequences of the same things.
LEMMA PrefixesAreSequences ==
  ASSUME NEW S, NEW q \in Seq(S), NEW p \in Pair!Prefixes(q)
  PROVE  p \in Seq(S)
<1>1. PICK l \in 0 .. Len(q) : p = SubSeq(q, 1, l)
  BY DEF Pair!Prefixes
<1> QED
  BY <1>1

\* What is left of a queue after a crash is a beginning of it.
LEMMA QuitStep ==
  ASSUME PairInv, NEW a \in Attempts, Pair!Quit(a) \/ Pair!Cut(a)
  PROVE  PairInv'
<1>1. PICK kept \in Pair!Prefixes(pairUp[a]) : pairUp' = [pairUp EXCEPT ![a] = kept \o <<Pair!End>>]
  BY DEF Pair!Quit, Pair!Cut
<1>2. /\ pairAt' = [pairAt EXCEPT ![a] = "gone"] \/ pairAt' = pairAt
      /\ UNCHANGED <<inbox, peer>>
  BY DEF Pair!Quit, Pair!Cut, Pair!Goes
<1>3. Keeps
  BY <1>2 DEF Keeps, Bound, PairInv, PairTyped
<1>4. kept \o <<Pair!End>> \in Seq(Ups(a))
  <2>1. pairUp[a] \in Seq(Ups(a))
    BY DEF PairInv
  <2>2. kept \in Seq(Ups(a))
    BY <1>1, <2>1, PrefixesAreSequences
  <2>3. <<Pair!End>> \in Seq(Ups(a))
    BY OneMessage DEF Ups
  <2> QED
    BY <2>2, <2>3, ConcatProperties
<1>5. PairTyped'
  BY <1>1, <1>2 DEF PairInv, PairTyped
<1>6. \A b \in Attempts : pairUp'[b] \in Seq(Ups(b)) /\ inbox'[b] \in Seq(Inbox(b))
  BY <1>1, <1>2, <1>4 DEF PairInv, PairTyped
<1>7. \A b \in Attempts : pairUp'[b] \in Seq(Ups(b)') /\ inbox'[b] \in Seq(Inbox(b)')
  BY <1>3, <1>6, QueuesStay
<1>8. \A b \in Attempts : /\ pairAt'[b] = "confirming" => peer'[b] \in Attempts \ {b}
                          /\ pairAt'[b] = "paired" => pairAt[b] = "paired"
  BY <1>2 DEF PairInv, PairTyped
<1> QED
  BY <1>3, <1>5, <1>7, <1>8, PairStays

LEMMA PairStep == PairInv /\ [Pair!Next]_pairVars => PairInv'
<1> SUFFICES ASSUME PairInv, [Pair!Next]_pairVars PROVE PairInv'
  OBVIOUS
<1>1. ASSUME NEW a \in Attempts,
             Pair!JoinRoom(a) \/ Pair!Hub(a) \/ Pair!Client(a) \/ Pair!Quit(a) \/ Pair!Cut(a)
      PROVE  PairInv'
  BY <1>1, JoinRoomStep, HubStep, QuitStep, PeerJoinedStep, PeerLeftStep, SkipStep,
     PeerHelloStep, PeerConfirmsStep DEF Pair!Client
<1>2. CASE UNCHANGED pairVars
  <2>1. Keeps
    BY <1>2 DEF pairVars, Keeps, Bound
  <2>2. PairTyped'
    BY <1>2 DEF pairVars, PairInv, PairTyped
  <2>3. \A a \in Attempts : pairUp'[a] \in Seq(Ups(a)') /\ inbox'[a] \in Seq(Inbox(a)')
    BY <1>2, <2>1, QueuesStay DEF pairVars, PairInv
  <2> QED
    BY <1>2, <2>1, <2>2, <2>3, PairStays DEF pairVars, PairInv
<1> QED
  BY <1>1, <1>2 DEF Pair!Next

\* Whoever has paired knows a peer of the same secret, bound to it in turn
\* (pairing_client.rs).
THEOREM PairingIsMutual == SideSpec => []PairedIsMutual
<1>1. SideInit => PairInv
  BY PairInit DEF SideInit
<1>2. PairInv /\ [SideNext]_sideVars => PairInv'
  <2>1. [SideNext]_sideVars => [Pair!Next]_pairVars
    BY DEF SideNext, sideVars, Stores, Pairs, Inputs, Shows, Syncs, pairVars
  <2> QED
    BY <2>1, PairStep
<1>3. PairInv => PairedIsMutual
  BY DEF PairInv, Mutual, PairedIsMutual, Pair!PairedIsMutual
<1> QED
  BY <1>1, <1>2, <1>3, PTL DEF SideSpec

-----------------------------------------------------------------------------
(* The injected input.                                                      *)

\* The quotient and the remainder.
LEMMA Quotient ==
  ASSUME NEW a \in Int, NEW b \in Int, b > 0
  PROVE  a \div b \in Int /\ b * (a \div b) <= a /\ a < b * (a \div b) + b
  OBVIOUS

LEMMA Times ==
  ASSUME NEW a \in Int, NEW b \in Int, NEW c \in Int, a <= b, c >= 0
  PROVE  a * c <= b * c
  OBVIOUS

\* A common factor of two products.
LEMMA Cancels ==
  ASSUME NEW a \in Int, NEW b \in Int, NEW c \in Int, a * c <= b * c, c > 0
  PROVE  a <= b
  OBVIOUS

\* What is at most the dividend is at most the quotient, and the other way round.
LEMMA QuotientBounds ==
  ASSUME NEW a \in Int, NEW b \in Int, b > 0, NEW q \in Int
  PROVE  /\ q * b <= a => q <= a \div b
         /\ a <= q * b => a \div b <= q
<1>1. a \div b \in Int /\ b * (a \div b) <= a /\ a < b * (a \div b) + b
  BY Quotient
<1> DEFINE p == a \div b
<1>2. p \in Int /\ p * b <= a /\ a < (p + 1) * b
  BY <1>1
<1> HIDE DEF p
<1>3. ASSUME q * b <= a PROVE q <= p
  <2> SUFFICES ASSUME q >= p + 1 PROVE FALSE
    BY <1>2
  <2>1. (p + 1) * b <= q * b
    BY <1>2, Times
  <2>2. (p + 1) * b \in Int /\ q * b \in Int
    BY <1>2
  <2> QED
    BY <1>2, <1>3, <2>1, <2>2
<1>4. ASSUME a <= q * b PROVE p <= q
  <2>1. p * b \in Int /\ q * b \in Int
    BY <1>2
  <2>2. p * b <= q * b
    BY <1>2, <1>4, <2>1
  <2> QED
    BY <1>2, <2>2, Cancels
<1> QED
  BY <1>3, <1>4 DEF p

\* A point k of the output, in parts of one, lies between its two ends.
LEMMA BetweenTheEnds ==
  ASSUME NEW o \in Nat, NEW m \in Nat, NEW d \in Nat \ {0}, NEW one \in Nat \ {0},
         NEW k \in 0 .. one, NEW max \in Nat
  PROVE  LET p == ((o * one + k * m) * max) \div (d * one)
         IN  p >= (o * max) \div d /\ p <= ((o + m) * max) \div d
<1> DEFINE low  == (o * max) \div d
           high == ((o + m) * max) \div d
           a    == (o * one + k * m) * max
<1>1. low \in Int /\ d * low <= o * max
  BY Quotient
<1>2. a \in Int /\ d * one \in Int /\ d * one > 0
  BY Times
<1>3. low <= a \div (d * one)
  <2>1. (d * low) * one <= (o * max) * one
    BY <1>1, Times
  <2>2. 0 <= k * m /\ k * m \in Int
    BY Times
  <2>3. (o * one) * max <= (o * one + k * m) * max
    BY <2>2, Times
  <2>4. low * (d * one) = (d * low) * one /\ (o * max) * one = (o * one) * max
    BY <1>1
  <2>5. low * (d * one) \in Int /\ (o * one) * max \in Int
    BY <1>1
  <2>6. low * (d * one) <= a
    BY <1>2, <2>1, <2>3, <2>4, <2>5
  <2> HIDE DEF low, a
  <2> QED
    BY <1>1, <1>2, <2>6, QuotientBounds
<1>4. a \div (d * one) <= high
  <2> DEFINE p == a \div (d * one)
             b == (o + m) * max
  <2>1. p \in Int /\ (d * one) * p <= a
    BY <1>2, Quotient
  <2>2. k * m <= one * m /\ k * m \in Int /\ one * m \in Int
    BY Times
  <2>3. (o * one + k * m) * max <= (o * one + one * m) * max
    BY <2>2, Times
  <2>4. (o * one + one * m) * max = b * one /\ b \in Int
    OBVIOUS
  <2> HIDE DEF p, b, a
  <2>5. (d * one) * p = (p * d) * one /\ p * d \in Int
    BY <2>1
  <2>6. (p * d) * one <= b * one
    BY <1>2, <2>1, <2>3, <2>4, <2>5 DEF a
  <2>7. p * d <= b
    BY <2>4, <2>5, <2>6, Cancels
  <2>8. p <= b \div d
    BY <2>1, <2>4, <2>7, QuotientBounds
  <2> QED
    BY <2>8 DEF p, b
<1> QED
  BY <1>3, <1>4

\* Rounding is off by half a unit at most.
LEMMA RoundedBounds ==
  ASSUME NEW n \in Nat, NEW d \in Nat \ {0}
  PROVE  LET r == Input!Rounded(n, d)
         IN  r \in Nat /\ 2 * (d * r) <= 2 * n + d /\ 2 * n <= 2 * (d * r) + d
<1> DEFINE r == (2 * n + d) \div (2 * d)
<1>1. r \in Int /\ (2 * d) * r <= 2 * n + d /\ 2 * n + d < (2 * d) * r + 2 * d
  BY Quotient
<1>2. r >= 0
  BY QuotientBounds
<1> HIDE DEF r
<1>3. (2 * d) * r = 2 * (d * r) /\ d * r \in Int
  BY <1>1
<1>4. Input!Rounded(n, d) = r
  BY DEF r, Input!Rounded
<1> QED
  BY <1>1, <1>2, <1>3, <1>4

\* A line that is off by at most e at both ends of 0 .. unit is so between them.
LEMMA OffBetween ==
  ASSUME NEW unit \in Nat, NEW u \in 0 .. unit, NEW e0 \in Int, NEW e1 \in Int, NEW e \in Nat,
         -e <= e0, e0 <= e, -e <= e1, e1 <= e
  PROVE  LET d == (unit - u) * e0 + u * e1
         IN  d \in Int /\ -(e * unit) <= d /\ d <= e * unit
<1>1. e0 * (unit - u) <= e * (unit - u) /\ (-e) * (unit - u) <= e0 * (unit - u)
  BY Times
<1>2. e1 * u <= e * u /\ (-e) * u <= e1 * u
  BY Times
<1> QED
  BY <1>1, <1>2

\* The crop lies in the frame, and its ends are off by a pixel and a half at most.
LEMMA CropBounds ==
  ASSUME NEW x \in Nat, NEW w \in Nat \ {0}, x + w <= Unit
  PROVE  LET c == Input!Crop([x |-> x, w |-> w]) IN
         /\ c.at \in Int /\ c.n \in Int /\ c.n >= 1 /\ c.at >= 0 /\ c.at + c.n <= Width
         /\ LET e0 == 2 * (Unit * c.at) - 2 * (x * Width)
                e1 == 2 * (Unit * (c.at + c.n)) - 2 * ((x + w) * Width)
            IN  /\ -(3 * Unit) <= e0 /\ e0 <= 3 * Unit
                /\ -(3 * Unit) <= e1 /\ e1 <= 3 * Unit
<1> DEFINE r == Input!Rounded(x * Width, Unit)
           s == Input!Rounded(w * Width, Unit)
           lo == IF r > Width - 1 THEN Width - 1 ELSE r
           one == IF s < 1 THEN 1 ELSE s
           n  == IF one > Width - lo THEN Width - lo ELSE one
<1>1. Unit \in Nat \ {0} /\ Width \in Nat \ {0}
  BY InputAssumption
<1>2. x * Width \in Nat /\ w * Width \in Nat /\ (x + w) * Width = x * Width + w * Width
  BY <1>1, Times
<1>3. /\ r \in Nat /\ 2 * (Unit * r) <= 2 * (x * Width) + Unit
      /\ 2 * (x * Width) <= 2 * (Unit * r) + Unit
  BY <1>1, <1>2, RoundedBounds
<1>4. /\ s \in Nat /\ 2 * (Unit * s) <= 2 * (w * Width) + Unit
      /\ 2 * (w * Width) <= 2 * (Unit * s) + Unit
  BY <1>1, <1>2, RoundedBounds
<1>5. Input!Crop([x |-> x, w |-> w]) = [at |-> lo, n |-> n]
  BY DEF Input!Crop, Input!AtMost
<1> HIDE DEF r, s
<1>6. lo \in Nat /\ lo <= Width - 1 /\ n \in Nat /\ n >= 1 /\ lo + n <= Width
  BY <1>1, <1>3, <1>4
<1> DEFINE e0 == 2 * (Unit * lo) - 2 * (x * Width)
           e1 == 2 * (Unit * (lo + n)) - 2 * ((x + w) * Width)
<1>7. (x + w) * Width <= Unit * Width /\ (x + w) * Width >= x * Width + Width
  <2>1. (x + w) * Width <= Unit * Width
    BY <1>1, Times
  <2>2. 1 * Width <= w * Width
    BY <1>1, Times
  <2> QED
    BY <1>1, <1>2, <2>1, <2>2
<1>8. -(2 * Unit) <= e0 /\ e0 <= Unit
  <2>1. CASE lo = r
    BY <1>1, <1>2, <1>3, <2>1
  <2>2. CASE r > Width - 1 /\ lo = Width - 1
    <3>1. Unit * lo = Unit * Width - Unit
      BY <1>1, <2>2
    <3>2. Unit * lo <= Unit * r
      BY <1>1, <1>3, <2>2, Times
    <3> QED
      BY <1>1, <1>2, <1>3, <1>6, <1>7, <3>1, <3>2
  <2> QED
    BY <2>1, <2>2
<1>9. Unit * (lo + n) = Unit * lo + Unit * n
  BY <1>1, <1>6
<1>10. e1 = 2 * (Unit * lo + Unit * n) - 2 * (x * Width + w * Width) /\ e1 \in Int
  BY <1>1, <1>2, <1>6, <1>9
<1> HIDE DEF e1
<1>11. -(3 * Unit) <= e1 /\ e1 <= 3 * Unit
  <2>1. CASE n = one /\ s >= 1
    BY <1>1, <1>2, <1>4, <1>6, <1>8, <1>10, <2>1
  <2>2. CASE n = one /\ s < 1
    <3>1. n = 1 /\ s = 0
      BY <1>4, <2>2
    <3>2. Unit * n = Unit /\ Unit * s = 0
      BY <1>1, <3>1
    <3> QED
      BY <1>1, <1>2, <1>4, <1>6, <1>8, <1>10, <3>2
  <2>3. CASE n = Width - lo /\ one > Width - lo
    <3>1. lo + n = Width
      BY <1>1, <1>6, <2>3
    <3>2. e1 >= 0
      <4>1. Unit * (lo + n) = Unit * Width
        BY <3>1
      <4>2. Unit * lo + Unit * n = Unit * Width
        BY <1>9, <4>1
      <4>3. Unit * Width \in Int
        BY <1>1
      <4> HIDE DEF lo, n
      <4> QED
        BY <1>2, <1>7, <1>10, <4>2, <4>3
    <3>3. n <= one /\ one \in Nat
      BY <1>1, <1>4, <1>6, <2>3
    <3>4. Unit * n <= Unit * one
      BY <1>1, <1>6, <3>3, Times
    <3>5. CASE s >= 1
      BY <1>1, <1>2, <1>4, <1>6, <1>8, <1>10, <3>2, <3>4, <3>5
    <3>6. CASE s < 1
      <4>1. Unit * one = Unit
        BY <1>1, <3>6
      <4> QED
        BY <1>1, <1>2, <1>4, <1>6, <1>8, <1>10, <3>2, <3>4, <4>1
    <3>7. s >= 1 \/ s < 1
      BY <1>4
    <3> QED
      BY <3>5, <3>6, <3>7
  <2>4. (n = one \/ (n = Width - lo /\ one > Width - lo)) /\ (s >= 1 \/ s < 1)
    BY <1>4
  <2> QED
    BY <2>1, <2>2, <2>3, <2>4
<1> QED
  BY <1>1, <1>5, <1>6, <1>8, <1>11 DEF e1

\* The rectangle that both the crop and the remap read.
OnTheScreen ==
    /\ inputZoom.x \in Nat /\ inputZoom.w \in Nat \ {0} /\ inputZoom.x + inputZoom.w <= Unit
    /\ inputZoom = [x |-> inputZoom.x, w |-> inputZoom.w]

\* The picture and the pointer are two lines, and agree at both ends.
LEMMA PictureAndPointer ==
  ASSUME OnTheScreen
  PROVE  Input!PictureMeetsPointer
<1> DEFINE x == inputZoom.x
           w == inputZoom.w
           c == Input!Crop(inputZoom)
           e0 == 2 * (Unit * c.at) - 2 * (x * Width)
           e1 == 2 * (Unit * (c.at + c.n)) - 2 * ((x + w) * Width)
<1>1. Unit \in Nat \ {0} /\ Width \in Nat \ {0} /\ x \in Nat /\ w \in Nat \ {0} /\ x + w <= Unit
  BY InputAssumption DEF OnTheScreen
<1>2. /\ c.at \in Int /\ c.n \in Int /\ c.n >= 1 /\ c.at >= 0 /\ c.at + c.n <= Width
      /\ -(3 * Unit) <= e0 /\ e0 <= 3 * Unit
      /\ -(3 * Unit) <= e1 /\ e1 <= 3 * Unit
  BY <1>1, CropBounds DEF OnTheScreen
<1> SUFFICES ASSUME NEW u \in 0 .. Unit
             PROVE  ((c.at * Unit + u * c.n) * Unit) - (Input!Remap(u) * Width)
                        \in -(3 * Input!One) \div 2 .. (3 * Input!One) \div 2
  BY <1>2 DEF Input!PictureMeetsPointer
<1> DEFINE off == ((c.at * Unit + u * c.n) * Unit) - ((x * Unit + u * w) * Width)
<1> HIDE DEF c, x, w
<1>3. off \in Int
  BY <1>1, <1>2
<1>4. 2 * off = (Unit - u) * e0 + u * e1
  BY <1>1, <1>2
<1>5. e0 \in Int /\ e1 \in Int /\ 3 * Unit \in Nat
  BY <1>1, <1>2
<1> HIDE DEF off, e0, e1
<1>6. -((3 * Unit) * Unit) <= 2 * off /\ 2 * off <= (3 * Unit) * Unit
  BY <1>1, <1>2, <1>4, <1>5, OffBetween
<1>7. off \in -(3 * (Unit * Unit)) \div 2 .. (3 * (Unit * Unit)) \div 2
  <2> DEFINE sq == Unit * Unit
  <2>1. sq \in Int /\ (3 * Unit) * Unit = 3 * sq
    BY <1>1
  <2> HIDE DEF sq
  <2>2. off \in -(3 * sq) \div 2 .. (3 * sq) \div 2
    BY <1>3, <1>6, <2>1
  <2> QED
    BY <2>2 DEF sq
<1> QED
  BY <1>7 DEF off, x, w, Input!Remap, Input!One

\* Whatever the system has down the backend knows of, since macOS is left out and no event
\* is refused; the zoom
\* lies on the screen, and the pointer on the output or where the device starts.
InputInv ==
    /\ backend \in Backends /\ rect \in Rects /\ last \in Int
    /\ OnTheScreen
    /\ held = tracked
    /\ backend = "uinput" => Input!OnTheOutput(last) \/ last = AbsMax \div 2
    /\ Input!NothingLeaks /\ Input!StaysOnTheOutput

\* Where uinput puts the pointer, and where any backend does.
LEMMA PlacedOnTheOutput ==
  ASSUME InputInv, NEW n \in Int
  PROVE  /\ Input!Place(n) \in Int
         /\ backend = "uinput" => Input!OnTheOutput(Input!Place(n))
<1> DEFINE o == rect.o
           m == rect.m
           d == rect.d
           one == Input!One
           k == Input!Clamp(n, 0, one)
<1>1. o \in Nat /\ m \in Nat /\ d \in Nat \ {0} /\ AbsMax \in Nat
  BY InputAssumption DEF InputInv
<1>2. one \in Nat \ {0}
  BY InputAssumption, Times DEF Input!One
<1> HIDE DEF o, m, d, one
<1>3. k \in 0 .. one
  BY <1>2 DEF Input!Clamp, Input!AtMost
<1> HIDE DEF k
<1> DEFINE p == ((o * one + k * m) * AbsMax) \div (d * one)
<1>4. p >= (o * AbsMax) \div d /\ p <= ((o + m) * AbsMax) \div d
  BY <1>1, <1>2, <1>3, BetweenTheEnds
<1>5. p \in Int /\ (n * AbsMax) \div one \in Int
  <2>1. d * one \in Int /\ d * one > 0 /\ (o * one + k * m) * AbsMax \in Int
    BY <1>1, <1>2, <1>3, Times
  <2>2. n * AbsMax \in Int
    BY <1>1
  <2> QED
    BY <1>2, <2>1, <2>2, Quotient
<1>6. Input!Place(n) = IF backend = "uinput" THEN p ELSE (n * AbsMax) \div one
  BY DEF Input!Place, o, m, d, one, k
<1> HIDE DEF p
<1> QED
  BY <1>4, <1>5, <1>6 DEF Input!OnTheOutput, o, m, d

LEMMA InputInit == Input!Init => InputInv
<1> SUFFICES ASSUME Input!Init PROVE InputInv
  OBVIOUS
<1>1. inputZoom = [x |-> 0, w |-> Unit] /\ Unit \in Nat \ {0}
  BY InputAssumption DEF Input!Init, Input!Full
<1>2. AbsMax \div 2 \in Int
  BY InputAssumption, Quotient
<1>3. OnTheScreen
  BY <1>1 DEF OnTheScreen
<1> QED
  BY <1>2, <1>3 DEF Input!Init, Input!NoEvent, InputInv, Input!NothingLeaks,
                    Input!StaysOnTheOutput

LEMMA SetZoomStep ==
  ASSUME InputInv, NEW x \in Int, NEW w \in Int, Input!SetZoom([x |-> x, w |-> w])
  PROVE  InputInv'
<1>1. Unit \in Nat \ {0}
  BY InputAssumption
<1>2. OnTheScreen'
  <2> DEFINE v == Input!Clamp(w, 0, Unit)
  <2>1. v \in 0 .. Unit
    BY <1>1 DEF Input!Clamp, Input!AtMost
  <2>2. inputZoom' = IF v = 0 \/ v = Unit THEN [x |-> 0, w |-> Unit]
                     ELSE [x |-> Input!Clamp(x, 0, Unit - v), w |-> v]
    BY DEF Input!SetZoom, Input!Sanitized, Input!Full
  <2> HIDE DEF v
  <2>3. Input!Clamp(x, 0, Unit - v) \in 0 .. Unit - v
    BY <1>1, <2>1 DEF Input!Clamp, Input!AtMost
  <2> QED
    BY <1>1, <2>1, <2>2, <2>3 DEF OnTheScreen
<1> QED
  BY <1>2 DEF InputInv, Input!SetZoom, Input!NoEvent, Input!NothingLeaks,
              Input!StaysOnTheOutput, Input!OnTheOutput

\* A coordinate of the viewer's, remapped, is some number.
LEMMA RemapType ==
  ASSUME InputInv, NEW u \in Int
  PROVE  Input!Remap(u) \in Int
  BY InputAssumption DEF InputInv, OnTheScreen, Input!Remap

LEMMA MoveStep ==
  ASSUME InputInv, ~EmitFails, NEW u \in Int, Input!Move(u)
  PROVE  InputInv'
<1>1. last' \in Int /\ (backend = "uinput" => Input!OnTheOutput(last'))
  BY RemapType, PlacedOnTheOutput DEF Input!Move
<1>2. UNCHANGED <<backend, rect, inputZoom, tracked, held>> /\ seen'.what = "move"
  BY DEF Input!Move, Input!Sees, Input!Refused
<1> QED
  BY <1>1, <1>2 DEF InputInv, OnTheScreen, Input!NothingLeaks, Input!StaysOnTheOutput,
                    Input!OnTheOutput

\* A button that gives no position leaves the pointer where it is, or where it starts.
LEMMA MouseButtonStep ==
  ASSUME InputInv, ~EmitFails, NEW b, NEW down, NEW u \in Int, Input!MouseButton(b, down, u)
  PROVE  InputInv'
<1>1. /\ last' \in Int
      /\ backend = "uinput" => Input!OnTheOutput(last') \/ last' = AbsMax \div 2
  BY RemapType, PlacedOnTheOutput DEF Input!MouseButton, Input!ButtonPlace, InputInv
<1>2. /\ UNCHANGED <<backend, rect, inputZoom>> /\ seen'.what = "button"
      /\ tracked' = Input!Track(b, down)
      /\ held' = (IF down THEN held \cup {b} ELSE held \ {b})
  BY DEF Input!MouseButton, Input!Sees, Input!Holds, Input!Refused
<1>3. held' = tracked'
  BY <1>2 DEF Input!Track, InputInv
<1> QED
  BY <1>1, <1>2, <1>3 DEF InputInv, OnTheScreen, Input!NothingLeaks, Input!StaysOnTheOutput,
                          Input!OnTheOutput

LEMMA KeyStep ==
  ASSUME InputInv, "mac" \notin Backends, ~EmitFails, NEW k, NEW down, NEW mods, Input!Key(k, down, mods)
  PROVE  InputInv'
<1>1. backend # "mac"
  BY DEF InputInv
<1>2. /\ UNCHANGED <<backend, rect, inputZoom, last>> /\ seen'.what = "key"
      /\ tracked' = Input!Track(k, down)
      /\ held' = (IF down THEN held \cup {k} ELSE held \ {k})
  BY <1>1 DEF Input!Key, Input!Sees, Input!Holds, Input!Refused
<1>3. held' = tracked'
  BY <1>2 DEF Input!Track, InputInv
<1> QED
  BY <1>2, <1>3 DEF InputInv, OnTheScreen, Input!NothingLeaks, Input!StaysOnTheOutput,
                    Input!OnTheOutput

LEMMA ReleaseAllStep ==
  ASSUME InputInv, "mac" \notin Backends, ~EmitFails, Input!ReleaseAll
  PROVE  InputInv'
<1>1. backend # "mac"
  BY DEF InputInv
<1>2. /\ UNCHANGED <<backend, rect, inputZoom, last>> /\ seen'.what = "released"
      /\ held' = held \ tracked /\ tracked' = {}
  BY <1>1 DEF Input!ReleaseAll, Input!NoEvent
<1>3. held' = {}
  BY <1>2 DEF InputInv
<1> QED
  BY <1>2, <1>3 DEF InputInv, OnTheScreen, Input!NothingLeaks, Input!StaysOnTheOutput,
                    Input!OnTheOutput

LEMMA InputStep ==
  ASSUME InputInv, "mac" \notin Backends, ~EmitFails, Input!Next
  PROVE  InputInv'
<1>1. Input!Coordinates \subseteq Int
  BY InputAssumption DEF Input!Coordinates
<1> QED
  BY <1>1, SetZoomStep, MoveStep, MouseButtonStep, KeyStep, ReleaseAllStep DEF Input!Next

\* With the Linux backends (uinput.rs, linux.rs) and a system that takes what they send: a
\* release leaves nothing down, the
\* pointer goes nowhere but to the captured output, and under every zoom the picture
\* and the pointer agree up to a pixel and a half (crop_scale in scale.rs).
THEOREM InputIsWhatWasMeant ==
  "mac" \notin Backends /\ ~EmitFails => (SideSpec => []InjectsWhatWasMeant)
<1> SUFFICES ASSUME "mac" \notin Backends, ~EmitFails PROVE SideSpec => []InjectsWhatWasMeant
  OBVIOUS
<1>1. SideInit => InputInv
  BY InputInit DEF SideInit
<1>2. InputInv /\ [SideNext]_sideVars => InputInv'
  <2> SUFFICES ASSUME InputInv, [SideNext]_sideVars PROVE InputInv'
    OBVIOUS
  <2>1. CASE UNCHANGED inputVars
    BY <2>1 DEF inputVars, InputInv, OnTheScreen, Input!NothingLeaks, Input!StaysOnTheOutput,
                Input!OnTheOutput
  <2>2. CASE Input!Next
    BY <2>2, InputStep
  <2> QED
    BY <2>1, <2>2 DEF SideNext, sideVars, Stores, Pairs, Inputs, Shows, Syncs
<1>3. InputInv => InjectsWhatWasMeant
  BY PictureAndPointer DEF InputInv, InjectsWhatWasMeant
<1> QED
  BY <1>1, <1>2, <1>3, PTL DEF SideSpec
=============================================================================
