----------------------------- MODULE HostSession -----------------------------
(***************************************************************************)
(* One host session: the loop of `run_host_core` with `handle_control`     *)
(* (crates/session/src/host.rs), its encode thread, and the transport      *)
(* driver.  The three run concurrently; they share the event and command   *)
(* channels, `authorized` and `force_keyframe`.                            *)
(*                                                                         *)
(* Time is abstracted: a password lockout ends when it ends.  A device is  *)
(* allowed by its identity proof, which is bound to the DTLS fingerprint   *)
(* of the last answer the host fed to the driver; a fingerprint is known   *)
(* by the viewer and the connection it was made for.                       *)
(***************************************************************************)
EXTENDS TransportDriver, FiniteSets

CONSTANTS
    RequireAuth,     \* cfg.require_authorization
    Authorized,      \* cfg.authorized_device_ids
    PasswordSet,     \* whether cfg.connect_password is set
    KnowsPassword,   \* viewers whose user knows it
    ThrottleAfter,   \* THROTTLE_AFTER
    Traffic,         \* bound: the messages the viewers of an instance send
    ScreenLive       \* whether the captured screen changes, and so yields frames

ASSUME HostAssumption ==
    /\ RequireAuth \in BOOLEAN
    /\ PasswordSet \in BOOLEAN
    /\ Authorized \subseteq Viewers
    /\ KnowsPassword \subseteq Viewers
    /\ ThrottleAfter \in Nat \ {0}
    /\ Traffic \subseteq Messages
    /\ ScreenLive \in BOOLEAN

VARIABLES
    offered,      \* the connection whose offer was last sent to signaling
    remoteFp,     \* remote_fingerprint: the answer it was read from
    authorized,   \* the security gate every handler and the encoder read
    wasAuthorized,
    viewOnly,     \* view_only
    failures,     \* PasswordThrottle: misses so far, up to ThrottleAfter
    locked,       \* PasswordThrottle: a lockout window is running
    held,         \* keys the injector holds down
    capturing,    \* CaptureController.handle is Some
    status,       \* the last HostStatus reported
    forceKey,     \* force_keyframe
    frame,        \* a raw frame waits in the capture-to-encode channel
    encoding,     \* the encode thread is past its authorization check
    hostSession,  \* history: the connection of the last Connected handled
    accepted      \* history: the connection of the last Hello accepted

hostVars == <<offered, remoteFp, authorized, wasAuthorized, viewOnly, failures,
              locked, held, capturing, status, forceKey, frame, encoding,
              hostSession, accepted>>
vars == <<driverVars, hostVars>>

NoAnswer == [viewer |-> NoOne, session |-> 0]

Command(kind) == [kind |-> kind, viewer |-> NoOne, session |-> 0, verdict |-> "none"]

HostInit ==
    /\ offered = 0
    /\ remoteFp = NoAnswer
    /\ authorized = FALSE
    /\ wasAuthorized = FALSE
    /\ viewOnly = FALSE
    /\ failures = 0
    /\ locked = FALSE
    /\ held = {}
    /\ capturing = FALSE
    /\ status = "waiting"
    /\ forceKey = TRUE
    /\ frame = FALSE
    /\ encoding = FALSE
    /\ hostSession = 0
    /\ accepted = 0

Init == DriverInit /\ HostInit

-----------------------------------------------------------------------------
(* The host loop's other inputs: the signaling client and the clock.        *)

\* `s` is the connection whose offer `v` answers; the offer may be an old one.
FeedAnswer(v, s) ==
    /\ s <= offered
    /\ remoteFp' = [viewer |-> v, session |-> s]
    /\ Send([Command("answer") EXCEPT !.viewer = v, !.session = s])
    /\ UNCHANGED <<phase, pc, peer, told, evq, offered, authorized,
                   wasAuthorized, viewOnly, failures, locked, held, capturing,
                   status, forceKey, frame, encoding, hostSession, accepted>>

\* take_peer_switched: another device's hello arrived.
PeerSwitched ==
    /\ Send(Command("restart"))
    /\ UNCHANGED <<phase, pc, peer, told, evq, hostVars>>

LockoutEnds ==
    /\ locked
    /\ locked' = FALSE
    /\ UNCHANGED <<driverVars, offered, remoteFp, authorized, wasAuthorized,
                   viewOnly, failures, held, capturing, status, forceKey, frame,
                   encoding, hostSession, accepted>>

-----------------------------------------------------------------------------
(* The host loop's transport events, in channel order.                      *)

Handle(kind) ==
    /\ evq # << >>
    /\ Head(evq).kind = kind
    /\ evq' = Tail(evq)
    /\ UNCHANGED <<phase, pc, peer, told, frame, encoding>>

HandleOffer ==
    /\ Handle("offer")
    /\ offered' = Head(evq).session
    /\ UNCHANGED <<cmdq, remoteFp, authorized, wasAuthorized, viewOnly, failures,
                   locked, held, capturing, status, forceKey, hostSession, accepted>>

\* What both Connected and Disconnected reset.
\* Mutant: the gate stays open over a reconnect.
ResetGateMutant ==
    UNCHANGED authorized /\ wasAuthorized' = FALSE /\ viewOnly' = FALSE
ResetGate ==
    authorized' = FALSE /\ wasAuthorized' = FALSE /\ viewOnly' = FALSE

HandleConnected ==
    /\ Handle("connected")
    /\ ResetGate
    /\ hostSession' = Head(evq).session
    /\ UNCHANGED <<cmdq, offered, remoteFp, failures, locked, held, capturing,
                   status, forceKey, accepted>>

\* release_all, pw_throttle.reset, video.pause, on_status(Ended).
WindUpMutant ==   \* mutant: the capture runs on
    /\ held' = {} /\ failures' = 0 /\ locked' = FALSE
    /\ UNCHANGED capturing
    /\ status' = "ended"
WindUp ==
    /\ held' = {} /\ failures' = 0 /\ locked' = FALSE
    /\ capturing' = FALSE
    /\ status' = "ended"

HandleDisconnected ==
    /\ Handle("disconnected")
    /\ ResetGate
    /\ WindUp
    /\ UNCHANGED <<cmdq, offered, remoteFp, forceKey, hostSession, accepted>>

HandleKeyframeRequested ==
    /\ Handle("keyframe")
    /\ forceKey' = TRUE
    /\ UNCHANGED <<cmdq, offered, remoteFp, authorized, wasAuthorized, viewOnly,
                   failures, locked, held, capturing, status, hostSession, accepted>>

-----------------------------------------------------------------------------
(* handle_control: the message `m` of connection `s`.                       *)

Ack(verdict) == Send([Command("ack") EXCEPT !.verdict = verdict])

\* AccessControl.authorize after the version and codec checks: the proof must
\* verify over the fingerprint the host holds, and name an authorized device.
DecisionMutant(m, s) ==   \* mutant: any device that proves its identity passes
    /\ m.type # "hello_incompatible"
    /\ RequireAuth => remoteFp = [viewer |-> peer[s], session |-> s]
Decision(m, s) ==
    /\ m.type # "hello_incompatible"
    /\ RequireAuth => /\ remoteFp = [viewer |-> peer[s], session |-> s]
                      /\ peer[s] \in Authorized

PasswordVerifiedMutant(m) == TRUE   \* mutant: the password is not compared
PasswordVerified(m) == PasswordSet => m.type = "hello"

HelloRejected(m, s) ==
    /\ m.type \in Hellos
    /\ ~Decision(m, s)
    /\ authorized' = FALSE
    /\ Ack("reject")
    /\ UNCHANGED <<viewOnly, failures, locked, held, capturing, forceKey, accepted>>

HelloThrottled(m, s) ==
    /\ m.type \in Hellos
    /\ Decision(m, s)
    /\ locked
    /\ authorized' = FALSE
    /\ Ack("password")
    /\ UNCHANGED <<viewOnly, failures, locked, held, capturing, forceKey, accepted>>

\* PasswordThrottle counts on, but only up to here does the count matter.
Miss(n) == IF n < ThrottleAfter THEN n + 1 ELSE n

HelloWrongPassword(m, s) ==
    /\ m.type \in Hellos
    /\ Decision(m, s)
    /\ ~locked
    /\ ~PasswordVerified(m)
    /\ failures' = Miss(failures)
    /\ locked' = (failures' = ThrottleAfter)
    /\ authorized' = FALSE
    /\ Ack("password")
    /\ UNCHANGED <<viewOnly, held, capturing, forceKey, accepted>>

\* set_show_cursor and resume: a stopped capture is started, a running one is
\* restarted only for another cursor setting, and either may fail.
HelloAccepted(m, s) ==
    /\ m.type \in Hellos
    /\ Decision(m, s)
    /\ ~locked
    /\ PasswordVerified(m)
    /\ failures' = 0
    /\ locked' = FALSE
    /\ authorized' = TRUE
    /\ accepted' = s
    /\ \E started \in BOOLEAN :
          /\ capturing' = (capturing \/ started)
          /\ forceKey' = (forceKey \/ started)
    /\ Ack("accept")
    /\ UNCHANGED <<viewOnly, held>>

\* authorization_permits and view_only_suppresses.
Dropped(m) ==
    /\ m.type \notin Hellos
    /\ ~authorized \/ (viewOnly /\ m.type \in Inputs)
    /\ UNCHANGED <<cmdq, authorized, viewOnly, failures, locked, held, capturing,
                   forceKey, accepted>>

\* The injector may be missing or fail, and then nothing is pressed.
Press(m) ==
    /\ authorized
    /\ m.type = "press"
    /\ ~viewOnly
    /\ held' \in {held, held \cup {m.key}}
    /\ UNCHANGED <<cmdq, authorized, viewOnly, failures, locked, capturing,
                   forceKey, accepted>>

Release(m) ==
    /\ authorized
    /\ m.type = "release"
    /\ ~viewOnly
    /\ held' = held \ {m.key}
    /\ UNCHANGED <<cmdq, authorized, viewOnly, failures, locked, capturing,
                   forceKey, accepted>>

\* ViewOnly { enabled: true } releases everything.
HeldAfterToggleMutant(on) == held   \* mutant: the keys stay down
HeldAfterToggle(on) == IF on THEN {} ELSE held

ToggleViewOnly(m) ==
    /\ authorized
    /\ m.type \in {"view_only_on", "view_only_off"}
    /\ viewOnly' = (m.type = "view_only_on")
    /\ held' = HeldAfterToggle(viewOnly')
    /\ UNCHANGED <<cmdq, authorized, failures, locked, capturing, forceKey, accepted>>

\* A display switch restarts a running capture, if it is another display and
\* the start succeeds.
RefreshVideo(m) ==
    /\ authorized
    /\ \/ m.type = "keyframe" /\ forceKey' = TRUE
       \/ /\ m.type = "select_display"
          /\ \E switched \in BOOLEAN :
                /\ switched => capturing
                /\ forceKey' = (forceKey \/ switched)
    /\ UNCHANGED <<cmdq, authorized, viewOnly, failures, locked, held, capturing,
                   accepted>>

Other(m) ==
    /\ authorized
    /\ m.type = "other"
    /\ UNCHANGED <<cmdq, authorized, viewOnly, failures, locked, held, capturing,
                   forceKey, accepted>>

HandleControl(m, s) ==
    \/ HelloRejected(m, s) \/ HelloThrottled(m, s) \/ HelloWrongPassword(m, s)
    \/ HelloAccepted(m, s) \/ Dropped(m) \/ Press(m) \/ Release(m)
    \/ ToggleViewOnly(m) \/ RefreshVideo(m) \/ Other(m)

\* A data event: handle_control, and then the active-session edge.
HandleData ==
    /\ Handle("data")
    /\ HandleControl(Head(evq).msg, Head(evq).session)
    /\ IF authorized' /\ ~wasAuthorized
         THEN wasAuthorized' = TRUE /\ status' = "active"
         ELSE UNCHANGED <<wasAuthorized, status>>
    /\ UNCHANGED <<offered, remoteFp, hostSession>>

HostLoop ==
    \/ HandleOffer \/ HandleConnected \/ HandleDisconnected
    \/ HandleKeyframeRequested \/ HandleData

-----------------------------------------------------------------------------
(* The capture callback and the encode thread.                              *)

CaptureFrame ==
    /\ ScreenLive
    /\ capturing
    /\ ~frame
    /\ frame' = TRUE
    /\ UNCHANGED <<driverVars, offered, remoteFp, authorized, wasAuthorized,
                   viewOnly, failures, locked, held, capturing, status, forceKey,
                   encoding, hostSession, accepted>>

\* Only the newest waiting frame matters.  Past the authorization check the
\* thread works on, whatever becomes of `authorized`.
TakeFrame ==
    /\ frame
    /\ ~encoding
    /\ frame' = FALSE
    /\ encoding' = authorized
    /\ forceKey' = (forceKey /\ ~authorized)
    /\ UNCHANGED <<driverVars, offered, remoteFp, authorized, wasAuthorized,
                   viewOnly, failures, locked, held, capturing, status,
                   hostSession, accepted>>

\* The encoder may fail or hold the frame back.
FinishFrame ==
    /\ encoding
    /\ encoding' = FALSE
    /\ Send(Command("video")) \/ UNCHANGED cmdq
    /\ UNCHANGED <<phase, pc, peer, told, evq, offered, remoteFp,
                   authorized, wasAuthorized, viewOnly, failures, locked, held,
                   capturing, status, forceKey, frame, hostSession, accepted>>

-----------------------------------------------------------------------------

\* What a viewer can send: the right password only if its user knows it.
MaySend(v, m) == (PasswordSet /\ m.type = "hello") => v \in KnowsPassword

DriverStep ==
    /\ \/ DriverPump
       \/ DriverInput
       \/ \E m \in Traffic : MaySend(peer[pc.id], m) /\ Receive(m)
    /\ UNCHANGED hostVars

Next ==
    \/ DriverStep
    \/ HostLoop
    \/ \E v \in Viewers, s \in Session : FeedAnswer(v, s)
    \/ PeerSwitched
    \/ LockoutEnds
    \/ CaptureFrame \/ TakeFrame \/ FinishFrame

\* The driver loop and the host loop run for as long as their threads live.  The
\* driver takes commands faster than signaling, viewers and the encoder produce
\* them (one per 4 ms host pass or per frame), so the drain comes upon an empty
\* channel over and over, and then goes on.  The host loop's sends never block
\* (the channels are unbounded; only the model's bound may hold one up for a
\* while), hence its strong fairness.  Nothing obliges a viewer, the network,
\* capture or the encoder to act.
Fairness ==
    /\ []<>(cmdq = << >>)
    /\ SF_vars(CommandsDrained /\ UNCHANGED hostVars)
    /\ WF_vars(DriverPump /\ UNCHANGED hostVars)
    /\ SF_vars(HostLoop)

Spec == Init /\ [][Next]_vars

FairSpec == Spec /\ Fairness

-----------------------------------------------------------------------------

HostTypeOK ==
    /\ offered \in 0 .. MaxSession
    /\ remoteFp \in [viewer : Viewers \cup {NoOne}, session : 0 .. MaxSession]
    /\ authorized \in BOOLEAN
    /\ wasAuthorized \in BOOLEAN
    /\ viewOnly \in BOOLEAN
    /\ failures \in 0 .. ThrottleAfter
    /\ locked \in BOOLEAN
    /\ held \subseteq Keys
    /\ capturing \in BOOLEAN
    /\ status \in {"waiting", "active", "ended"}
    /\ forceKey \in BOOLEAN
    /\ frame \in BOOLEAN
    /\ encoding \in BOOLEAN
    /\ hostSession \in 0 .. MaxSession
    /\ accepted \in 0 .. MaxSession

\* Every variable keeps to its values.
TypeOK == DriverTypeOK /\ HostTypeOK

\* A viewer is within the access policy if its device is authorized where that
\* is required, and its user knows the password where there is one.
Admitted(v) ==
    /\ v \in Viewers
    /\ RequireAuth => v \in Authorized
    /\ PasswordSet => v \in KnowsPassword

\* A message other than a Hello that comes off the control channel and changes
\* something: a key, view-only, the video.
ActsOn(e) ==
    /\ evq' = Tail(evq)
    /\ e.kind = "data"
    /\ e.msg.type \notin Hellos
    /\ <<held, viewOnly, forceKey>>' # <<held, viewOnly, forceKey>>

Obeys ==
    evq # << >> /\ ActsOn(Head(evq)) =>
        Head(evq).session = accepted /\ Admitted(peer[accepted])

\* Whatever a step takes from the control channel and acts on was sent on the
\* connection whose Hello the host accepted last, by a viewer within the policy.
\* Messages of an older connection, still queued while connections are replaced,
\* never act under a newer one's authorization, nor the reverse (the
\* authorization gate of handle_control).
ObeysOnlyTheAccepted == [][Obeys]_vars

\* While a viewer is authorized, or capture runs, or a key is held for a viewer,
\* the last status reported is "active": the restart watchdog and the TURN
\* refresh, which hold back on it, never take a live session for an idle host.
ActiveIsReported ==
    (authorized \/ capturing \/ held # {}) => status = "active"

\* A viewer that was told "accepted" over its connection is the one the host
\* accepted: a verdict that crosses a rebuild never reaches the next viewer.
AckReachesItsViewer == told = "accept" => accepted = pc.id

\* While the session is view-only nothing is held down, and no input that was
\* queued behind the toggle is injected (the ViewOnly branch of handle_control).
ViewOnlyHoldsNothing == viewOnly => held = {}

\* An authorization never outlives its connection in the host loop's own view:
\* the accepted connection is the one the loop saw connect last, and its viewer
\* is within the policy.
AuthorizedIsCurrent ==
    authorized => accepted = hostSession /\ Admitted(peer[accepted])

\* Once the loss of a connection is on its way to the host loop, the viewer's
\* session is wound up: nobody authorized, no key down, no capture (the
\* Disconnected arm of run_host_core), whatever queues up behind it.
LossEndsSession ==
    (\E i \in DOMAIN evq : evq[i].kind = "disconnected")
        ~> (~authorized /\ held = {} /\ ~capturing)

\* A connection that is to be rebuilt is followed by a new one whose offer
\* reaches signaling, unless the driver thread ends: a viewer that was lost, or
\* came back, always has a fresh offer to answer.
RebuildReachesSignaling ==
    \A n \in Session :
        (pc.id = n /\ pc.rebuild) ~> (offered > n \/ phase = "dead")

-----------------------------------------------------------------------------
(* What comments of the source promise and the code does not keep when the  *)
(* driver rebuilds a connection that is still up (a peer switch, a second   *)
(* answer): the host loop is then told of no Disconnected.                  *)

\* host.rs: the encode thread is gated on `authorized` so that screen content is
\* never streamed to a peer that has completed DTLS but not been authorized: no
\* frame goes through the gate while the peer that is up is not the accepted one.
EncodesOnlyForAccepted ==
    [][~encoding /\ encoding' /\ pc.up => accepted = pc.id]_vars

\* host.rs: keys the viewer left held are released, so that nothing leaks into
\* the next session.
NextSessionStartsReleased == hostSession # accepted => held = {}

\* host.rs: a keyframe is forced whenever a viewer (re)connects, so that a viewer
\* whose Hello is accepted can decode the first frame it gets.
KeyframeForEveryViewer ==
    [][accepted' # accepted /\ capturing' => forceKey']_vars

\* host.rs: capture is stopped while no viewer is connected.
CaptureStopsWithTheViewer ==
    ~pc.up ~> (~capturing \/ pc.up \/ phase = "dead")
=============================================================================
