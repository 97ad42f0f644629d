------------------------------ MODULE ViewerSide ------------------------------
(***************************************************************************)
(* The parts of the viewers, one beside the other: a native viewer's       *)
(* session and its window, the web viewer's sessions, its touch gestures   *)
(* and its keyboard.  A behaviour is one of `part`: of parts that share    *)
(* nothing, all interleavings have the properties that each has alone.     *)
(***************************************************************************)
EXTENDS Integers, FiniteSets

CONSTANTS
    None, NoOne,
    MaxLosses, AsksPassword,          \* ViewerSession
    Users, MaxKeys,                   \* ViewerWindow
    Passwords, MaxFaults, MaxOffers,  \* WebViewer
    Fingers, Elsewhere, Interrupts,   \* TouchInput
    Thumbs, WordLengths, Extras,      \* SoftKeyboard
    MaxText

ASSUME ViewerAssumption ==
    /\ MaxLosses \in Nat
    /\ IsFiniteSet(Fingers) /\ Elsewhere \subseteq Fingers
    /\ WordLengths \subseteq Nat

VARIABLE part

-----------------------------------------------------------------------------

VARIABLES host, toViewer, toHost, cmds, events, pc, known, channel, app
sessionVars == <<host, toViewer, toHost, cmds, events, pc, known, channel, app>>

Session == INSTANCE ViewerSession

VARIABLES screen, conn, account, token, devices, job, selected, dialed, pins, keyOf
windowVars == <<screen, conn, account, token, devices, job, selected, dialed, pins, keyOf>>

Window == INSTANCE ViewerWindow WITH session <- dialed

VARIABLES hidden, connecting, timers, builds, current, live, password, stored, hint, modal,
          pending, webHost
webVars == <<hidden, connecting, timers, builds, current, live, password, stored, hint, modal,
             pending, webHost>>

Web == INSTANCE WebViewer WITH session <- current, host <- webHost

VARIABLES touches, mode, finger, lp, tapped, prev, pinch, zoomed, dragging, did, truth
touchVars == <<touches, mode, finger, lp, tapped, prev, pinch, zoomed, dragging, did, truth>>

Touch == INSTANCE TouchInput

VARIABLES text, on, keyTouches, shift, caps, up, repeat, recent, tap, crosses, from, word, bar,
          start
keyVars == <<text, on, keyTouches, shift, caps, up, repeat, recent, tap, crosses, from, word, bar,
             start>>

Keyboard == INSTANCE SoftKeyboard WITH Fingers <- Thumbs, touches <- keyTouches

-----------------------------------------------------------------------------

Sessions(A) ==
    part = "session"  /\ A /\ UNCHANGED <<part, windowVars, webVars, touchVars, keyVars>>
Windows(A) ==
    part = "window"   /\ A /\ UNCHANGED <<part, sessionVars, webVars, touchVars, keyVars>>
Pages(A) ==
    part = "page"     /\ A /\ UNCHANGED <<part, sessionVars, windowVars, touchVars, keyVars>>
Touches(A) ==
    part = "touch"    /\ A /\ UNCHANGED <<part, sessionVars, windowVars, webVars, keyVars>>
Types(A) ==
    part = "keyboard" /\ A /\ UNCHANGED <<part, sessionVars, windowVars, webVars, touchVars>>

SideInit ==
    /\ part \in {"session", "window", "page", "touch", "keyboard"}
    /\ Session!Init /\ Window!Init /\ Web!Init /\ Touch!Init /\ Keyboard!Init

SideNext ==
    \/ Sessions(Session!Next) \/ Windows(Window!Next) \/ Pages(Web!Next)
    \/ Touches(Touch!Next) \/ Types(Keyboard!Next)

sideVars == <<part, sessionVars, windowVars, webVars, touchVars, keyVars>>

\* Session!FairSpec and Web!FairSpec.
SideFairness ==
    /\ WF_sideVars(Sessions(Session!HostTakesAnswer)) /\ WF_sideVars(Sessions(Session!HostConnects))
    /\ WF_sideVars(Sessions(Session!HostJudges))
    /\ WF_sideVars(Sessions(Session!TakeOffer \/ Session!TakeCandidate \/ Session!TakeHello))
    /\ WF_sideVars(Sessions(Session!Rebuild)) /\ WF_sideVars(Sessions(Session!Connect))
    /\ WF_sideVars(Sessions(Session!Lose)) /\ WF_sideVars(Sessions(Session!Receive))
    /\ WF_sideVars(Sessions(Session!Pump))
    /\ WF_sideVars(Pages(Web!Progress))

SideSpec == SideInit /\ [][SideNext]_sideVars /\ SideFairness

-----------------------------------------------------------------------------

\* The modules' properties, each of its part.
NoRebuildStorm == Session!NoRebuildStorm
DialSettles    == part = "session" /\ app.screen = "establishing" ~> app.screen # "establishing"
OneLiveSession == Web!OneLiveSession /\ Web!ForegroundRebuilds
Authenticates  == Web!Authenticates

\* The window shows the session it has, and dialed it under its pinned key.
ShowsWhatIsPinned == Window!ScreenShowsSession /\ Window!DialsThePinned

\* The button, the pointer and the clicks follow the fingers that the callbacks are told of.
FollowsTheFingers == Touch!SeenIsFollowed /\ Touch!ClicksAreTaps

\* The keyboard repeats, offers and shows what holds of what was typed.
KeyboardIsTrue ==
    Keyboard!RepeatsWhileHeld /\ Keyboard!OffersReplaceTheWord /\ Keyboard!LabelsTellTheCase
=============================================================================
