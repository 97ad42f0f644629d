------------------------------ MODULE WebViewer ------------------------------
(***************************************************************************)
(* The browser viewer's life across reconnects (apps/web-viewer/src/lib.rs *)
(* and signaling.rs): the one session it keeps, the guard that keeps       *)
(* attempts from stacking, the page going out of sight and back, and the   *)
(* host's connection password with the modal that asks for it.             *)
(*                                                                         *)
(* Browser code runs one task at a time: an action is what runs between    *)
(* two awaits or callbacks.  The host is what the browser sees of it: an   *)
(* offer after an announcement, a verdict after a Hello.  Input, the       *)
(* picture and its latency control, candidates and the status line are     *)
(* left out.                                                               *)
(***************************************************************************)
EXTENDS Naturals, Sequences

CONSTANTS
    Passwords,
    None,
    MaxFaults,    \* bound: what goes wrong, and passwords the host's owner sets
    MaxOffers     \* bound: offers a session is sent

VARIABLES
    hidden,      \* document.hidden
    connecting,  \* App::connecting
    timers,      \* backoff timers set
    builds,      \* connect() calls at an await, and which
    session,     \* App::current
    live,        \* how many sessions are built and not torn down
    password,    \* App::password
    stored,      \* the password sessionStorage keeps for this host
    hint,        \* localStorage: the host needs a password
    modal,       \* the password modal is on show
    pending,     \* pending_pw: which channel the modal answers on, "this" or an "earlier" one
    host         \* its password, and what it made of the session's last Hello

app  == <<connecting, timers, builds, session, live>>
page == <<password, stored, hint, modal, pending>>
vars == <<hidden, app, page, host>>

\* A session: its RTCPeerConnection, relay socket and control channel, the offers
\* and verdicts under way to it, the answers it is making, and the Hellos it sent.
NewSession == [pc |-> "new", relay |-> "opening", channel |-> "none",
               offers |-> 0, offered |-> 0, answering |-> 0, answered |-> FALSE,
               hellos |-> << >>, verdicts |-> << >>]
NoSession == [NewSession EXCEPT !.pc = "closed"]

\* Seeded with what this tab keeps; start() calls connect().
Init ==
    /\ hidden \in BOOLEAN
    /\ connecting = TRUE /\ timers = 0 /\ builds = <<"ice">>
    /\ session = NoSession /\ live = 0
    /\ stored \in Passwords \cup {None} /\ password = stored
    /\ hint = FALSE /\ modal = FALSE /\ pending = "no"
    /\ host = [password |-> CHOOSE p \in Passwords : TRUE, said |-> "nothing", faults |-> 0]

Fault == host.faults < MaxFaults /\ host' = [host EXCEPT !.faults = @ + 1]

-----------------------------------------------------------------------------
(* connect and schedule_reconnect.                                          *)

ScheduleMutant ==   \* mutant: whether an attempt is under way is not asked
    connecting' = TRUE /\ timers' = timers + 1
ScheduleReconnect ==
    IF connecting THEN UNCHANGED <<connecting, timers>>
    ELSE connecting' = TRUE /\ timers' = timers + 1

\* The modal stays, and the channel it would answer on.
Outlived == IF pending = "this" THEN "earlier" ELSE pending

Teardown ==
    /\ session' = NoSession
    /\ live' = IF session = NoSession THEN live ELSE live - 1
    /\ pending' = Outlived

\* The timer releases the guard for connect(), which takes it and tears down.
BackoffOver ==
    /\ timers > 0
    /\ timers' = timers - 1
    /\ connecting' = TRUE
    /\ builds' = Append(builds, "ice")
    /\ Teardown
    /\ UNCHANGED <<hidden, password, stored, hint, modal, host>>

Rest(step) == builds # << >> /\ Head(builds) = step /\ builds' = Tail(builds)

\* The answer of /api/ice-servers, or none; the attempt goes on to the relay ticket.
IceFetched ==
    /\ builds # << >> /\ Head(builds) = "ice"
    /\ builds' = <<"relay">> \o Tail(builds)
    /\ UNCHANGED <<hidden, connecting, timers, session, live, page, host>>

\* No ticket or no socket: the guard is released and taken for another backoff.
RelayFailed ==
    /\ Rest("relay") /\ Fault
    /\ connecting' = TRUE /\ timers' = timers + 1
    /\ UNCHANGED <<hidden, session, live, page>>

\* The announcement waits in the socket until it opens.
Built ==
    /\ Rest("relay")
    /\ session' = NewSession /\ live' = live + 1
    /\ connecting' = FALSE
    /\ host' = [host EXCEPT !.said = "nothing"]
    /\ UNCHANGED <<hidden, timers, page>>

Connect == BackoffOver \/ IceFetched \/ RelayFailed \/ Built

-----------------------------------------------------------------------------
(* The relay socket.  The host answers an announcement with an offer, and      *)
(* offers again when it rebuilds or when its relay replays.                     *)

RelayOpens ==
    /\ session # NoSession /\ session.relay = "opening"
    /\ session' = [session EXCEPT !.relay = "open"]
    /\ UNCHANGED <<hidden, connecting, timers, builds, live, page, host>>

\* Nobody acts on a socket that closes.
RelayCloses ==
    /\ session # NoSession /\ session.relay # "closed"
    /\ session' = [session EXCEPT !.relay = "closed", !.offers = 0]
    /\ Fault
    /\ UNCHANGED <<hidden, connecting, timers, builds, live, page>>

HostOffers ==
    /\ session.relay = "open" /\ session.offered < MaxOffers
    /\ session' = [session EXCEPT !.offers = @ + 1, !.offered = @ + 1]
    /\ UNCHANGED <<hidden, connecting, timers, builds, live, page, host>>

\* handle_signal, up to the await of set_remote_description: applied unless connected.
TakeOffer ==
    /\ session.offers > 0
    /\ IF session.pc = "connected"
         THEN session' = [session EXCEPT !.offers = @ - 1] /\ UNCHANGED <<pending, host>>
         ELSE /\ session' = [session EXCEPT !.offers = @ - 1, !.answering = @ + 1,
                                 !.pc = "connecting", !.answered = FALSE, !.channel = "none",
                                 !.hellos = << >>, !.verdicts = << >>]
              /\ pending' = Outlived /\ host' = [host EXCEPT !.said = "nothing"]
    /\ UNCHANGED <<hidden, connecting, timers, builds, live, password, stored, hint, modal>>

\* The rest of it; the last answer made is the one of the offer in force.  An await
\* may fail: nothing is sent, and the error goes to the console.
Answered(sent) ==
    session' = [session EXCEPT !.answering = @ - 1,
                   !.answered = @ \/ (sent /\ session.relay = "open" /\ session.answering = 1)]

SendAnswer ==
    /\ session.answering > 0 /\ Answered(TRUE)
    /\ UNCHANGED <<hidden, connecting, timers, builds, live, page, host>>

AnswerFails ==
    /\ session.answering > 0 /\ Answered(FALSE) /\ Fault
    /\ UNCHANGED <<hidden, connecting, timers, builds, live, page>>

Signal == RelayOpens \/ RelayCloses \/ HostOffers \/ TakeOffer \/ SendAnswer \/ AnswerFails

-----------------------------------------------------------------------------
(* The peer connection, and the page's visibility.                            *)

PcConnects ==
    /\ session.pc \in {"connecting", "disconnected"} /\ session.answered
    /\ session' = [session EXCEPT !.pc = "connected",
                      !.channel = IF @ = "none" THEN "opening" ELSE @]
    /\ UNCHANGED <<hidden, connecting, timers, builds, live, page, host>>

PcUnstable ==
    /\ session.pc = "connected" /\ Fault
    /\ session' = [session EXCEPT !.pc = "disconnected"]
    /\ UNCHANGED <<hidden, connecting, timers, builds, live, page>>

OnFailed == IF hidden THEN UNCHANGED <<connecting, timers>> ELSE ScheduleReconnect

PcFails ==
    /\ session.pc \in {"connecting", "disconnected"} /\ Fault
    /\ session' = [session EXCEPT !.pc = "failed", !.channel = "closed",
                                  !.hellos = << >>, !.verdicts = << >>]
    /\ OnFailed
    /\ UNCHANGED <<hidden, builds, live, page>>

Healthy == session.pc \in {"connected", "connecting", "new"} /\ session # NoSession

OnVisibleMutant ==   \* mutant: only a session that says so is taken for broken
    IF session.pc # "disconnected" THEN UNCHANGED <<connecting, timers>> ELSE ScheduleReconnect
OnVisible == IF Healthy THEN UNCHANGED <<connecting, timers>> ELSE ScheduleReconnect

VisibilityChange ==
    /\ hidden' = ~hidden
    /\ IF hidden THEN OnVisible ELSE UNCHANGED <<connecting, timers>>
    /\ UNCHANGED <<builds, session, live, page, host>>

-----------------------------------------------------------------------------
(* The control channel and the password.                                      *)

\* onopen, rearmed for every channel: the Hello carries the remembered password.
FirstPasswordMutant == None   \* mutant: the password is sent by the modal only
FirstPassword == password

ChannelOpens ==
    /\ session.channel = "opening" /\ session.pc = "connected"
    /\ session' = [session EXCEPT !.channel = "open", !.hellos = Append(@, FirstPassword)]
    /\ UNCHANGED <<hidden, connecting, timers, builds, live, page, host>>

\* A host without a password takes any; a wrong one is asked for again, as a missing one is.
HostJudges ==
    /\ session.hellos # << >> /\ session.pc = "connected"
    /\ LET said == IF host.password \in {None, Head(session.hellos)} THEN "accepted" ELSE "password"
       IN /\ session' = [session EXCEPT !.hellos = Tail(@), !.verdicts = Append(@, said)]
          /\ host' = [host EXCEPT !.said = IF @ = "accepted" THEN @ ELSE said]
    /\ UNCHANGED <<hidden, connecting, timers, builds, live, page>>

\* onmessage: a HelloAck.
HelloAck ==
    /\ session.verdicts # << >>
    /\ session' = [session EXCEPT !.verdicts = Tail(@)]
    /\ IF Head(session.verdicts) = "password"
         THEN hint' = TRUE /\ pending' = "this" /\ modal' = TRUE
         ELSE hint' = (password # None) /\ UNCHANGED <<pending, modal>>
    /\ UNCHANGED <<hidden, connecting, timers, builds, live, password, stored, host>>

\* OK or Enter: the Hello goes out on the channel that asked, dead or not.
SubmitPassword(p) ==
    /\ modal /\ modal' = FALSE
    /\ IF pending = "no" THEN UNCHANGED <<password, stored, session>>
       ELSE /\ password' = p /\ stored' = p
            /\ session' = IF pending = "this" /\ session.channel = "open"
                            THEN [session EXCEPT !.hellos = Append(@, p)] ELSE session
    /\ pending' = "no"
    /\ UNCHANGED <<hidden, connecting, timers, builds, live, hint, host>>

Cancel ==
    /\ modal /\ modal' = FALSE
    /\ UNCHANGED <<hidden, app, password, stored, hint, pending, host>>

\* A reload seeds the cell from sessionStorage and starts over.
Reload ==
    /\ Fault
    /\ password' = stored /\ modal' = FALSE /\ pending' = "no"
    /\ connecting' = TRUE /\ timers' = 0 /\ builds' = <<"ice">>
    /\ session' = NoSession /\ live' = 0
    /\ UNCHANGED <<hidden, stored, hint>>

\* The host starts again with another password, or none: it is read at its start.
HostPassword(p) ==
    /\ p # host.password /\ session.channel \in {"none", "closed"}
    /\ host.faults < MaxFaults
    /\ host' = [host EXCEPT !.password = p, !.faults = @ + 1]
    /\ UNCHANGED <<hidden, app, page>>

Talk == ChannelOpens \/ HostJudges \/ HelloAck
User == (\E p \in Passwords : SubmitPassword(p)) \/ Cancel \/ Reload

Next ==
    \/ Connect \/ Signal
    \/ PcConnects \/ PcUnstable \/ PcFails \/ VisibilityChange
    \/ Talk \/ User
    \/ \E p \in Passwords \cup {None} : HostPassword(p)

Spec == Init /\ [][Next]_vars

\* Timers fire, the page's requests return, its callbacks run and the host answers a
\* Hello; no fairness on what fails, nor on the user.
Progress ==
    \/ BackoffOver \/ IceFetched \/ Built \/ RelayOpens \/ HostOffers
    \/ TakeOffer \/ SendAnswer \/ PcConnects \/ Talk
FairSpec == Spec /\ WF_vars(Progress)

-----------------------------------------------------------------------------

\* However failures, visibility changes and backoffs cross, no session is left
\* running behind the one the page holds.
OneLiveSession == live = IF session = NoSession THEN 0 ELSE 1

\* A page in the foreground has a connection that has not failed, or is getting one.
ForegroundRebuilds ==
    ~hidden /\ ~connecting => session # NoSession /\ session.pc # "failed"

\* The password survives reconnects: a channel that comes up while the page remembers the
\* host's password is authorized, unless it goes before that or another is entered.
Authenticates ==
    session.channel = "opening" /\ password = host.password
        ~> host.said = "accepted" \/ session.channel \in {"none", "closed"} \/ password # host.password

-----------------------------------------------------------------------------
(* What the source's comments say and the code does not keep.               *)

\* "reuse the password this tab already authenticated with": what is stored worked.  It is
\* stored before the host has judged it.
StoredHasWorked == [][stored' # stored => stored' = host.password]_vars

\* "Let it self-heal": a connection that recovered is not torn down.  A rebuild that is
\* due, or waits for its ICE servers, does not look again.
RecoveredIsKept == [][BackoffOver => session.pc # "connected"]_vars

\* An announced session is offered a connection, or rebuilt, as long as it is looked at.
\* A hello is said once, on a relay that may close: nothing says it again.
AnnouncedIsServed == session.pc = "new" /\ session # NoSession ~> hidden \/ session.pc # "new"
=============================================================================
