----------------------------- MODULE ViewerWindow -----------------------------
(***************************************************************************)
(* The native viewer's window (apps/viewer/src/main.rs): its screens, the  *)
(* account it is signed in to, the one background job it runs at a time,   *)
(* the trust it keeps in known_peers and the session it dials.             *)
(*                                                                         *)
(* A user's account has one host.  A device is named by its owner and the  *)
(* key it is listed under, which changes when the host is installed anew.  *)
(* What the session makes of its connection is ViewerSession's; here its   *)
(* updates come in the order the pump sends them.                          *)
(***************************************************************************)
EXTENDS Naturals, FiniteSets

CONSTANTS
    Users,
    NoOne,
    MaxKeys    \* bound: keys a host has had

VARIABLES
    screen,
    conn,       \* ConnState: "first use", "trusted", "changed"; "establishing"; "password"
    account,    \* account and creds
    token,      \* viewer_token: of the account this device is registered with
    devices,    \* the list on show
    job,        \* what runs in the background, for whom, and its result
    selected,   \* selected_host
    session,    \* the host dialed, and how far it got
    pins,       \* known_peers
    keyOf       \* the key each user's host has, and is registered under

vars == <<screen, conn, account, token, devices, job, selected, session, pins, keyOf>>

Keys    == 1..MaxKeys
NoKey   == 0
Device(u) == [owner |-> u, key |-> keyOf[u]]
Nothing == [owner |-> NoOne, key |-> NoKey]

Idle == [kind |-> "none", user |-> NoOne, peer |-> Nothing, said |-> "none"]
Busy == job # Idle
NoSession == [host |-> Nothing, at |-> "none"]

Init ==
    /\ screen = "login" /\ conn = "establishing"
    /\ account = NoOne /\ token = NoOne /\ devices = {}
    /\ job = Idle
    /\ selected = Nothing /\ session = NoSession
    /\ pins = [u \in Users |-> NoKey]
    /\ keyOf = [u \in Users |-> 1]

-----------------------------------------------------------------------------
(* Jobs: spawn is a no-op while one is in flight.                            *)

Spawn(kind, user) ==
    job' = IF Busy THEN job ELSE [Idle EXCEPT !.kind = kind, !.user = user]

\* refresh_devices, action_register_this_device, action_delete_device.
SpawnSignedIn(kind) ==
    IF account = NoOne THEN UNCHANGED job ELSE Spawn(kind, account)

\* The thread: the server answers, or the other device of a pairing does.
Work ==
    /\ Busy /\ job.said = "none"
    /\ \/ job' = [job EXCEPT !.said = "error"]
       \/ job.kind # "pair" /\ job' = [job EXCEPT !.said = "ok", !.peer = Device(job.user)]
       \/ job.kind = "pair" /\ \E u \in Users :
             job' = [job EXCEPT !.said = "ok", !.peer = Device(u)]
    /\ UNCHANGED <<screen, conn, account, token, devices, selected, session, pins, keyOf>>

\* trust_on_first_use
Trusts(d) == pins[d.owner] \in {NoKey, d.key}
Pin(d)    == pins' = [pins EXCEPT ![d.owner] = IF @ = NoKey THEN d.key ELSE @]

Done(kind, said) == job.kind = kind /\ job.said = said

\* poll_job
PollSignedIn ==
    /\ Done("sign in", "ok")
    /\ devices' = {job.peer} /\ screen' = "devices" /\ job' = Idle
    /\ UNCHANGED <<account, token, pins>>

PollRefused ==
    /\ Done("sign in", "error")
    /\ account' = NoOne /\ job' = Idle
    /\ UNCHANGED <<screen, token, devices, pins>>

PollDevices ==
    /\ Done("list", "ok")
    /\ devices' = {job.peer} /\ job' = Idle
    /\ UNCHANGED <<screen, account, token, pins>>

PollRegistered ==
    /\ Done("register", "ok")
    /\ token' = job.user
    /\ job' = IF account = NoOne THEN Idle ELSE [Idle EXCEPT !.kind = "list", !.user = account]
    /\ UNCHANGED <<screen, account, devices, pins>>

PollDeleted ==
    /\ Done("delete", "ok")
    /\ devices' = {d \in devices : d.owner # job.peer.owner} /\ job' = Idle
    /\ UNCHANGED <<screen, account, token, pins>>

PollPaired ==
    /\ Done("pair", "ok")
    /\ Pin(job.peer) /\ job' = Idle
    /\ UNCHANGED <<screen, account, token, devices>>

\* Only reported: an account created, and whatever else failed.
PollReported ==
    /\ Done("create", "ok") \/ (job.said = "error" /\ job.kind # "sign in")
    /\ job' = Idle
    /\ UNCHANGED <<screen, account, token, devices, pins>>

PollJob ==
    /\ \/ PollSignedIn \/ PollRefused \/ PollDevices \/ PollRegistered
       \/ PollDeleted \/ PollPaired \/ PollReported
    /\ UNCHANGED <<conn, selected, session, keyOf>>

-----------------------------------------------------------------------------
(* The screens.                                                             *)

\* Optimistically remembers the account; the button is there when nothing is in flight.
SignIn(u) ==
    /\ screen = "login" /\ ~Busy
    /\ account' = u /\ Spawn("sign in", u)
    /\ UNCHANGED <<screen, conn, token, devices, selected, session, pins, keyOf>>

CreateAccount(u) ==
    /\ screen = "login" /\ ~Busy
    /\ Spawn("create", u)
    /\ UNCHANGED <<screen, conn, account, token, devices, selected, session, pins, keyOf>>

OpenPairing ==
    /\ screen \in {"login", "devices"}
    /\ screen' = "pair"
    /\ UNCHANGED <<conn, account, token, devices, job, selected, session, pins, keyOf>>

StartPairing ==
    /\ screen = "pair" /\ ~Busy
    /\ Spawn("pair", NoOne)
    /\ UNCHANGED <<screen, conn, account, token, devices, selected, session, pins, keyOf>>

Home == IF account = NoOne THEN "login" ELSE "devices"

Back ==
    /\ screen = "pair"
    /\ screen' = Home
    /\ UNCHANGED <<conn, account, token, devices, job, selected, session, pins, keyOf>>

SignOut ==
    /\ screen = "devices"
    /\ account' = NoOne /\ devices' = {} /\ token' = NoOne
    /\ screen' = "login"
    /\ UNCHANGED <<conn, job, selected, session, pins, keyOf>>

\* Refresh and Register are there when nothing is in flight; Delete always is.
DevicesJob ==
    /\ screen = "devices"
    /\ \/ ~Busy /\ SpawnSignedIn("list")
       \/ ~Busy /\ token = NoOne /\ SpawnSignedIn("register")
       \/ devices # {} /\ SpawnSignedIn("delete")
    /\ UNCHANGED <<screen, conn, account, token, devices, selected, session, pins, keyOf>>

BeginConnect(d) ==
    /\ screen = "devices" /\ d \in devices
    /\ token # NoOne /\ ~Busy
    /\ selected' = d
    /\ conn' = IF pins[d.owner] = NoKey THEN "first use"
               ELSE IF pins[d.owner] = d.key THEN "trusted" ELSE "changed"
    /\ screen' = "connecting"
    /\ UNCHANGED <<account, token, devices, job, session, pins, keyOf>>

LeaveMutant ==   \* mutant: the session runs on behind the device list
    selected' = Nothing /\ screen' = Home /\ UNCHANGED session
Leave == session' = NoSession /\ selected' = Nothing /\ screen' = Home

\* The recheck of a verdict that may have grown old.
RecheckMutant(d) == TRUE   \* mutant: the verdict on show is enough
Recheck(d) == Trusts(d)

\* start_session: the session may fail to start.
StartSession ==
    \/ /\ session' = [host |-> selected, at |-> "dialing"]
       /\ conn' = "establishing"
       /\ UNCHANGED <<screen, selected>>
    \/ Leave /\ UNCHANGED conn

\* The signaling's socket may fail to open.
ConfirmConnect ==
    /\ screen = "connecting" /\ conn \in {"first use", "trusted"}
    /\ IF account # NoOne /\ token # NoOne /\ Recheck(selected)
         THEN Pin(selected) /\ (StartSession \/ (Leave /\ UNCHANGED conn))
         ELSE Leave /\ UNCHANGED <<conn, pins>>
    /\ UNCHANGED <<account, token, devices, job, keyOf>>

\* Back, Cancel and Disconnect.
LeaveSession ==
    /\ screen \in {"connecting", "session"}
    /\ Leave
    /\ UNCHANGED <<conn, account, token, devices, job, pins, keyOf>>

SubmitPassword ==
    /\ screen = "connecting" /\ conn = "password"
    /\ conn' = "establishing"
    /\ session' = [session EXCEPT !.at = "asking"]
    /\ UNCHANGED <<screen, account, token, devices, job, selected, pins, keyOf>>

-----------------------------------------------------------------------------
(* handle_session_update: Connected, then the host's verdicts.                *)

Connected ==
    /\ session.at = "dialing"
    /\ session' = [session EXCEPT !.at = "asking"]
    /\ screen' = "session"
    /\ UNCHANGED <<conn, selected>>

PasswordRequired ==
    /\ session.at = "asking"
    /\ session' = [session EXCEPT !.at = "told"]
    /\ conn' = "password" /\ screen' = "connecting"
    /\ UNCHANGED selected

\* dialed_ok, pin_ok: the device selected, under the key pinned for it.
Recognised(d) == d.owner = selected.owner /\ pins[d.owner] = d.key

\* HostIdentity, of whoever answered, and Paired.
Greeted ==
    /\ session.at = "asking"
    /\ IF Recognised(Device(session.host.owner))
         THEN /\ session' = [session EXCEPT !.at = "paired"]
              /\ screen' = "session"
              /\ UNCHANGED <<conn, selected>>
         ELSE Leave /\ UNCHANGED conn

\* Paired(false), or Disconnected.
Ended == session.at # "none" /\ Leave /\ UNCHANGED conn

SessionUpdate ==
    /\ Connected \/ PasswordRequired \/ Greeted \/ Ended
    /\ UNCHANGED <<account, token, devices, job, pins, keyOf>>

-----------------------------------------------------------------------------
(* The world.                                                               *)

\* The host is installed anew, with another key, and registered.
Reinstall(u) ==
    /\ keyOf[u] < MaxKeys
    /\ keyOf' = [keyOf EXCEPT ![u] = @ + 1]
    /\ UNCHANGED <<screen, conn, account, token, devices, job, selected, session, pins>>

\* A second window of this user, which shares known_peers, trusts a host.
OtherWindow(u) ==
    /\ Pin(Device(u))
    /\ UNCHANGED <<screen, conn, account, token, devices, job, selected, session, keyOf>>

Next ==
    \/ Work \/ PollJob
    \/ \E u \in Users : SignIn(u) \/ CreateAccount(u)
    \/ OpenPairing \/ StartPairing \/ Back \/ SignOut \/ DevicesJob
    \/ \E d \in devices : BeginConnect(d)
    \/ ConfirmConnect \/ LeaveSession \/ SubmitPassword \/ SessionUpdate
    \/ \E u \in Users : Reinstall(u) \/ OtherWindow(u)

Spec == Init /\ [][Next]_vars

-----------------------------------------------------------------------------

\* There is a session exactly behind the screens that show one, whatever a job that
\* ended late did to the screen.
ScreenShowsSession ==
    session # NoSession <=>
        \/ screen = "session"
        \/ screen = "connecting" /\ conn \in {"establishing", "password"}

\* A host that is dialed is under its pinned key, although the verdict the user saw
\* was reached earlier and known_peers is shared.
DialsThePinned == session # NoSession => pins[session.host.owner] = session.host.key

-----------------------------------------------------------------------------
(* What the source's comments say and the code does not keep.               *)

\* Sign out "forgets": what is left of an account goes with it.  A job that was under way
\* ends after it.
SignOutForgets ==
    /\ token # NoOne /\ account # NoOne => token = account
    /\ screen = "devices" => account # NoOne
=============================================================================
