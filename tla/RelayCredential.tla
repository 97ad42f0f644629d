--------------------------- MODULE RelayCredential ---------------------------
(***************************************************************************)
(* The host's TURN credential: main.rs (ice_servers, spawn_turn_refresh,   *)
(* restart_in_place) against the rendezvous server's /api/ice (api.rs).    *)
(*                                                                         *)
(* A host asks for a credential once, when it starts, and allocates its    *)
(* relay with it.  The server hands every device of an account the same    *)
(* one, and mints another only when that one is about to lapse; so a host  *)
(* that wants a new one waits for its own to lapse, and then, when nobody  *)
(* is connected, executes itself again.                                    *)
(*                                                                         *)
(* Clocks count down (what is left of a credential) or up to the bound     *)
(* that anybody compares them with, in units of half a minute.             *)
(***************************************************************************)
EXTENDS Integers

CONSTANTS
    None,
    Ttl,      \* RMD_TURN_TTL: what a new credential is good for (600 s)
    Margin,   \* what is left of one the server still hands out (60 s)
    Settle,   \* how long after the lapse the host restarts (30 s)
    MinUp,    \* MIN_RESTART_INTERVAL (600 s)
    Wait      \* RMD_ICE_FETCH_MAX_WAIT (120 s)

VARIABLES
    proc,      \* the host: "fetching", "serving", or "restarting", the refresher having seen it idle
    token,     \* the device token in its settings
    auth,      \* the one this start asks with
    reminted,  \* whether this start has had a token minted
    waited,    \* how long this start has been asking
    up,        \* since the refresher's thread started
    cred,      \* what is left of the credential the relay was allocated with, or None
    cache,     \* what is left of the one the server holds for the account, or None
    session    \* whether a viewer is connected

vars == <<proc, token, auth, reminted, waited, up, cred, cache, session>>

TypeOK ==
    /\ proc \in {"fetching", "serving", "restarting"}
    /\ {token, auth} \subseteq {"good", "expired"}
    /\ reminted \in BOOLEAN
    /\ waited \in 0..Wait
    /\ up \in 0..MinUp
    /\ cred \in -Settle..Ttl \cup {None}
    /\ cache \in 0..Ttl \cup {None}
    /\ session \in BOOLEAN

Init ==
    /\ proc = "fetching"
    /\ token \in {"good", "expired"}
    /\ auth = token
    /\ reminted = FALSE
    /\ waited = 0
    /\ up = 0
    /\ cred = None
    /\ cache = None
    /\ session = FALSE

-----------------------------------------------------------------------------
(***************************************************************************)
(* The server.                                                             *)
(***************************************************************************)

\* Mutant: it hands out what it holds, lapsed or not.
CurrentMutant == IF cache # None THEN cache ELSE Ttl

\* turn_creds_for: what is left of the credential a request is answered with.
Current == IF cache # None /\ cache > Margin THEN cache ELSE Ttl

\* Another device of the account asks for its ICE servers.
ViewerFetches ==
    /\ cache' = Current
    /\ UNCHANGED <<proc, token, auth, reminted, waited, up, cred, session>>

\* Its cache is in memory.
ServerRestarts ==
    /\ cache' = None
    /\ UNCHANGED <<proc, token, auth, reminted, waited, up, cred, session>>

\* The token's lifetime is over, or the device got another.
TokenExpires ==
    /\ token' = "expired"
    /\ auth' = "expired"
    /\ UNCHANGED <<proc, reminted, waited, up, cred, cache, session>>

-----------------------------------------------------------------------------
(***************************************************************************)
(* ice_servers(): the host starts.  A try the server does not answer       *)
(* changes nothing but the time.                                           *)
(***************************************************************************)

\* The relay is allocated with left, or with None, and the refresher's thread started.
Serve(left) ==
    /\ proc' = "serving"
    /\ cred' = left
    /\ up' = 0
    /\ UNCHANGED <<token, auth, reminted, waited, session>>

\* The server hands out its credential, or an entitlement withholds it.
Fetch ==
    /\ proc = "fetching"
    /\ auth = "good"
    /\ \/ Serve(Current) /\ cache' = Current
       \/ Serve(None) /\ UNCHANGED cache

\* A 401, once: the identity's key gets another token, which may not reach the settings; this
\* start goes on with it all the same.
Remint ==
    /\ proc = "fetching"
    /\ auth = "expired"
    /\ ~reminted
    /\ reminted' = TRUE
    /\ auth' = "good"
    /\ token' \in {"good", "expired"}
    /\ UNCHANGED <<proc, waited, up, cred, cache, session>>

\* The last try has failed: without a relay, then.
GiveUp ==
    /\ proc = "fetching"
    /\ waited = Wait
    /\ Serve(None)
    /\ UNCHANGED cache

\* restart_in_place, or any other end of the process: what is not in the settings is gone.
Restart ==
    /\ proc' = "fetching"
    /\ auth' = token
    /\ reminted' = FALSE
    /\ waited' = 0
    /\ up' = 0
    /\ cred' = None
    /\ session' = FALSE
    /\ UNCHANGED <<token, cache>>

-----------------------------------------------------------------------------
(***************************************************************************)
(* spawn_turn_refresh, beside the sessions.  Without a credential there is *)
(* no thread.                                                              *)
(***************************************************************************)

Lapsed == cred # None /\ cred <= 0

\* Past the expiry and its margin, past the floor, and no session_active: its restart is next.
SeeIdle ==
    /\ proc = "serving"
    /\ cred # None /\ cred = -Settle
    /\ up = MinUp
    /\ ~session
    /\ proc' = "restarting"
    /\ UNCHANGED <<token, auth, reminted, waited, up, cred, cache, session>>

Refresh ==
    /\ proc = "restarting"
    /\ Restart

\* The watchdog of the rendezvous client, a crash or a reboot; while it asks, it would only
\* ask again.
Crash ==
    /\ proc = "serving"
    /\ Restart

\* A session comes or goes: over the relay, or over the LAN without one.
Session ==
    /\ proc # "fetching"
    /\ session' = ~session
    /\ UNCHANGED <<proc, token, auth, reminted, waited, up, cred, cache>>

\* The rendezvous client is refused its token, and has another one minted.
ClientRemints ==
    /\ proc = "serving"
    /\ token = "expired"
    /\ token' = "good"
    /\ UNCHANGED <<proc, auth, reminted, waited, up, cred, cache, session>>

\* Half a minute.
Tick ==
    /\ waited' = IF proc = "fetching" /\ waited < Wait THEN waited + 1 ELSE waited
    /\ up' = IF proc # "fetching" /\ up < MinUp THEN up + 1 ELSE up
    /\ cred' = IF cred # None /\ cred > -Settle THEN cred - 1 ELSE cred
    /\ cache' = IF cache # None /\ cache > 0 THEN cache - 1 ELSE cache
    /\ UNCHANGED <<proc, token, auth, reminted, session>>

Next ==
    \/ ViewerFetches \/ ServerRestarts \/ TokenExpires
    \/ Fetch \/ Remint \/ GiveUp
    \/ SeeIdle \/ Refresh \/ Crash
    \/ Session \/ ClientRemints
    \/ Tick

Spec == Init /\ [][Next]_vars

-----------------------------------------------------------------------------
(***************************************************************************)
(* Liveness.  Time passes, and the host's own threads run; that the server *)
(* ever answers is not assumed.                                            *)
(***************************************************************************)

Fairness == WF_vars(Tick) /\ WF_vars(GiveUp) /\ WF_vars(SeeIdle) /\ WF_vars(Refresh)

FairSpec == Spec /\ Fairness

\* A host always ends asking and starts serving, with a relay or without (main.rs, "retry with
\* backoff for a bounded window").
BootSettles == proc = "fetching" ~> proc = "serving"

\* A host whose credential has lapsed serves with one that has not, or says that it has none,
\* if only a viewer is not connected at some time (spawn_turn_refresh: "Keep the host's TURN
\* relay credential fresh").
RelayComesBack == Lapsed ~> session \/ (proc = "serving" /\ ~Lapsed)

-----------------------------------------------------------------------------
(***************************************************************************)
(* What the source's comments say and the code does not keep.              *)
(***************************************************************************)

\* Does not hold: when a host restarts past the expiry, the server has a full credential for
\* it (main.rs:209, "Restarting just past expiry guarantees a fresh full-TTL credential").
\* Another device may have had it rotated before; and should too little of it be left, the next
\* restart waits for MinUp.
FreshIsFull == [][Refresh => Current = Ttl]_vars

\* Does not hold: the restart spares a session (main.rs, "never interrupting a live
\* connection").  One may come between the look at session_active and the exec.
RestartSparesSession == [][Refresh => ~session]_vars

=============================================================================
