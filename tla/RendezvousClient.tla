--------------------------- MODULE RendezvousClient ---------------------------
(***************************************************************************)
(* The signaling clients of a host and its viewers, over the hub           *)
(* (crates/session/src/rendezvous.rs): connecting and reconnecting, whom   *)
(* the host addresses, what it caches and replays, a viewer that takes     *)
(* over, and the watchdog that restarts the host.                          *)
(*                                                                         *)
(* Of the host session there is what the client sees of it: the offers and *)
(* candidates it hands over, its reaction to a switch, whether it has a    *)
(* session and what it has yet to report of it, which HostSession models   *)
(* in full.  Of a viewer's session there is the offer it got last, which   *)
(* it answers.  The watchdog looks at the flag on one thread and restarts  *)
(* later, while the host loop, on another, runs on.                        *)
(***************************************************************************)
EXTENDS SignalingHub

CONSTANTS
    Host,       \* the host's signaling id; the others are viewers
    Tray,       \* whether the host runs with the tray companion
    Severable,  \* bound: the devices whose connections may go
    MaxSevered, \* bound: how often one goes
    MaxOffer,   \* bound: offers the host session makes
    Watchdog    \* WATCHDOG, in failed attempts

ASSUME ClientAssumption ==
    /\ Host \in Devices
    /\ Tray \in BOOLEAN
    /\ Severable \subseteq Devices
    /\ MaxSevered \in Nat
    /\ MaxOffer \in Nat \ {0}
    /\ Watchdog \in Nat \ {0}

VARIABLES
    host,      \* the host client's relay state, its socket, and its resolve to restart
    hostOut,   \* what the host session has handed over (out_tx)
    session,   \* the host session: its offer, what was answered, whether it is live, and
               \* the statuses it has yet to report
    active,    \* the flag session_active
    outage,    \* failed attempts since first_fail
    viewer,    \* the viewers' clients
    severed    \* how many connections went

clientVars == <<host, hostOut, session, active, outage, viewer, severed>>
vars == <<hubVars, clientVars>>

Viewers == Devices \ {Host}

Hello        == [kind |-> "hello", n |-> 0]
Offer(n)     == [kind |-> "offer", n |-> n]
Candidate(n) == [kind |-> "candidate", n |-> n]
Answer(n)    == [kind |-> "answer", n |-> n]

\* What a connection of the host session hands over: its offer and, trickled, a
\* candidate.
Gathered(n) == <<Offer(n), Candidate(n)>>

FreshClient == [sock |-> None, peer |-> None, pending |-> << >>, lastOffer |-> None,
                candidates |-> << >>, switched |-> FALSE, restarting |-> FALSE]

Closed == [on |-> FALSE, sock |-> None, replied |-> FALSE, out |-> << >>, got |-> 0]

Init ==
    /\ HubInit
    /\ host = FreshClient
    /\ hostOut = Gathered(1)
    /\ session = [offer |-> 1, answered |-> 0, live |-> FALSE, owed |-> << >>]
    /\ active = FALSE
    /\ outage = 0
    /\ viewer = [v \in Viewers |-> Closed]
    /\ severed = 0

\* What a client writes to a dead socket is gone, whether or not it notices.
Transmit(s, from, to, msgs) ==
    uplink' = IF socket[s].alive
                THEN [uplink EXCEPT ![s] = @ \o [k \in DOMAIN msgs |-> Frame(from, to, msgs[k])]]
                ELSE uplink
Room(s) == Len(uplink[s]) < MaxQueue

\* A client waits a second before it connects again; the hub has registered its
\* last socket by then (an assumption on the hub's scheduler).
Connect(d, s) ==
    /\ \A r \in Sockets : ~(socket[r].device = d /\ socket[r].stage = "accepted")
    /\ Upgrade(d, s)

-----------------------------------------------------------------------------
(* The host's client: `run` with no peer to start from.                     *)

\* The client is on its way to the next attempt.
Trying == host.sock = None /\ ~host.restarting

HostConnects ==
    /\ Trying
    /\ \E s \in Sockets : Connect(Host, s) /\ host' = [host EXCEPT !.sock = s]
    /\ outage' = 0
    /\ UNCHANGED <<hostOut, session, active, viewer, severed>>

HostConnectFails ==
    /\ Trying
    /\ outage < Watchdog
    /\ outage' = outage + 1
    /\ UNCHANGED <<hubVars, host, hostOut, session, active, viewer, severed>>

\* A rejected token was minted anew: as if there had been no failure.
TokenRefreshed ==
    /\ Trying
    /\ outage' = 0
    /\ UNCHANGED <<hubVars, host, hostOut, session, active, viewer, severed>>

Idle == ~active

\* A failed attempt past WATCHDOG: the flag is looked at, and nothing after it.
HostGivesUp ==
    /\ Trying
    /\ outage = Watchdog
    /\ Idle
    /\ session.offer < MaxOffer
    /\ host' = [host EXCEPT !.restarting = TRUE]
    /\ UNCHANGED <<hubVars, hostOut, session, active, outage, viewer, severed>>

\* restart_in_place: the files are closed one by one, and then there is a new
\* process, whose session makes an offer of its own.
HostRestarts ==
    /\ host.restarting
    /\ host' = FreshClient
    /\ hostOut' = Gathered(session.offer + 1)
    /\ session' = [offer |-> session.offer + 1, answered |-> 0, live |-> FALSE, owed |-> << >>]
    /\ active' = FALSE
    /\ outage' = 0
    /\ UNCHANGED <<hubVars, viewer, severed>>

\* A read or write error, or silence past LIVENESS.
HostLoses ==
    /\ host.sock # None
    /\ ~socket[host.sock].alive
    /\ host' = [host EXCEPT !.sock = None]
    /\ UNCHANGED <<hubVars, hostOut, session, active, outage, viewer, severed>>

\* The out_rx arm: cached first, whatever becomes of the write.
CachedMutant(h, m) ==   \* mutant: an offer leaves the old candidates in the cache
    IF m.kind = "offer" THEN [h EXCEPT !.lastOffer = m]
                        ELSE [h EXCEPT !.candidates = Append(@, m)]
Cached(h, m) ==
    IF m.kind = "offer" THEN [h EXCEPT !.lastOffer = m, !.candidates = << >>]
                        ELSE [h EXCEPT !.candidates = Append(@, m)]

HostSends ==
    /\ host.sock # None
    /\ hostOut # << >>
    /\ hostOut' = Tail(hostOut)
    /\ LET m == Head(hostOut) IN
       \/ /\ host.peer = None
          /\ host' = [Cached(host, m) EXCEPT !.pending = Append(@, m)]
          /\ UNCHANGED uplink
       \/ /\ host.peer # None
          /\ Room(host.sock)
          /\ host' = Cached(host, m)
          /\ Transmit(host.sock, Host, host.peer, <<m>>)
    /\ UNCHANGED <<peers, socket, outbox, session, active, outage, viewer, severed>>

\* The frame arm.  Whoever writes is the peer from now on; one that was not is
\* sent what is pending, and a re-announcing one the cached offer.
ReplayMutant(h) == << >>   \* mutant: a re-announcing viewer gets nothing
Replay(h) == IF h.lastOffer = None THEN << >> ELSE <<h.lastOffer>> \o h.candidates

Switched(h, from) == h.peer \notin {None, from}

HostReads ==
    /\ host.sock # None
    /\ outbox[host.sock] # << >>
    /\ Room(host.sock)
    /\ LET f == Head(outbox[host.sock])
           firstContact == host.peer # f.from
           greeted == [host EXCEPT !.peer = f.from, !.pending = << >>]
       IN /\ host' = IF Switched(host, f.from)
                       THEN [greeted EXCEPT !.lastOffer = None, !.candidates = << >>,
                                            !.switched = TRUE]
                       ELSE IF firstContact THEN greeted ELSE host
          /\ Transmit(host.sock, Host, f.from,
                      IF firstContact THEN host.pending
                      ELSE IF f.msg = Hello THEN Replay(host) ELSE << >>)
          /\ session' = IF f.msg.kind = "answer"
                          THEN [session EXCEPT !.answered = f.msg.n] ELSE session
    /\ outbox' = [outbox EXCEPT ![host.sock] = Tail(@)]
    /\ UNCHANGED <<peers, socket, hostOut, active, outage, viewer, severed>>

-----------------------------------------------------------------------------
(* The host session, as its client sees it.                                 *)

\* Bound: a restart that is resolved on keeps an offer for itself.
OfferLeft == session.offer + (IF host.restarting THEN 1 ELSE 0) < MaxOffer

MakesOffer(statuses) ==
    /\ OfferLeft
    /\ hostOut' = hostOut \o Gathered(session.offer + 1)
    /\ session' = [offer |-> session.offer + 1, answered |-> 0, live |-> FALSE,
                   owed |-> statuses]

\* take_peer_switched: the connection is rebuilt, and no status reported.  The
\* loop is not between going live and its report then.
SwitchSeen ==
    /\ host.switched
    /\ session.owed \in {<< >>, <<"ended">>}
    /\ host' = [host EXCEPT !.switched = FALSE]
    /\ MakesOffer(session.owed)
    /\ UNCHANGED <<hubVars, active, outage, viewer, severed>>

\* The viewer's Hello is accepted: the session is live before the loop comes to
\* on_status.
EdgeMutant == IF session.offer = 1 THEN <<"active">> ELSE << >>
                        \* mutant: the edge is not armed again when a session ends
Edge == <<"active">>

SessionStarts ==
    /\ session.answered = session.offer
    /\ ~session.live
    /\ session.owed = << >>
    /\ session' = [session EXCEPT !.live = TRUE, !.owed = Edge]
    /\ UNCHANGED <<hubVars, host, hostOut, active, outage, viewer, severed>>

\* The driver loses the connection and makes an offer; the host loop hears of it
\* by an event.
SessionEnds ==
    /\ session.live
    /\ MakesOffer(Append(session.owed, "ended"))
    /\ UNCHANGED <<hubVars, host, active, outage, viewer, severed>>

\* The callback: session_active takes the status.  The tray companion's does not
\* reach the flag.
Reports ==
    /\ session.owed # << >>
    /\ active' = (~Tray /\ Head(session.owed) = "active")
    /\ session' = [session EXCEPT !.owed = Tail(@)]
    /\ UNCHANGED <<hubVars, host, hostOut, outage, viewer, severed>>

-----------------------------------------------------------------------------
(* The viewers: `run` with the host to address.                             *)

Open(v) ==
    /\ ~viewer[v].on
    /\ viewer' = [viewer EXCEPT ![v].on = TRUE]
    /\ UNCHANGED <<hubVars, host, hostOut, session, active, outage, severed>>

ViewerConnects(v) ==
    /\ viewer[v].on
    /\ viewer[v].sock = None
    /\ \E s \in Sockets :
          /\ Connect(v, s)
          /\ viewer' = [viewer EXCEPT ![v].sock = s, ![v].replied = FALSE]
    /\ UNCHANGED <<host, hostOut, session, active, outage, severed>>

ViewerLoses(v) ==
    /\ viewer[v].sock # None
    /\ ~socket[viewer[v].sock].alive
    /\ viewer' = [viewer EXCEPT ![v].sock = None]
    /\ UNCHANGED <<hubVars, host, hostOut, session, active, outage, severed>>

\* Bound: a hello that is still under way is not followed by the next one.
HelloUnderWay(v) ==
    \E q \in Range(uplink) \cup Range(outbox) : \E k \in DOMAIN q :
        q[k].from = v /\ q[k].msg = Hello

Announces(v) ==
    /\ viewer[v].sock # None
    /\ ~viewer[v].replied
    /\ ~HelloUnderWay(v)
    /\ Room(viewer[v].sock)
    /\ Transmit(viewer[v].sock, v, Host, <<Hello>>)
    /\ UNCHANGED <<peers, socket, outbox, clientVars>>

\* An offer is answered; anything at all ends the announcing.
Told(c, m) ==
    IF m.kind = "offer"
      THEN [c EXCEPT !.replied = TRUE, !.got = m.n, !.out = Append(@, Answer(m.n))]
      ELSE [c EXCEPT !.replied = TRUE]

ViewerReads(v) ==
    LET s == viewer[v].sock IN
    /\ s # None
    /\ outbox[s] # << >>
    /\ viewer' = [viewer EXCEPT ![v] = Told(viewer[v], Head(outbox[s]).msg)]
    /\ outbox' = [outbox EXCEPT ![s] = Tail(@)]
    /\ UNCHANGED <<peers, socket, uplink, host, hostOut, session, active, outage, severed>>

ViewerSends(v) ==
    /\ viewer[v].sock # None
    /\ viewer[v].out # << >>
    /\ Room(viewer[v].sock)
    /\ Transmit(viewer[v].sock, v, Host, <<Head(viewer[v].out)>>)
    /\ viewer' = [viewer EXCEPT ![v].out = Tail(@)]
    /\ UNCHANGED <<peers, socket, outbox, host, hostOut, session, active, outage, severed>>

-----------------------------------------------------------------------------

ConnectionGoes(s) ==
    /\ severed < MaxSevered
    /\ socket[s].device \in Severable
    /\ Sever(s)
    /\ severed' = severed + 1
    /\ UNCHANGED <<host, hostOut, session, active, outage, viewer>>

HubActs(s) == HubStep(s) /\ UNCHANGED clientVars

Next ==
    \/ HostConnects \/ HostConnectFails \/ TokenRefreshed
    \/ HostGivesUp \/ HostRestarts \/ HostLoses \/ HostSends \/ HostReads
    \/ SwitchSeen \/ SessionStarts \/ SessionEnds \/ Reports
    \/ \E v \in Viewers : \/ Open(v) \/ ViewerConnects(v) \/ ViewerLoses(v)
                          \/ Announces(v) \/ ViewerReads(v) \/ ViewerSends(v)
    \/ \E s \in Sockets : ConnectionGoes(s) \/ HubActs(s)

Spec == Init /\ [][Next]_vars

\* Clients and hub run on; every connection attempt may fail, but not for ever.
\* The announcing timer fires, and the select loops serve every arm.  What the
\* client has resolved on it does, and the host loop comes to its report.
Fairness ==
    /\ WF_vars(HostConnects) /\ WF_vars(HostRestarts) /\ WF_vars(HostLoses)
    /\ WF_vars(HostSends) /\ WF_vars(HostReads) /\ WF_vars(SwitchSeen)
    /\ WF_vars(Reports)
    /\ \A v \in Viewers :
          /\ WF_vars(ViewerConnects(v)) /\ WF_vars(ViewerLoses(v))
          /\ WF_vars(Announces(v)) /\ WF_vars(ViewerReads(v)) /\ WF_vars(ViewerSends(v))
    /\ \A s \in Sockets : WF_vars(HubActs(s))

FairSpec == Spec /\ Fairness

-----------------------------------------------------------------------------

\* The candidates in the cache are those of the offer in it: what a re-announcing
\* viewer is replayed is one connection's (run, over a switch and a new offer).
ReplayIsOneConnection ==
    host.lastOffer # None =>
        \A k \in DOMAIN host.candidates : host.candidates[k].n = host.lastOffer.n

\* The client never resolves on a restart over a session that the host loop has
\* reported: the flag may be behind the session, by as much as is still to be
\* reported and no more, through losses, rebuilds and earlier restarts.
WatchdogSparesReported ==
    [][~host.restarting /\ host'.restarting => ~(session.live /\ session.owed = << >>)]_vars

\* A viewer that announces itself hears from the host, although a connection to
\* the hub may go at either end with the hello or the reply (the announce arm and
\* the replay in run).
AnnouncingViewerHears ==
    \A v \in Viewers : viewer[v].on ~> viewer[v].replied

-----------------------------------------------------------------------------
(* What the source's comments say and the code does not keep.               *)

\* "so a (re)announcing viewer still completes the handshake"
AnnouncingViewerCompletes ==
    \A v \in Viewers : viewer[v].on ~> viewer[v].got # 0

\* "callers must ensure no session is active", "never restarts us mid-session": a
\* session goes live between the look at the flag and the restart, or before its
\* report reaches the flag.
WatchdogSparesSession ==
    [][host.restarting /\ ~host'.restarting => ~session.live]_vars

\* "Whether a viewer session is currently active": a rebuild for another viewer
\* ends the session without a report.
ActiveIsTheSession ==
    session.owed = << >> /\ ~session.live => ~active

\* "a `hello` from a *new* peer": nothing else makes a device the peer.
PeerChangesByHello ==
    [][host'.peer \notin {host.peer, None} => Head(outbox[host.sock]).msg = Hello]_vars
=============================================================================
