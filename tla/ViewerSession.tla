---------------------------- MODULE ViewerSession ----------------------------
(***************************************************************************)
(* A native viewer's session with a host: the viewer role of the transport *)
(* driver (crates/transport/src/driver.rs), the pump thread of             *)
(* crates/session/src/viewer.rs between it, the signaling and the window,  *)
(* and what the window makes of it (apps/viewer/src/main.rs).              *)
(*                                                                         *)
(* The host is its transport seen from outside (TransportDriver models     *)
(* it): peer connection n offers, sends its candidate after the offer,     *)
(* takes one answer, and gives way to n + 1 when it is lost or gets a      *)
(* second answer. Connections of both ends are numbers, and so are their   *)
(* DTLS fingerprints; 0 is none.  Ends that hold each other's description  *)
(* connect.  The data channel is open while its connection is up.  Media   *)
(* is left out.                                                            *)
(***************************************************************************)
EXTENDS Naturals, Sequences, SequencesExt

CONSTANTS
    MaxLosses,     \* bound: connections the host loses
    AsksPassword   \* whether the host wants a connection password

VARIABLES
    host,       \* its connection: number, answer taken, by which viewer connection, up
    toViewer,   \* signaling frames on their way to the pump
    toHost,     \* answers on their way to the host
    cmds,       \* DriverCmds: pump and window to the driver
    events,     \* TransportEvents: driver to pump
    pc,         \* the viewer's connection
    known,      \* local_fingerprint and host_fingerprint of the pump
    channel,    \* messages under way on the data channel, each way
    app         \* the window: screen, password entered, why it left

vars == <<host, toViewer, toHost, cmds, events, pc, known, channel, app>>

Offer(n)     == [t |-> "offer", host |-> n]
Candidate(n) == [t |-> "candidate", host |-> n]
Answer(n, v) == [t |-> "answer", host |-> n, viewer |-> v]
\* The proof of a Hello or a HelloAck is bound to the sender's fingerprint.
Hello(v, pw) == [t |-> "hello", proof |-> v, password |-> pw]
Ack(n, said) == [t |-> "ack", proof |-> n, said |-> said]

HostPc(n) == [id |-> n, negotiated |-> FALSE, by |-> 0, up |-> FALSE, losses |-> host.losses]
ViewerPc(v) == [id |-> v, offer |-> 0, heard |-> {}, early |-> {},
                rebuild |-> "no", pending |-> 0, up |-> FALSE]
Silence == [toHost |-> << >>, toViewer |-> << >>]

Init ==
    /\ host = [id |-> 1, negotiated |-> FALSE, by |-> 0, up |-> FALSE, losses |-> 0]
    /\ toViewer = <<Offer(1), Candidate(1)>>
    /\ toHost = << >> /\ cmds = << >> /\ events = << >>
    /\ pc = ViewerPc(1)
    /\ known = [local |-> 0, host |-> 0]
    /\ channel = Silence
    /\ app = [screen |-> "establishing", left |-> "no"]

\* Each end holds the other's description: they can connect, and talk once up.
Linked == pc.offer = host.id /\ host.by = pc.id

-----------------------------------------------------------------------------
(* The host.                                                                *)

HostRebuild(losses) ==
    /\ host' = [HostPc(host.id + 1) EXCEPT !.losses = losses]
    /\ toViewer' = toViewer \o <<Offer(host.id + 1), Candidate(host.id + 1)>>
    /\ channel' = Silence

\* An answer to an older offer is applied too, and connects to nobody.
HostTakesAnswer ==
    /\ toHost # << >>
    /\ toHost' = Tail(toHost)
    /\ LET a == Head(toHost) IN
          IF host.negotiated
            THEN HostRebuild(host.losses)
            ELSE /\ host' = [host EXCEPT !.negotiated = TRUE,
                                         !.by = IF a.host = host.id THEN a.viewer ELSE 0]
                 /\ UNCHANGED <<toViewer, channel>>
    /\ UNCHANGED <<cmds, events, pc, known, app>>

HostConnects ==
    /\ Linked /\ ~host.up
    /\ host' = [host EXCEPT !.up = TRUE]
    /\ UNCHANGED <<toViewer, toHost, cmds, events, pc, known, channel, app>>

\* Its connection is lost, or a rebuild is asked for.
HostLoses ==
    /\ host.losses < MaxLosses
    /\ HostRebuild(host.losses + 1)
    /\ UNCHANGED <<toHost, cmds, events, pc, known, app>>

\* A Hello is judged by its proof, and by its password where one is asked for.
HostJudges ==
    /\ host.up /\ channel.toHost # << >>
    /\ LET h    == Head(channel.toHost)
           said == IF h.proof # host.by THEN "reject"
                   ELSE IF AsksPassword /\ h.password # "right" THEN "password" ELSE "accept"
       IN channel' = [toHost |-> Tail(channel.toHost),
                      toViewer |-> Append(channel.toViewer, Ack(host.id, said))]
    /\ UNCHANGED <<host, toViewer, toHost, cmds, events, pc, known, app>>

-----------------------------------------------------------------------------
(* The driver.                                                              *)

\* After a rebuild was asked for by a command the rest of the queue is drained
\* first; after one asked for by a loss it is not.
Take(kind) ==
    /\ pc.rebuild # "now"
    /\ cmds # << >> /\ Head(cmds).t = kind
    /\ cmds' = Tail(cmds)
    /\ UNCHANGED <<host, toViewer, toHost, known, app>>

\* apply_signal: a second offer is for a connection of its own.
TakeOffer ==
    /\ Take("offer")
    /\ LET n == Head(cmds).host IN
          IF pc.offer # 0
            THEN /\ pc' = [pc EXCEPT !.rebuild = "drain", !.pending = n]
                 /\ UNCHANGED events
            ELSE /\ pc' = [pc EXCEPT !.offer = n, !.heard = pc.early, !.early = {}]
                 /\ events' = Append(events, Answer(n, pc.id))
    /\ UNCHANGED channel

TakeCandidate ==
    /\ Take("candidate")
    /\ LET n == Head(cmds).host IN
          pc' = IF pc.offer # 0 THEN [pc EXCEPT !.heard = @ \cup {n}]
                                ELSE [pc EXCEPT !.early = @ \cup {n}]
    /\ UNCHANGED <<events, channel>>

\* send_data: lost when no channel is open, or nobody is at its other end.
TakeHello ==
    /\ Take("hello")
    /\ channel' = IF pc.up /\ Linked
                    THEN [channel EXCEPT !.toHost = Append(@, Head(cmds))]
                    ELSE channel
    /\ UNCHANGED <<pc, events>>

\* drain_events.
Connect ==
    /\ Linked /\ ~pc.up /\ pc.rebuild # "now"
    /\ pc' = [pc EXCEPT !.up = TRUE]
    /\ events' = Append(events, [t |-> "connected"])
    /\ UNCHANGED <<host, toViewer, toHost, cmds, known, channel, app>>

Lose ==
    /\ pc.up /\ ~Linked
    /\ pc' = [pc EXCEPT !.up = FALSE, !.rebuild = "now"]
    /\ events' = Append(events, [t |-> "disconnected"])
    /\ UNCHANGED <<host, toViewer, toHost, cmds, known, channel, app>>

\* drain_reads, which a rebuild leaves undone.
Receive ==
    /\ pc.up /\ pc.rebuild = "no" /\ channel.toViewer # << >>
    /\ events' = Append(events, Head(channel.toViewer))
    /\ channel' = [channel EXCEPT !.toViewer = Tail(@)]
    /\ UNCHANGED <<host, toViewer, toHost, cmds, pc, known, app>>

PendingMutant == 0   \* mutant: the offer that asked for the rebuild is forgotten
Pending == pc.pending

FreshMutant(v) == [ViewerPc(v) EXCEPT !.offer = Pending, !.rebuild = pc.rebuild]   \* mutant: the request is not cleared
Fresh(v) == [ViewerPc(v) EXCEPT !.offer = Pending]

\* run_viewer: a fresh connection, which takes the offer that asked for it.
Rebuild ==
    /\ \/ pc.rebuild = "now"
       \/ pc.rebuild = "drain" /\ cmds = << >>
    /\ pc' = Fresh(pc.id + 1)
    /\ events' = IF Pending # 0 THEN Append(events, Answer(Pending, pc.id + 1)) ELSE events
    /\ channel' = Silence
    /\ UNCHANGED <<host, toViewer, toHost, cmds, known, app>>

Driver == TakeOffer \/ TakeCandidate \/ TakeHello \/ Connect \/ Lose \/ Receive \/ Rebuild

-----------------------------------------------------------------------------
(* The pump, and the window, which has handled an update before the next.    *)

Leave(why) == app' = [app EXCEPT !.screen = "left", !.left = why]

\* An update for a window that has left reaches nobody.
Shows(update) == IF app.screen = "left" THEN UNCHANGED app ELSE update

PumpSignal ==
    /\ toViewer # << >>
    /\ toViewer' = Tail(toViewer)
    /\ known' = IF Head(toViewer).t = "offer" THEN [known EXCEPT !.host = Head(toViewer).host]
                                              ELSE known
    /\ cmds' = Append(cmds, Head(toViewer))
    /\ UNCHANGED <<host, toHost, events, pc, channel, app>>

Event(kind) ==
    /\ events # << >> /\ Head(events).t = kind
    /\ events' = Tail(events)
    /\ UNCHANGED <<host, toViewer, pc, channel>>

PumpAnswer ==
    /\ Event("answer")
    /\ known' = [known EXCEPT !.local = Head(events).viewer]
    /\ toHost' = Append(toHost, Head(events))
    /\ UNCHANGED <<cmds, app>>

PumpConnected ==
    /\ Event("connected")
    /\ cmds' = Append(cmds, Hello(known.local, "none"))
    /\ Shows(app' = [app EXCEPT !.screen = "session"])
    /\ UNCHANGED <<toHost, known>>

PumpDisconnected ==
    /\ Event("disconnected")
    /\ Shows(Leave("disconnected"))
    /\ UNCHANGED <<toHost, cmds, known>>

Proven(ack) == ack.proof = known.host

\* HostIdentity and Paired, or PasswordRequired.
PumpAck ==
    /\ Event("ack")
    /\ LET ack == Head(events) IN
          Shows(IF ack.said = "password"
                  THEN app' = [app EXCEPT !.screen = "password"]
                ELSE IF ~Proven(ack) THEN Leave("unproven")
                ELSE IF ack.said = "reject" THEN Leave("rejected")
                ELSE app' = [app EXCEPT !.screen = "session"])
    /\ UNCHANGED <<toHost, cmds, known>>

\* The user enters a password, and the pump sends the Hello again with it.
SubmitPassword ==
    /\ app.screen = "password"
    /\ \E pw \in {"right", "wrong"} :
          cmds' = Append(cmds, Hello(known.local, pw))
    /\ app' = [app EXCEPT !.screen = "establishing"]
    /\ UNCHANGED <<host, toViewer, toHost, events, pc, known, channel>>

\* Disconnect or Cancel: leave_session drops the ViewerSession.
HangUp == UNCHANGED <<pc, cmds, channel>>   \* no handle of it ends the pump

LeaveSession ==
    /\ app.screen # "left"
    /\ Leave("user")
    /\ HangUp
    /\ UNCHANGED <<host, toViewer, toHost, events, known>>

Pump == PumpSignal \/ PumpAnswer \/ PumpConnected \/ PumpDisconnected \/ PumpAck

Host == HostTakesAnswer \/ HostConnects \/ HostJudges

Next == Host \/ HostLoses \/ Driver \/ Pump \/ SubmitPassword \/ LeaveSession

Spec == Init /\ [][Next]_vars

\* Threads run on; the user need do nothing.
FairSpec ==
    /\ Spec
    /\ WF_vars(HostTakesAnswer) /\ WF_vars(HostConnects) /\ WF_vars(HostJudges)
    /\ WF_vars(TakeOffer \/ TakeCandidate \/ TakeHello) /\ WF_vars(Rebuild)
    /\ WF_vars(Connect) /\ WF_vars(Lose) /\ WF_vars(Receive)
    /\ WF_vars(Pump)

-----------------------------------------------------------------------------

\* The spinner of a session being established ends, whatever the host lost.
DialSettles == app.screen = "establishing" ~> app.screen # "establishing"

\* One loss, or one answer that crosses a new offer, is no storm of rebuilds: each
\* end answers the other's rebuilds with one of its own at most.
NoRebuildStorm == host.id <= 1 + 2 * host.losses /\ pc.id <= host.id + host.losses

-----------------------------------------------------------------------------
(* What the source's comments say and the code does not keep.               *)

\* "An INVALID proof means we're talking to an imposter/MITM host" (viewer.rs:327):
\* here every host is the one that was dialed.  A proof that crosses a rebuild is about
\* another certificate.
HonestHostIsProven == app.left # "unproven"

\* "Tear down any active session" (main.rs:380).  The pump holds the session, too.
LeavingHangsUp == app.screen = "left" ~> ~pc.up

\* A candidate reaches the connection of its offer ("buffer and replay", driver.rs:1353).  One
\* that comes while the offer waits for the rebuild is given to the connection that goes.
CandidatesReachTheirConnection ==
    pc.offer # 0 /\ pc.rebuild = "no" /\ Candidate(pc.offer) \notin ToSet(toViewer) \cup ToSet(cmds)
        => pc.offer \in pc.heard
=============================================================================
