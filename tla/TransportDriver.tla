--------------------------- MODULE TransportDriver ---------------------------
(***************************************************************************)
(* The host-role transport driver: the thread of                           *)
(* crates/transport/src/driver.rs that owns the peer connection and pumps  *)
(* it in `event_loop`.  One pass of the loop drains the command channel,   *)
(* then the connection events, leaves for a rebuild if one was asked for,  *)
(* and only otherwise drains the reads; `phase` is the place in that pass. *)
(*                                                                         *)
(* A peer connection is known by its number: `run_host` builds number 1,   *)
(* and each rebuild the next one.  An answer is known by the viewer that   *)
(* made it and the number of the connection whose offer it answers; only   *)
(* an answer to the present offer has matching ICE credentials, so only    *)
(* that one can lead to a connection.  ICE candidates, TURN, bitrate and   *)
(* the data channel's own handshake are abstracted: the channel is open    *)
(* exactly while the connection is up (the driver sees its OnOpen event    *)
(* before it reads anything from it).                                      *)
(***************************************************************************)
EXTENDS Naturals, Sequences, ControlMessages

CONSTANTS
    Viewers,      \* viewer devices that may answer an offer
    NoOne,        \* stands for "no viewer"
    MaxSession,   \* bound: peer connections ever built
    MaxEvents,    \* bound: events waiting for the host loop
    MaxCmds       \* bound: commands waiting for the driver

ASSUME DriverAssumption ==
    /\ NoOne \notin Viewers
    /\ MaxSession \in Nat \ {0}
    /\ MaxEvents \in Nat \ {0}
    /\ MaxCmds \in Nat \ {0}

VARIABLES
    phase,   \* where event_loop stands in its pass, or "dead" when it returned
    pc,      \* the peer connection: its number and the flags of RoleState
    peer,    \* for every connection, the viewer whose answer it took
    told,    \* the verdict of the last HelloAck sent on this connection
    evq,     \* TransportEvents on their way to the host loop
    cmdq     \* DriverCmds on their way to the driver

driverVars == <<phase, pc, peer, told, evq, cmdq>>

Session  == 1 .. MaxSession
Phases   == {"commands", "events", "reads", "dead"}
Verdicts == {"none", "accept", "reject", "password"}

Events ==
    [kind    : {"offer", "connected", "disconnected", "keyframe", "data"},
     session : Session,
     msg     : Messages \cup {NoMessage}]

\* A field a command has no use for holds NoOne, 0 or "none".
Commands ==
    [kind    : {"answer", "restart", "ack", "video"},
     viewer  : Viewers \cup {NoOne},
     session : 0 .. MaxSession,
     verdict : Verdicts]

FreshPc(n) == [id |-> n, negotiated |-> FALSE, up |-> FALSE, rebuild |-> FALSE]

Event(kind) == [kind |-> kind, session |-> pc.id, msg |-> NoMessage]

Emit(e) == /\ Len(evq) < MaxEvents
           /\ evq' = Append(evq, e)

\* Once the driver thread is gone the channel refuses a send, and the sender
\* does not look.
Send(c) == IF phase = "dead"
             THEN UNCHANGED cmdq
             ELSE /\ Len(cmdq) < MaxCmds
                  /\ cmdq' = Append(cmdq, c)

DriverInit ==
    /\ phase = "commands"
    /\ pc    = FreshPc(1)
    /\ peer  = [n \in Session |-> NoOne]
    /\ told  = "none"
    /\ evq   = <<[kind |-> "offer", session |-> 1, msg |-> NoMessage]>>
    /\ cmdq  = << >>

-----------------------------------------------------------------------------
(* drain_commands: every queued command, one step each.                     *)

Take(kind) ==
    /\ phase = "commands"
    /\ cmdq # << >>
    /\ Head(cmdq).kind = kind
    /\ cmdq' = Tail(cmdq)
    /\ UNCHANGED <<phase, evq>>

\* Whether the answer at the head was made for the present offer.
AnswersPresentOfferMutant == TRUE   \* mutant: an answer to an old offer connects
AnswersPresentOffer == Head(cmdq).session = pc.id

\* The first answer is applied to the connection; only one that answers the
\* connection's own offer can ever bring it up.
TakeAnswer ==
    /\ Take("answer")
    /\ ~pc.negotiated
    /\ pc' = [pc EXCEPT !.negotiated = TRUE]
    /\ peer' = IF AnswersPresentOffer
                 THEN [peer EXCEPT ![pc.id] = Head(cmdq).viewer]
                 ELSE peer
    /\ UNCHANGED <<told>>

\* It may also fail to apply, and is then dropped.
RefuseAnswer ==
    /\ Take("answer")
    /\ ~pc.negotiated
    /\ UNCHANGED <<pc, peer, told>>

\* A further answer cannot be applied: the viewer re-announced, so rebuild.
TakeSecondAnswer ==
    /\ Take("answer")
    /\ pc.negotiated
    /\ pc' = [pc EXCEPT !.rebuild = TRUE]
    /\ UNCHANGED <<peer, told>>

TakeRestart ==
    /\ Take("restart")
    /\ pc' = [pc EXCEPT !.rebuild = TRUE]
    /\ UNCHANGED <<peer, told>>

\* Dropped unless the data channel is open.
TakeAck ==
    /\ Take("ack")
    /\ told' = IF pc.up THEN Head(cmdq).verdict ELSE told
    /\ UNCHANGED <<pc, peer>>

\* Packetized and handed to write_rtp, which drops it until the connection is up.
TakeVideo ==
    /\ Take("video")
    /\ UNCHANGED <<pc, peer, told>>

CommandsDrained ==
    /\ phase = "commands"
    /\ cmdq = << >>
    /\ phase' = "events"
    /\ UNCHANGED <<pc, peer, told, evq, cmdq>>

-----------------------------------------------------------------------------
(* drain_events: connection-state changes, a rebuild request notwithstanding *)

Connect ==
    /\ phase = "events"
    /\ peer[pc.id] # NoOne
    /\ ~pc.up
    /\ pc' = [pc EXCEPT !.up = TRUE]
    /\ Emit(Event("connected"))
    /\ UNCHANGED <<phase, peer, told, cmdq>>

Lost ==
    /\ phase = "events"
    /\ pc.up
    /\ pc' = [pc EXCEPT !.up = FALSE, !.rebuild = TRUE]
    /\ Emit(Event("disconnected"))
    /\ UNCHANGED <<phase, peer, told, cmdq>>

EmitOfferMutant(n) == UNCHANGED evq   \* mutant: the new offer is never surfaced
EmitOffer(n) == Emit([kind |-> "offer", session |-> n, msg |-> NoMessage])

\* The pass ends here when a rebuild is due: the connection is closed, whether
\* it is up or not, and run_host builds the next one and emits its offer.
Rebuild ==
    /\ phase = "events"
    /\ pc.rebuild
    /\ pc.id < MaxSession
    /\ pc' = FreshPc(pc.id + 1)
    /\ told' = "none"
    /\ EmitOffer(pc.id + 1)
    /\ phase' = "commands"
    /\ UNCHANGED <<peer, cmdq>>

EventsDrained ==
    /\ phase = "events"
    /\ ~pc.rebuild
    /\ phase' = "reads"
    /\ UNCHANGED <<pc, peer, told, evq, cmdq>>

-----------------------------------------------------------------------------
(* drain_reads: data-channel messages, and RTCP picture-loss reports.       *)

Receive(m) ==
    /\ phase = "reads"
    /\ pc.up
    /\ Emit([kind |-> "data", session |-> pc.id, msg |-> m])
    /\ UNCHANGED <<phase, pc, peer, told, cmdq>>

ReceivePictureLoss ==
    /\ phase = "reads"
    /\ pc.up
    /\ Emit(Event("keyframe"))
    /\ UNCHANGED <<phase, pc, peer, told, cmdq>>

NextPass ==
    /\ phase = "reads"
    /\ phase' = "commands"
    /\ UNCHANGED <<pc, peer, told, evq, cmdq>>

\* An error from building the next connection, or from handle_read or
\* handle_timeout, returns from the driver thread: the queued commands are lost
\* with the channel, and no event tells the host loop.
Exit ==
    /\ phase' = "dead"
    /\ cmdq' = << >>
    /\ UNCHANGED <<pc, peer, told, evq>>

BuildFails == phase = "events" /\ pc.rebuild /\ Exit
ReadFails  == phase = "reads" /\ Exit

\* The loop's own progress, as opposed to what the network does to it.
DriverPump ==
    \/ TakeAnswer \/ RefuseAnswer \/ TakeSecondAnswer \/ TakeRestart \/ TakeAck \/ TakeVideo
    \/ CommandsDrained \/ Rebuild \/ BuildFails
    \/ EventsDrained \/ NextPass

DriverInput ==
    \/ Connect \/ Lost \/ ReceivePictureLoss \/ ReadFails

DriverTypeOK ==
    /\ phase \in Phases
    /\ pc \in [id : Session, negotiated : BOOLEAN, up : BOOLEAN, rebuild : BOOLEAN]
    /\ peer \in [Session -> Viewers \cup {NoOne}]
    /\ told \in Verdicts
    /\ evq \in Seq(Events) /\ Len(evq) <= MaxEvents
    /\ cmdq \in Seq(Commands) /\ Len(cmdq) <= MaxCmds
=============================================================================
