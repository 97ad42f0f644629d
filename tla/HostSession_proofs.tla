-------------------------- MODULE HostSession_proofs --------------------------
(***************************************************************************)
(* Proofs about HostSession, for every value of its constants.             *)
(***************************************************************************)
EXTENDS HostSession, TLAPS

USE DriverAssumption, HostAssumption DEF DriverAssumption, HostAssumption

-----------------------------------------------------------------------------
(* The queues.                                                              *)

\* Taking the head of a queue leaves the rest, one place further on.
LEMMA HeadTail ==
  ASSUME NEW S, NEW q \in Seq(S), q # << >>
  PROVE  /\ Head(q) \in S
         /\ Tail(q) \in Seq(S)
         /\ Len(q) \in Nat \ {0}
         /\ Len(Tail(q)) = Len(q) - 1
         /\ Head(q) = q[1]
         /\ \A i \in DOMAIN Tail(q) : Tail(q)[i] = q[i + 1]
  OBVIOUS

\* Without its head, a queue is another one.
LEMMA TailIsShorter ==
  ASSUME NEW S, NEW q \in Seq(S), q # << >>
  PROVE  Tail(q) # q
<1>1. \A a \in Nat : a - 1 # a
  OBVIOUS
<1>2. Len(q) \in Nat /\ Len(Tail(q)) = Len(q) - 1
  BY HeadTail
<1>3. ASSUME Tail(q) = q PROVE FALSE
  <2>1. Len(Tail(q)) = Len(q)
    BY <1>3, Zenon
  <2> QED
    BY <2>1, <1>1, <1>2, Zenon
<1> QED
  BY <1>3

\* Appending leaves what is there and puts the new element last.
LEMMA Appended ==
  ASSUME NEW S, NEW q \in Seq(S), NEW e \in S
  PROVE  /\ Append(q, e) \in Seq(S)
         /\ Len(Append(q, e)) = Len(q) + 1
         /\ \A i \in DOMAIN q : Append(q, e)[i] = q[i]
         /\ Append(q, e)[Len(q) + 1] = e
  OBVIOUS

\* Emitting an event keeps the event queue well typed and within its bound.
LEMMA EmitType ==
  ASSUME DriverTypeOK, NEW e \in Events, Emit(e)
  PROVE  evq' \in Seq(Events) /\ Len(evq') <= MaxEvents
  BY Appended DEF DriverTypeOK, Emit

\* Sending a command keeps the command queue well typed and within its bound.
LEMMA SendType ==
  ASSUME DriverTypeOK, NEW c \in Commands, Send(c)
  PROVE  cmdq' \in Seq(Commands) /\ Len(cmdq') <= MaxCmds
  BY Appended, SMTT(60) DEF DriverTypeOK, Send

\* Taking a command does, too, and the command is one of the driver's.
LEMMA TakeType ==
  ASSUME DriverTypeOK, NEW kind, Take(kind)
  PROVE  /\ cmdq' \in Seq(Commands) /\ Len(cmdq') <= MaxCmds
         /\ Head(cmdq) \in Commands
         /\ Head(cmdq).kind = kind
         /\ UNCHANGED <<phase, evq>>
  BY HeadTail DEF DriverTypeOK, Take

\* Handling an event keeps the event queue well typed and leaves the driver.
LEMMA HandleType ==
  ASSUME DriverTypeOK, NEW kind, Handle(kind)
  PROVE  /\ evq' \in Seq(Events) /\ Len(evq') <= MaxEvents
         /\ Head(evq) \in Events
         /\ Head(evq).kind = kind
         /\ UNCHANGED <<phase, pc, peer, told>>
  BY HeadTail DEF DriverTypeOK, Handle

-----------------------------------------------------------------------------
(* Type correctness.                                                        *)

LEMMA InitType == Init => TypeOK
<1> SUFFICES ASSUME Init PROVE TypeOK
  OBVIOUS
<1> USE DEF Init, DriverInit, HostInit
<1>1. evq \in Seq(Events) /\ Len(evq) <= MaxEvents
  BY DEF Events, Session
<1>2. pc \in [id : Session, negotiated : BOOLEAN, up : BOOLEAN, rebuild : BOOLEAN]
  BY DEF FreshPc, Session
<1>3. DriverTypeOK
  BY <1>1, <1>2 DEF DriverTypeOK, Phases, Verdicts
<1>4. remoteFp \in [viewer : Viewers \cup {NoOne}, session : 0 .. MaxSession]
  BY DEF NoAnswer
<1>5. 0 \in 0 .. MaxSession /\ 0 \in 0 .. ThrottleAfter
  OBVIOUS
<1>6. HostTypeOK
  BY <1>4, <1>5, Zenon DEF HostTypeOK
<1> QED
  BY <1>3, <1>6 DEF TypeOK

\* A driver step keeps the driver's variables to their types.
LEMMA DriverStepType ==
  ASSUME DriverTypeOK, DriverStep
  PROVE  DriverTypeOK'
<1> USE DEF Phases, Verdicts, Session
<1>1. CASE TakeAnswer
  BY <1>1, TakeType DEF TakeAnswer, DriverTypeOK, Commands
<1>2. CASE RefuseAnswer
  BY <1>2, TakeType DEF RefuseAnswer, DriverTypeOK
<1>3. CASE TakeSecondAnswer
  BY <1>3, TakeType DEF TakeSecondAnswer, DriverTypeOK
<1>4. CASE TakeRestart
  BY <1>4, TakeType DEF TakeRestart, DriverTypeOK
<1>5. CASE TakeAck
  BY <1>5, TakeType DEF TakeAck, DriverTypeOK, Commands
<1>6. CASE TakeVideo
  BY <1>6, TakeType DEF TakeVideo, DriverTypeOK
<1>7. CASE CommandsDrained
  BY <1>7 DEF CommandsDrained, DriverTypeOK
<1>8. CASE Rebuild
  <2>1. [kind |-> "offer", session |-> pc.id + 1, msg |-> NoMessage] \in Events
    BY <1>8 DEF Rebuild, Events, DriverTypeOK
  <2> QED
    BY <1>8, <2>1, EmitType DEF Rebuild, EmitOffer, FreshPc, DriverTypeOK
<1>9. CASE BuildFails \/ ReadFails
  <2>1. Exit
    BY <1>9 DEF BuildFails, ReadFails
  <2>2. cmdq' \in Seq(Commands) /\ Len(cmdq') <= MaxCmds
    BY <2>1 DEF Exit
  <2> QED
    BY <2>1, <2>2 DEF Exit, DriverTypeOK
<1>10. CASE EventsDrained \/ NextPass
  BY <1>10 DEF EventsDrained, NextPass, DriverTypeOK
<1>11. CASE Connect
  <2>1. Event("connected") \in Events
    BY DEF Event, Events, DriverTypeOK
  <2> QED
    BY <1>11, <2>1, EmitType DEF Connect, DriverTypeOK
<1>12. CASE Lost
  <2>1. Event("disconnected") \in Events
    BY DEF Event, Events, DriverTypeOK
  <2> QED
    BY <1>12, <2>1, EmitType DEF Lost, DriverTypeOK
<1>13. CASE ReceivePictureLoss
  <2>1. Event("keyframe") \in Events
    BY DEF Event, Events, DriverTypeOK
  <2> QED
    BY <1>13, <2>1, EmitType DEF ReceivePictureLoss, DriverTypeOK
<1>14. ASSUME NEW m \in Traffic, Receive(m)
       PROVE  DriverTypeOK'
  <2>1. [kind |-> "data", session |-> pc.id, msg |-> m] \in Events
    BY DEF Events, DriverTypeOK
  <2> QED
    BY <1>14, <2>1, EmitType DEF Receive, DriverTypeOK
<1> QED
  BY <1>1, <1>2, <1>3, <1>4, <1>5, <1>6, <1>7, <1>8, <1>9, <1>10, <1>11,
     <1>12, <1>13, <1>14 DEF DriverStep, DriverPump, DriverInput

\* Sending an acknowledgement keeps the command queue well typed.
LEMMA AckType ==
  ASSUME DriverTypeOK, NEW v \in Verdicts, Ack(v)
  PROVE  cmdq' \in Seq(Commands) /\ Len(cmdq') <= MaxCmds
<1>1. [Command("ack") EXCEPT !.verdict = v] \in Commands
  BY DEF Command, Commands
<1> QED
  BY <1>1, SendType DEF Ack

\* Handling a control message keeps everything it can change to its type.
LEMMA ControlType ==
  ASSUME TypeOK, NEW m \in Messages \cup {NoMessage}, NEW s \in Session,
         HandleControl(m, s)
  PROVE  /\ cmdq' \in Seq(Commands) /\ Len(cmdq') <= MaxCmds
         /\ authorized' \in BOOLEAN
         /\ viewOnly' \in BOOLEAN
         /\ failures' \in 0 .. ThrottleAfter
         /\ locked' \in BOOLEAN
         /\ held' \subseteq Keys
         /\ capturing' \in BOOLEAN
         /\ forceKey' \in BOOLEAN
         /\ accepted' \in 0 .. MaxSession
<1> USE DEF TypeOK, HostTypeOK
<1>0. DriverTypeOK /\ cmdq \in Seq(Commands) /\ Len(cmdq) <= MaxCmds
  BY DEF DriverTypeOK
<1>1. CASE HelloRejected(m, s)
  BY <1>0, <1>1, AckType DEF HelloRejected, Verdicts
<1>2. CASE HelloThrottled(m, s)
  BY <1>0, <1>2, AckType DEF HelloThrottled, Verdicts
<1>3. CASE HelloWrongPassword(m, s)
  <2>1. failures' \in 0 .. ThrottleAfter
    BY <1>3 DEF HelloWrongPassword, Miss
  <2>2. locked' \in BOOLEAN
    BY <1>3 DEF HelloWrongPassword
  <2> QED
    BY <1>0, <1>3, <2>1, <2>2, AckType DEF HelloWrongPassword, Verdicts
<1>4. CASE HelloAccepted(m, s)
  <2>1. accepted' \in 0 .. MaxSession /\ failures' \in 0 .. ThrottleAfter
    BY <1>4 DEF HelloAccepted, Session
  <2>2. capturing' \in BOOLEAN /\ forceKey' \in BOOLEAN
    BY <1>4 DEF HelloAccepted
  <2>3. cmdq' \in Seq(Commands) /\ Len(cmdq') <= MaxCmds
    BY <1>0, <1>4, AckType DEF HelloAccepted, Verdicts
  <2> QED
    BY <1>4, <2>1, <2>2, <2>3 DEF HelloAccepted
<1>5. CASE Dropped(m)
  BY <1>0, <1>5 DEF Dropped
<1>6. CASE Press(m)
  <2>1. m.key \in Keys
    BY <1>6 DEF Press, Messages, NoMessage, Hellos, Inputs, OtherTypes
  <2> QED
    BY <1>0, <1>6, <2>1 DEF Press
<1>7. CASE Release(m)
  BY <1>0, <1>7 DEF Release
<1>8. CASE ToggleViewOnly(m)
  BY <1>0, <1>8 DEF ToggleViewOnly, HeldAfterToggle
<1>9. CASE RefreshVideo(m)
  BY <1>0, <1>9 DEF RefreshVideo
<1>10. CASE Other(m)
  BY <1>0, <1>10 DEF Other
<1> QED
  BY <1>1, <1>2, <1>3, <1>4, <1>5, <1>6, <1>7, <1>8, <1>9, <1>10
     DEF HandleControl

\* A step of the host loop keeps every variable to its type.
LEMMA HostLoopType ==
  ASSUME TypeOK, HostLoop
  PROVE  TypeOK'
<1> USE DEF TypeOK
<1>1. CASE HandleOffer
  <2>1. DriverTypeOK'
    BY <1>1, HandleType DEF HandleOffer, DriverTypeOK
  <2>2. offered' \in 0 .. MaxSession
    BY <1>1, HandleType DEF HandleOffer, Events, Session
  <2> QED
    BY <1>1, <2>1, <2>2 DEF HandleOffer, Handle, HostTypeOK
<1>2. CASE HandleConnected
  <2>1. DriverTypeOK'
    BY <1>2, HandleType DEF HandleConnected, DriverTypeOK
  <2>2. hostSession' \in 0 .. MaxSession
    BY <1>2, HandleType DEF HandleConnected, Events, Session
  <2> QED
    BY <1>2, <2>1, <2>2 DEF HandleConnected, ResetGate, Handle, HostTypeOK
<1>3. CASE HandleDisconnected
  <2>1. DriverTypeOK'
    BY <1>3, HandleType DEF HandleDisconnected, DriverTypeOK
  <2>2. 0 \in 0 .. ThrottleAfter
    OBVIOUS
  <2> QED
    BY <1>3, <2>1, <2>2 DEF HandleDisconnected, ResetGate, WindUp, Handle, HostTypeOK
<1>4. CASE HandleKeyframeRequested
  <2>1. DriverTypeOK'
    BY <1>4, HandleType DEF HandleKeyframeRequested, DriverTypeOK
  <2> QED
    BY <1>4, <2>1 DEF HandleKeyframeRequested, Handle, HostTypeOK
<1>5. CASE HandleData
  <2> DEFINE m == Head(evq).msg
             s == Head(evq).session
  <2>1. m \in Messages \cup {NoMessage} /\ s \in Session
    BY <1>5, HandleType DEF HandleData, Events
  <2>2. HandleControl(m, s)
    BY <1>5 DEF HandleData
  <2>3. DriverTypeOK'
    BY <1>5, <2>1, <2>2, HandleType, ControlType DEF HandleData, DriverTypeOK
  <2>4. wasAuthorized' \in BOOLEAN /\ status' \in {"waiting", "active", "ended"}
    BY <1>5 DEF HandleData, HostTypeOK
  <2>5. UNCHANGED <<offered, remoteFp, hostSession, frame, encoding>>
    BY <1>5 DEF HandleData, Handle
  <2> HIDE DEF m, s
  <2>6. HostTypeOK'
    BY <2>1, <2>2, <2>4, <2>5, ControlType DEF HostTypeOK
  <2> QED
    BY <2>3, <2>6
<1> QED
  BY <1>1, <1>2, <1>3, <1>4, <1>5 DEF HostLoop

\* Every step keeps every variable to its type.
LEMMA StepType ==
  ASSUME TypeOK, [Next]_vars
  PROVE  TypeOK'
<1>1. CASE DriverStep
  <2>1. UNCHANGED hostVars
    BY <1>1 DEF DriverStep
  <2>2. DriverTypeOK'
    BY <1>1, DriverStepType DEF TypeOK
  <2> QED
    BY <2>1, <2>2 DEF TypeOK, HostTypeOK, hostVars
<1>2. CASE HostLoop
  BY <1>2, HostLoopType
<1>3. ASSUME NEW v \in Viewers, NEW s \in Session, FeedAnswer(v, s)
      PROVE  TypeOK'
  <2>1. [Command("answer") EXCEPT !.viewer = v, !.session = s] \in Commands
    <3>1. s \in 0 .. MaxSession
      BY DEF Session
    <3>2. Command("answer") \in Commands
      BY DEF Command, Commands, Verdicts
    <3>3. [Command("answer") EXCEPT !.viewer = v] \in Commands
      BY <3>2 DEF Commands
    <3> QED
      BY <3>1, <3>3 DEF Commands
  <2>2. DriverTypeOK'
    BY <1>3, <2>1, SendType DEF FeedAnswer, TypeOK, DriverTypeOK
  <2>3. remoteFp' \in [viewer : Viewers \cup {NoOne}, session : 0 .. MaxSession]
    BY <1>3 DEF FeedAnswer, Session
  <2> QED
    BY <1>3, <2>2, <2>3 DEF FeedAnswer, TypeOK, HostTypeOK
<1>4. CASE PeerSwitched
  <2>1. Command("restart") \in Commands
    BY DEF Command, Commands, Verdicts
  <2> QED
    BY <1>4, <2>1, SendType DEF PeerSwitched, TypeOK, DriverTypeOK, HostTypeOK, hostVars
<1>5. CASE LockoutEnds
  <2>1. DriverTypeOK'
    BY <1>5 DEF LockoutEnds, TypeOK, DriverTypeOK, driverVars
  <2>2. HostTypeOK'
    BY <1>5, Zenon DEF LockoutEnds, TypeOK, HostTypeOK
  <2> QED
    BY <2>1, <2>2 DEF TypeOK
<1>6. CASE CaptureFrame
  BY <1>6 DEF CaptureFrame, TypeOK, DriverTypeOK, HostTypeOK, driverVars
<1>7. CASE TakeFrame
  BY <1>7, ZenonT(60) DEF TakeFrame, TypeOK, DriverTypeOK, HostTypeOK, driverVars
<1>8. CASE FinishFrame
  <2>1. Command("video") \in Commands
    BY DEF Command, Commands, Verdicts
  <2>2. DriverTypeOK'
    BY <1>8, <2>1, SendType DEF FinishFrame, TypeOK, DriverTypeOK
  <2> QED
    BY <1>8, <2>2 DEF FinishFrame, TypeOK, HostTypeOK
<1>9. CASE UNCHANGED vars
  BY <1>9 DEF vars, driverVars, hostVars, TypeOK, DriverTypeOK, HostTypeOK
<1> QED
  BY <1>1, <1>2, <1>3, <1>4, <1>5, <1>6, <1>7, <1>8, <1>9 DEF Next

\* Type correctness of the host session (every variable of run_host_core, its
\* encode thread and the driver keeps to its values).
THEOREM TypeCorrect == Spec => []TypeOK
  BY InitType, StepType, PTL DEF Spec

-----------------------------------------------------------------------------
(* The inductive invariant.                                                 *)

\* Events are queued in the order of the connections they come from, none of
\* them older than the connection the host loop saw connect last.
Order ==
  /\ hostSession <= pc.id
  /\ \A i \in DOMAIN evq : hostSession <= evq[i].session /\ evq[i].session <= pc.id
  /\ \A i, j \in DOMAIN evq : i < j => evq[i].session <= evq[j].session

\* The Connected of connection n is the last one handled (h), or is in the queue
\* q before place k.
Announced(h, q, n, k) ==
  \/ h = n
  \/ \E j \in DOMAIN q : j < k /\ q[j].kind = "connected" /\ q[j].session = n

\* Data comes after the Connected of its own connection.
Source ==
  /\ \A i \in DOMAIN evq :
       evq[i].kind = "data" => Announced(hostSession, evq, evq[i].session, i)
  /\ pc.up => Announced(hostSession, evq, pc.id, Len(evq) + 1)

\* A connection has a viewer once its answer is in, and keeps it.
Known ==
  /\ peer[pc.id] # NoOne => pc.negotiated
  /\ \A n \in Session : n > pc.id => peer[n] = NoOne
  /\ pc.up => peer[pc.id] \in Viewers
  /\ \A i \in DOMAIN evq : evq[i].kind = "data" => peer[evq[i].session] \in Viewers

\* A right password comes from a viewer whose user knows it.
Honest ==
  \A i \in DOMAIN evq :
    evq[i].kind = "data" => MaySend(peer[evq[i].session], evq[i].msg)

\* The gate is open to the viewer of the connection the host loop saw last, and
\* that one is within the policy.
Gate == authorized => /\ accepted = hostSession
                      /\ accepted \in Session
                      /\ Admitted(peer[accepted])

\* An authorized session has been through the active-session edge.
Reported ==
  /\ authorized => wasAuthorized
  /\ wasAuthorized => status = "active"
  /\ ActiveIsReported

Inv ==
  /\ TypeOK /\ Order /\ Source /\ Known /\ Honest
  /\ Gate /\ Reported /\ ViewOnlyHoldsNothing

-----------------------------------------------------------------------------
(* What the three kinds of step do to the parts of the invariant that speak *)
(* of the event queue: append an event, take one, or leave the queue.       *)

\* A step that leaves the queue, the peers and the connection's place.
LEMMA QuietStep ==
  ASSUME Inv, UNCHANGED <<evq, peer, hostSession>>,
         pc'.id = pc.id, pc'.up = pc.up, pc.negotiated => pc'.negotiated
  PROVE  Order' /\ Source' /\ Known' /\ Honest'
<1>1. Order'
  BY DEF Inv, Order
<1>2. Source'
  BY DEF Inv, Source
<1>3. Known'
  BY DEF Inv, Known
<1>4. Honest'
  BY DEF Inv, Honest, MaySend
<1> QED
  BY <1>1, <1>2, <1>3, <1>4

\* A step that appends an event of the connection the driver then has.
LEMMA EmitStep ==
  ASSUME Inv, pc' \in [id : Session, negotiated : BOOLEAN, up : BOOLEAN, rebuild : BOOLEAN],
         NEW e \in Events, Emit(e), UNCHANGED <<peer, hostSession>>,
         e.session = pc'.id,
         pc.id <= pc'.id,
         peer[pc'.id] # NoOne => pc'.negotiated,
         e.kind = "data" => pc.up /\ pc'.id = pc.id /\ MaySend(peer[pc.id], e.msg),
         pc'.up => /\ pc'.id = pc.id
                   /\ peer[pc.id] \in Viewers
                   /\ pc.up \/ e.kind = "connected"
  PROVE  Order' /\ Source' /\ Known' /\ Honest'
<1> DEFINE n == Len(evq) + 1
<1>1. /\ pc.id \in Session /\ pc'.id \in Session
      /\ evq \in Seq(Events)
      /\ hostSession \in 0 .. MaxSession
  BY DEF Inv, TypeOK, DriverTypeOK, HostTypeOK
<1>2. /\ evq' = Append(evq, e)
      /\ Len(evq) \in Nat
      /\ DOMAIN evq = 1 .. Len(evq)
  BY <1>1 DEF Emit
<1>3. /\ DOMAIN evq' = 1 .. n /\ Len(evq') = n
      /\ n \in Nat \ {0} /\ n \in DOMAIN evq'
      /\ DOMAIN evq = 1 .. (n - 1)
      /\ evq'[n] = e
      /\ \A i \in DOMAIN evq : evq'[i] = evq[i]
  BY <1>1, <1>2, Appended
<1>4. \A i \in DOMAIN evq : evq[i].session \in Session
  <2>1. \A i \in DOMAIN evq : evq[i] \in Events
    BY <1>1, <1>2
  <2> QED
    BY <2>1 DEF Events
<1> HIDE DEF n
<1>5. Order'
  <2>1. \A i \in DOMAIN evq' : hostSession' <= evq'[i].session /\ evq'[i].session <= pc'.id
    BY <1>1, <1>3, <1>4 DEF Inv, Order, Session
  <2>2. ASSUME NEW i \in DOMAIN evq', NEW j \in DOMAIN evq', i < j
        PROVE  evq'[i].session <= evq'[j].session
    BY <1>3, <2>1, <2>2 DEF Inv, Order
  <2>3. hostSession' <= pc'.id
    BY <1>1 DEF Inv, Order, Session
  <2> QED
    BY <2>1, <2>2, <2>3 DEF Order
<1>6. ASSUME NEW s, NEW k, Announced(hostSession, evq, s, k)
      PROVE  Announced(hostSession', evq', s, k)
  BY <1>3, <1>6 DEF Announced
<1>7. ASSUME NEW i \in DOMAIN evq', evq'[i].kind = "data"
      PROVE  Announced(hostSession', evq', evq'[i].session, i)
  <2>1. CASE i = n
    <3>1. evq'[i].session = pc.id /\ pc.up
      BY <1>3, <1>7, <2>1
    <3>2. Announced(hostSession, evq, pc.id, n)
      BY <3>1 DEF Inv, Source, n
    <3> QED
      BY <1>6, <2>1, <3>1, <3>2
  <2>2. CASE i # n
    <3>1. i \in DOMAIN evq /\ evq'[i] = evq[i]
      BY <1>3, <1>7, <2>2
    <3>2. Announced(hostSession, evq, evq[i].session, i)
      BY <1>7, <3>1 DEF Inv, Source
    <3> QED
      BY <1>6, <3>1, <3>2
  <2> QED
    BY <2>1, <2>2
<1>8. ASSUME pc'.up
      PROVE  Announced(hostSession', evq', pc'.id, n + 1)
  <2>1. CASE e.kind = "connected"
    BY <1>3, <2>1 DEF Announced
  <2>2. CASE pc.up
    <3>1. Announced(hostSession, evq, pc.id, n)
      BY <2>2 DEF Inv, Source, n
    <3>2. Announced(hostSession', evq', pc.id, n)
      BY <1>6, <3>1
    <3>3. Announced(hostSession', evq', pc.id, n + 1)
      BY <1>3, <3>2 DEF Announced
    <3> QED
      BY <1>8, <3>3
  <2> QED
    BY <1>8, <2>1, <2>2
<1>9. Source'
  BY <1>3, <1>7, <1>8 DEF Source
<1>10. Known'
  <2>1. \A i \in DOMAIN evq' : evq'[i].kind = "data" => peer'[evq'[i].session] \in Viewers
    BY <1>3 DEF Inv, Known
  <2>2. \A m \in Session : m > pc'.id => peer'[m] = NoOne
    BY <1>1 DEF Inv, Known, Session
  <2> QED
    BY <2>1, <2>2 DEF Known
<1>11. Honest'
  <2>1. ASSUME NEW i \in DOMAIN evq', evq'[i].kind = "data"
        PROVE  MaySend(peer[evq'[i].session], evq'[i].msg)
    <3>1. CASE i = n
      BY <1>3, <2>1, <3>1
    <3>2. CASE i # n
      BY <1>3, <2>1, <3>2 DEF Inv, Honest
    <3> QED
      BY <3>1, <3>2
  <2> QED
    BY <2>1 DEF Honest, MaySend
<1> QED
  BY <1>5, <1>9, <1>10, <1>11

\* A step that takes the first event, as the host loop does.
LEMMA HandleStep ==
  ASSUME Inv, NEW kind, Handle(kind),
         hostSession' = IF kind = "connected" THEN Head(evq).session ELSE hostSession
  PROVE  Order' /\ Source' /\ Known' /\ Honest'
<1>1. /\ evq \in Seq(Events) /\ evq # << >>
      /\ evq' = Tail(evq)
      /\ UNCHANGED <<pc, peer>>
      /\ pc.id \in Session
      /\ hostSession \in 0 .. MaxSession
  BY DEF Inv, TypeOK, DriverTypeOK, HostTypeOK, Handle
<1>2. /\ DOMAIN evq = 1 .. Len(evq)
      /\ DOMAIN evq' = 1 .. (Len(evq) - 1)
      /\ Len(evq') = Len(evq) - 1
      /\ Len(evq) \in Nat \ {0}
      /\ \A i \in DOMAIN evq' : evq'[i] = evq[i + 1]
      /\ Head(evq) = evq[1]
      /\ evq[1].kind = kind
  BY <1>1, HeadTail DEF Handle
<1>3. \A i \in DOMAIN evq : evq[i].session \in Session
  <2>1. \A i \in DOMAIN evq : evq[i] \in Events
    BY <1>1, <1>2
  <2> QED
    BY <2>1 DEF Events
<1>4. \A i \in DOMAIN evq' : i + 1 \in DOMAIN evq /\ 1 <= i /\ 1 < i + 1
  BY <1>2
<1>5. 1 \in DOMAIN evq /\ hostSession' <= evq[1].session /\ hostSession <= hostSession'
  BY <1>1, <1>2, <1>3 DEF Inv, Order, Session
<1>6. Order'
  <2>1. ASSUME NEW i \in DOMAIN evq'
        PROVE  hostSession' <= evq'[i].session /\ evq'[i].session <= pc'.id
    <3>1. evq[1].session <= evq[i + 1].session /\ evq[i + 1].session <= pc.id
      BY <1>4, <1>5, <2>1 DEF Inv, Order
    <3>2. /\ evq[1].session \in Session /\ evq[i + 1].session \in Session
          /\ hostSession' \in 0 .. MaxSession
      BY <1>1, <1>2, <1>3, <1>4, <1>5, <2>1 DEF Session
    <3> QED
      BY <1>1, <1>2, <1>5, <3>1, <3>2 DEF Session
  <2>2. ASSUME NEW i \in DOMAIN evq', NEW j \in DOMAIN evq', i < j
        PROVE  evq'[i].session <= evq'[j].session
    BY <1>2, <1>4, <2>2 DEF Inv, Order
  <2>3. hostSession' <= pc'.id
    BY <1>1, <1>2, <1>5 DEF Inv, Order
  <2> QED
    BY <2>1, <2>2, <2>3 DEF Order
\* An announcement that came before still comes before, or was just handled, or
\* was of the connection that is handled already.
<1>7. ASSUME NEW k \in 1 .. Len(evq), NEW s \in Session,
             Announced(hostSession, evq, s, k + 1),
             evq[1].session <= s
      PROVE  Announced(hostSession', evq', s, k)
  <2>1. CASE hostSession = s
    BY <1>1, <1>2, <1>3, <1>5, <1>7, <2>1 DEF Announced, Session
  <2>2. ASSUME NEW j \in DOMAIN evq, j < k + 1, evq[j].kind = "connected", evq[j].session = s
        PROVE  Announced(hostSession', evq', s, k)
    <3>1. CASE j = 1
      BY <1>2, <2>2, <3>1 DEF Announced
    <3>2. CASE j # 1
      <4>1. (j - 1) \in DOMAIN evq' /\ j - 1 < k /\ (j - 1) + 1 = j
        BY <1>2, <2>2, <3>2
      <4>2. evq'[j - 1] = evq[j]
        BY <1>2, <4>1
      <4> QED
        BY <2>2, <4>1, <4>2 DEF Announced
    <3> QED
      BY <3>1, <3>2
  <2> QED
    BY <1>7, <2>1, <2>2 DEF Announced
<1>8. ASSUME NEW i \in DOMAIN evq', evq'[i].kind = "data"
      PROVE  Announced(hostSession', evq', evq'[i].session, i)
  <2>1. i + 1 \in DOMAIN evq /\ evq'[i] = evq[i + 1] /\ i \in 1 .. Len(evq)
    BY <1>2, <1>8
  <2>2. Announced(hostSession, evq, evq[i + 1].session, i + 1)
    BY <1>8, <2>1 DEF Inv, Source
  <2>3. evq[1].session <= evq[i + 1].session
    BY <1>4, <1>5, <1>8 DEF Inv, Order
  <2> QED
    BY <1>3, <1>7, <2>1, <2>2, <2>3
<1>9. ASSUME pc.up PROVE Announced(hostSession', evq', pc.id, Len(evq))
  <2>1. Announced(hostSession, evq, pc.id, Len(evq) + 1)
    BY <1>9 DEF Inv, Source
  <2>2. evq[1].session <= pc.id /\ Len(evq) \in 1 .. Len(evq)
    BY <1>2, <1>5 DEF Inv, Order
  <2> QED
    BY <1>1, <1>7, <2>1, <2>2
<1>10. Source'
  <2>1. pc'.up => Announced(hostSession', evq', pc'.id, Len(evq') + 1)
    <3>1. Len(evq') + 1 = Len(evq)
      BY <1>2
    <3> QED
      BY <1>1, <1>9, <3>1
  <2> QED
    BY <1>8, <2>1 DEF Source
<1>11. Known'
  BY <1>1, <1>2, <1>4 DEF Inv, Known
<1>12. Honest'
  BY <1>1, <1>2, <1>4 DEF Inv, Honest, MaySend
<1> QED
  BY <1>6, <1>10, <1>11, <1>12

-----------------------------------------------------------------------------
(* The invariant holds initially and every step preserves it.               *)

LEMMA InitInv == Init => Inv
<1> SUFFICES ASSUME Init PROVE Inv
  OBVIOUS
<1> USE DEF Init, DriverInit, HostInit
<1>1. TypeOK
  BY InitType
<1>2. /\ DOMAIN evq = {1}
      /\ evq[1].session = 1 /\ evq[1].kind = "offer"
      /\ pc.id = 1 /\ pc.up = FALSE
  BY DEF FreshPc
<1>3. Order
  BY <1>2 DEF Order
<1>4. Source
  BY <1>2 DEF Source
<1>5. Known
  BY <1>2 DEF Known, Session
<1>6. Honest
  BY <1>2 DEF Honest
<1>7. Gate /\ Reported /\ ViewOnlyHoldsNothing
  BY DEF Gate, Reported, ActiveIsReported, ViewOnlyHoldsNothing
<1> QED
  BY <1>1, <1>3, <1>4, <1>5, <1>6, <1>7 DEF Inv

\* A driver step preserves the parts that speak of the event queue, and takes
\* no viewer from a connection that has one.
LEMMA DriverStepInv ==
  ASSUME Inv, DriverStep
  PROVE  /\ Order' /\ Source' /\ Known' /\ Honest'
         /\ \A n \in Session : peer[n] \in Viewers => peer'[n] = peer[n]
<1>0. /\ UNCHANGED hostSession
      /\ pc \in [id : Session, negotiated : BOOLEAN, up : BOOLEAN, rebuild : BOOLEAN]
      /\ peer \in [Session -> Viewers \cup {NoOne}]
      /\ pc.id \in Session
  BY DEF DriverStep, hostVars, Inv, TypeOK, DriverTypeOK
<1>00. pc' \in [id : Session, negotiated : BOOLEAN, up : BOOLEAN, rebuild : BOOLEAN]
  BY DriverStepType DEF Inv, TypeOK, DriverTypeOK
<1>1. CASE TakeAnswer
  <2>1. /\ UNCHANGED evq
        /\ ~pc.negotiated
        /\ pc'.id = pc.id /\ pc'.up = pc.up /\ pc'.negotiated
        /\ Head(cmdq) \in Commands
    BY <1>0, <1>1, TakeType DEF TakeAnswer, Inv, TypeOK
  <2>2. peer[pc.id] = NoOne
    BY <2>1 DEF Inv, Known
  <2>3. \A n \in Session : n # pc.id => peer'[n] = peer[n]
    BY <1>0, <1>1 DEF TakeAnswer
  <2>4. ~pc.up
    BY <2>2 DEF Inv, Known
  <2>5. \A n \in Session : peer[n] \in Viewers => peer'[n] = peer[n]
    BY <2>2, <2>3
  <2>6. \A i \in DOMAIN evq : evq[i].session \in Session
    <3>1. \A i \in DOMAIN evq : evq[i] \in Events
      BY DEF Inv, TypeOK, DriverTypeOK
    <3> QED
      BY <3>1 DEF Events
  <2>7. Order' /\ Source'
    BY <1>0, <2>1 DEF Inv, Order, Source
  <2>8. Known'
    BY <1>0, <2>1, <2>3, <2>4, <2>5, <2>6 DEF Inv, Known, Session
  <2>9. Honest'
    BY <2>1, <2>5, <2>6 DEF Inv, Known, Honest, MaySend
  <2> QED
    BY <2>5, <2>7, <2>8, <2>9
<1>2. CASE \/ RefuseAnswer \/ TakeSecondAnswer \/ TakeRestart \/ TakeAck \/ TakeVideo
  <2>1. /\ UNCHANGED <<evq, peer>>
        /\ pc'.id = pc.id /\ pc'.up = pc.up /\ pc'.negotiated = pc.negotiated
    BY <1>0, <1>2 DEF RefuseAnswer, TakeSecondAnswer, TakeRestart, TakeAck, TakeVideo, Take
  <2> QED
    BY <1>0, <2>1, QuietStep
<1>3. CASE CommandsDrained \/ BuildFails \/ ReadFails \/ EventsDrained \/ NextPass
  <2>1. UNCHANGED <<evq, peer, pc>>
    BY <1>3 DEF CommandsDrained, BuildFails, ReadFails, Exit, EventsDrained, NextPass
  <2> QED
    BY <1>0, <2>1, QuietStep
<1>4. CASE Rebuild
  <2> DEFINE e == [kind |-> "offer", session |-> pc.id + 1, msg |-> NoMessage]
  <2>1. /\ pc.id + 1 \in Session
        /\ pc'.id = pc.id + 1 /\ pc'.up = FALSE
        /\ UNCHANGED peer
        /\ Emit(e)
    BY <1>0, <1>4 DEF Rebuild, EmitOffer, FreshPc, Session
  <2>2. e \in Events /\ e.session = pc'.id /\ e.kind = "offer"
    BY <2>1 DEF Events
  <2>3. peer[pc'.id] = NoOne
    BY <1>0, <2>1 DEF Inv, Known, Session
  <2>4. pc.id <= pc'.id
    BY <1>0, <2>1 DEF Session
  <2> HIDE DEF e
  <2> QED
    BY <1>0, <1>00, <2>1, <2>2, <2>3, <2>4, EmitStep
<1>5. CASE Connect
  <2>1. /\ pc'.id = pc.id /\ pc'.negotiated = pc.negotiated
        /\ UNCHANGED peer
        /\ peer[pc.id] \in Viewers
        /\ Emit(Event("connected"))
    BY <1>0, <1>5 DEF Connect
  <2>2. /\ Event("connected") \in Events
        /\ Event("connected").session = pc'.id
        /\ Event("connected").kind = "connected"
    BY <1>0, <2>1 DEF Event, Events
  <2>3. pc.id <= pc'.id /\ (peer[pc'.id] # NoOne => pc'.negotiated)
    BY <1>0, <2>1 DEF Inv, Known, Session
  <2> QED
    BY <1>0, <1>00, <2>1, <2>2, <2>3, EmitStep
<1>6. CASE Lost
  <2>1. /\ pc'.id = pc.id /\ pc'.negotiated = pc.negotiated /\ pc'.up = FALSE
        /\ UNCHANGED peer
        /\ Emit(Event("disconnected"))
    BY <1>0, <1>6 DEF Lost
  <2>2. /\ Event("disconnected") \in Events
        /\ Event("disconnected").session = pc'.id
        /\ Event("disconnected").kind = "disconnected"
    BY <1>0, <2>1 DEF Event, Events
  <2>3. pc.id <= pc'.id /\ (peer[pc'.id] # NoOne => pc'.negotiated)
    BY <1>0, <2>1 DEF Inv, Known, Session
  <2> QED
    BY <1>0, <1>00, <2>1, <2>2, <2>3, EmitStep
<1>7. CASE ReceivePictureLoss
  <2>1. /\ UNCHANGED <<pc, peer>> /\ pc.up
        /\ Emit(Event("keyframe"))
    BY <1>7 DEF ReceivePictureLoss
  <2>2. /\ Event("keyframe") \in Events
        /\ Event("keyframe").session = pc'.id
        /\ Event("keyframe").kind = "keyframe"
    BY <1>0, <2>1 DEF Event, Events
  <2>3. /\ pc.id <= pc'.id
        /\ peer[pc'.id] # NoOne => pc'.negotiated
        /\ peer[pc.id] \in Viewers
    BY <1>0, <2>1 DEF Inv, Known, Session
  <2> QED
    BY <1>0, <1>00, <2>1, <2>2, <2>3, EmitStep
<1>8. ASSUME NEW m \in Traffic, MaySend(peer[pc.id], m), Receive(m)
      PROVE  /\ Order' /\ Source' /\ Known' /\ Honest'
             /\ \A n \in Session : peer[n] \in Viewers => peer'[n] = peer[n]
  <2> DEFINE e == [kind |-> "data", session |-> pc.id, msg |-> m]
  <2>1. /\ UNCHANGED <<pc, peer>> /\ pc.up
        /\ Emit(e)
    BY <1>8 DEF Receive
  <2>2. e \in Events /\ e.session = pc'.id /\ e.kind = "data" /\ e.msg = m
    BY <1>0, <2>1 DEF Events
  <2>3. /\ pc.id <= pc'.id
        /\ peer[pc'.id] # NoOne => pc'.negotiated
        /\ peer[pc.id] \in Viewers
    BY <1>0, <2>1 DEF Inv, Known, Session
  <2> HIDE DEF e
  <2> QED
    BY <1>0, <1>00, <1>8, <2>1, <2>2, <2>3, EmitStep
<1> QED
  BY <1>1, <1>2, <1>3, <1>4, <1>5, <1>6, <1>7, <1>8
     DEF DriverStep, DriverPump, DriverInput

\* What handling a control message of connection s does to the parts of the
\* invariant that speak of the gate, the keys and the reported status.
LEMMA ControlInv ==
  ASSUME Inv, NEW m \in Messages \cup {NoMessage}, NEW s \in Session,
         HandleControl(m, s), UNCHANGED <<peer, hostSession>>,
         hostSession = s, peer[s] \in Viewers, MaySend(peer[s], m),
         IF authorized' /\ ~wasAuthorized
           THEN wasAuthorized' = TRUE /\ status' = "active"
           ELSE UNCHANGED <<wasAuthorized, status>>
  PROVE  Gate' /\ Reported' /\ ViewOnlyHoldsNothing'
<1> USE DEF Reported, ActiveIsReported, ViewOnlyHoldsNothing
<1>0. Gate /\ Reported /\ ViewOnlyHoldsNothing
  BY DEF Inv
<1>1. CASE HelloRejected(m, s) \/ HelloThrottled(m, s) \/ HelloWrongPassword(m, s)
  <2>1. authorized' = FALSE /\ UNCHANGED <<viewOnly, held, capturing, accepted>>
    BY <1>1 DEF HelloRejected, HelloThrottled, HelloWrongPassword
  <2> QED
    BY <1>0, <2>1 DEF Gate
<1>2. CASE HelloAccepted(m, s)
  <2>1. authorized' = TRUE /\ accepted' = s /\ UNCHANGED <<viewOnly, held>>
    BY <1>2 DEF HelloAccepted
  <2>2. Admitted(peer[s])
    BY <1>2 DEF HelloAccepted, Decision, PasswordVerified, MaySend, Admitted
  <2>3. Gate'
    BY <2>1, <2>2 DEF Gate, Admitted
  <2>4. wasAuthorized' /\ status' = "active"
    BY <1>0, <2>1
  <2> QED
    BY <1>0, <2>1, <2>3, <2>4
<1>3. CASE Dropped(m) \/ Release(m) \/ RefreshVideo(m) \/ Other(m)
  <2>1. /\ UNCHANGED <<authorized, viewOnly, capturing, accepted>>
        /\ held' \subseteq held
    BY <1>3 DEF Dropped, Release, RefreshVideo, Other
  <2> QED
    BY <1>0, <2>1 DEF Gate, Admitted
<1>4. CASE Press(m)
  BY <1>0, <1>4 DEF Press, Gate, Admitted
<1>5. CASE ToggleViewOnly(m)
  BY <1>0, <1>5 DEF ToggleViewOnly, HeldAfterToggle, Gate, Admitted
<1> QED
  BY <1>1, <1>2, <1>3, <1>4, <1>5 DEF HandleControl

\* The data event at the head of the queue is of the connection the host loop
\* saw connect last, and its sender is a viewer that may send it.
LEMMA HeadData ==
  ASSUME Inv, Handle("data")
  PROVE  /\ Head(evq) \in Events
         /\ Head(evq).session = hostSession
         /\ peer[Head(evq).session] \in Viewers
         /\ MaySend(peer[Head(evq).session], Head(evq).msg)
<1>1. evq \in Seq(Events) /\ evq # << >> /\ Head(evq).kind = "data"
  BY DEF Inv, TypeOK, DriverTypeOK, Handle
<1>2. 1 \in DOMAIN evq /\ Head(evq) = evq[1] /\ DOMAIN evq = 1 .. Len(evq) /\ Head(evq) \in Events
  BY <1>1, HeadTail
<1>3. Announced(hostSession, evq, evq[1].session, 1)
  BY <1>1, <1>2 DEF Inv, Source
<1>4. \A j \in DOMAIN evq : ~(j < 1)
  BY <1>1, <1>2
<1> QED
  BY <1>1, <1>2, <1>3, <1>4 DEF Announced, Inv, Known, Honest

\* A step of the host loop preserves the invariant.
LEMMA HostLoopInv ==
  ASSUME Inv, HostLoop
  PROVE  Inv'
<1>0. TypeOK'
  BY HostLoopType DEF Inv
<1> USE DEF Reported, ActiveIsReported, ViewOnlyHoldsNothing
<1>a. Gate /\ Reported /\ ViewOnlyHoldsNothing
  BY DEF Inv
<1>1. CASE HandleOffer
  <2>1. Order' /\ Source' /\ Known' /\ Honest'
    BY <1>1, HandleStep DEF HandleOffer
  <2>2. UNCHANGED <<peer, authorized, wasAuthorized, viewOnly, held, capturing,
                    status, hostSession, accepted>>
    BY <1>1 DEF HandleOffer, Handle
  <2> QED
    BY <1>0, <1>a, <2>1, <2>2 DEF Inv, Gate, Admitted
<1>2. CASE HandleConnected
  <2>1. Order' /\ Source' /\ Known' /\ Honest'
    BY <1>2, HandleStep DEF HandleConnected
  <2>2. /\ authorized' = FALSE /\ wasAuthorized' = FALSE /\ viewOnly' = FALSE
        /\ UNCHANGED <<held, capturing, status>>
    BY <1>2 DEF HandleConnected, ResetGate
  <2> QED
    BY <1>0, <1>a, <2>1, <2>2 DEF Inv, Gate
<1>3. CASE HandleDisconnected
  <2>1. Order' /\ Source' /\ Known' /\ Honest'
    BY <1>3, HandleStep DEF HandleDisconnected
  <2>2. /\ authorized' = FALSE /\ wasAuthorized' = FALSE /\ viewOnly' = FALSE
        /\ held' = {} /\ capturing' = FALSE
    BY <1>3 DEF HandleDisconnected, ResetGate, WindUp
  <2> QED
    BY <1>0, <2>1, <2>2 DEF Inv, Gate
<1>4. CASE HandleKeyframeRequested
  <2>1. Order' /\ Source' /\ Known' /\ Honest'
    BY <1>4, HandleStep DEF HandleKeyframeRequested
  <2>2. UNCHANGED <<peer, authorized, wasAuthorized, viewOnly, held, capturing,
                    status, hostSession, accepted>>
    BY <1>4 DEF HandleKeyframeRequested, Handle
  <2> QED
    BY <1>0, <1>a, <2>1, <2>2 DEF Inv, Gate, Admitted
<1>5. CASE HandleData
  <2> DEFINE m == Head(evq).msg
             s == Head(evq).session
  <2>1. /\ Handle("data")
        /\ HandleControl(m, s)
        /\ UNCHANGED <<peer, hostSession>>
        /\ IF authorized' /\ ~wasAuthorized
             THEN wasAuthorized' = TRUE /\ status' = "active"
             ELSE UNCHANGED <<wasAuthorized, status>>
    BY <1>5 DEF HandleData, Handle
  <2>2. Order' /\ Source' /\ Known' /\ Honest'
    BY <2>1, HandleStep
  <2>3. /\ m \in Messages \cup {NoMessage} /\ s \in Session
        /\ hostSession = s /\ peer[s] \in Viewers /\ MaySend(peer[s], m)
    BY <2>1, HeadData DEF Events
  <2> HIDE DEF m, s
  <2>4. Gate' /\ Reported' /\ ViewOnlyHoldsNothing'
    BY <2>1, <2>3, ControlInv
  <2> QED
    BY <1>0, <2>2, <2>4 DEF Inv
<1> QED
  BY <1>1, <1>2, <1>3, <1>4, <1>5 DEF HostLoop

\* Every step preserves the invariant.
LEMMA StepInv ==
  ASSUME Inv, [Next]_vars
  PROVE  Inv'
<1>0. TypeOK'
  BY StepType DEF Inv
<1>a. Gate /\ Reported /\ ViewOnlyHoldsNothing
  BY DEF Inv
<1>1. CASE DriverStep
  <2>1. /\ Order' /\ Source' /\ Known' /\ Honest'
        /\ \A n \in Session : peer[n] \in Viewers => peer'[n] = peer[n]
    BY <1>1, DriverStepInv
  <2>2. UNCHANGED hostVars
    BY <1>1 DEF DriverStep
  <2>3. Gate'
    <3> SUFFICES ASSUME authorized 
                 PROVE  accepted = hostSession /\ accepted \in Session /\ Admitted(peer'[accepted])
      BY <2>2 DEF hostVars, Gate, Admitted
    <3>1. accepted = hostSession /\ accepted \in Session /\ Admitted(peer[accepted])
      BY <1>a DEF Gate
    <3> QED
      BY <2>1, <3>1 DEF Admitted
  <2> QED
    BY <1>0, <1>a, <2>1, <2>2, <2>3
       DEF hostVars, Inv, Reported, ActiveIsReported, ViewOnlyHoldsNothing
<1>2. CASE HostLoop
  BY <1>2, HostLoopInv
<1>3. CASE \/ \E v \in Viewers, s \in Session : FeedAnswer(v, s)
           \/ PeerSwitched \/ LockoutEnds \/ CaptureFrame \/ TakeFrame \/ FinishFrame
           \/ UNCHANGED vars
  <2>1. UNCHANGED <<evq, peer, pc, hostSession, authorized, wasAuthorized, viewOnly,
                    held, capturing, status, accepted>>
    BY <1>3 DEF FeedAnswer, PeerSwitched, LockoutEnds, CaptureFrame, TakeFrame,
                FinishFrame, vars, driverVars, hostVars
  <2>2. Order' /\ Source' /\ Known' /\ Honest'
    BY <2>1, QuietStep
  <2> QED
    BY <1>0, <1>a, <2>1, <2>2
       DEF Inv, Gate, Admitted, Reported, ActiveIsReported, ViewOnlyHoldsNothing
<1> QED
  BY <1>1, <1>2, <1>3 DEF Next

\* The invariant of the host session holds in every reachable state.
THEOREM Invariance == Spec => []Inv
  BY InitInv, StepInv, PTL DEF Spec

-----------------------------------------------------------------------------
(* The properties.                                                          *)

\* Nobody is authorized, captured for or holds a key unless "active" is the last
\* status reported (HostStatus, which the watchdog and the TURN refresh rely on).
THEOREM ReportedActive == Spec => []ActiveIsReported
<1>1. Inv => ActiveIsReported
  BY DEF Inv, Reported
<1> QED
  BY <1>1, Invariance, PTL

\* No key is down while the session is view-only (handle_control, ViewOnly).
THEOREM ViewOnlySafe == Spec => []ViewOnlyHoldsNothing
<1>1. Inv => ViewOnlyHoldsNothing
  BY DEF Inv
<1> QED
  BY <1>1, Invariance, PTL

\* The authorized viewer is the one of the connection the host loop saw connect
\* last, and is within the access policy (AccessControl, connect password).
THEOREM AuthorizationCurrent == Spec => []AuthorizedIsCurrent
<1>1. Inv => AuthorizedIsCurrent
  BY DEF Inv, Gate, AuthorizedIsCurrent
<1> QED
  BY <1>1, Invariance, PTL

\* Only the host loop takes events.
LEMMA OnlyHostLoopTakes ==
  ASSUME TypeOK, [Next]_vars, evq # << >>, evq' = Tail(evq)
  PROVE  HostLoop
<1>1. evq \in Seq(Events) /\ Len(evq') = Len(evq) - 1 /\ Len(evq) \in Nat
  BY HeadTail DEF TypeOK, DriverTypeOK
<1>2. evq' # evq
  BY TailIsShorter DEF TypeOK, DriverTypeOK
<1>3. ~DriverStep
  <2>1. ASSUME NEW e, Emit(e) PROVE FALSE
    BY <1>1, <2>1 DEF Emit
  <2>2. ASSUME NEW m \in Traffic, Receive(m) PROVE FALSE
    BY <2>1, <2>2 DEF Receive
  <2>3. ~(Rebuild \/ Connect \/ Lost \/ ReceivePictureLoss)
    BY <2>1 DEF Rebuild, EmitOffer, Connect, Lost, ReceivePictureLoss
  <2>4. ~(\/ TakeAnswer \/ RefuseAnswer \/ TakeSecondAnswer \/ TakeRestart
          \/ TakeAck \/ TakeVideo)
    BY <1>2 DEF TakeAnswer, RefuseAnswer, TakeSecondAnswer, TakeRestart, TakeAck,
                TakeVideo, Take
  <2>5. ~(\/ CommandsDrained \/ BuildFails \/ ReadFails \/ EventsDrained \/ NextPass)
    BY <1>2 DEF CommandsDrained, BuildFails, ReadFails, Exit, EventsDrained, NextPass
  <2> QED
    BY <2>2, <2>3, <2>4, <2>5 DEF DriverStep, DriverPump, DriverInput
<1> QED
  BY <1>2, <1>3 DEF Next, FeedAnswer, PeerSwitched, LockoutEnds, CaptureFrame,
                    TakeFrame, FinishFrame, vars, driverVars, hostVars

\* Every message the host acts on came over the connection it accepted, from a
\* viewer within the access policy (the authorization gate of handle_control).
THEOREM Obedience == Spec => ObeysOnlyTheAccepted
<1>1. Inv /\ [Next]_vars => [Obeys]_vars
  <2> SUFFICES ASSUME Inv, [Next]_vars, evq # << >>, ActsOn(Head(evq))
               PROVE  Head(evq).session = accepted /\ Admitted(peer[accepted])
    BY DEF Obeys
  <2> USE DEF ActsOn
  <2>1. HostLoop
    BY OnlyHostLoopTakes DEF Inv
  <2>2. HandleData
    BY <2>1 DEF HostLoop, HandleOffer, HandleConnected, HandleDisconnected,
                HandleKeyframeRequested, Handle
  <2>3. Head(evq).session = hostSession
    BY <2>2, HeadData DEF HandleData
  <2>4. HandleControl(Head(evq).msg, Head(evq).session) /\ Head(evq).msg.type \notin Hellos
    BY <2>2 DEF HandleData
  <2>5. authorized
    BY <2>4 DEF HandleControl, HelloRejected, HelloThrottled, HelloWrongPassword,
                HelloAccepted, Dropped, Press, Release, ToggleViewOnly, RefreshVideo, Other
  <2> QED
    BY <2>3, <2>5 DEF Inv, Gate
<1> QED
  BY <1>1, Invariance, PTL DEF Spec, ObeysOnlyTheAccepted

-----------------------------------------------------------------------------
(* The verdicts.  A host loop that is still busy with an old connection's   *)
(* messages has not seen the new one's offer, so nobody can have answered   *)
(* that one: by the time the new connection can come up, every verdict in   *)
(* front of its answer has been dropped.                                    *)

\* An offer reaches the host loop in its turn, and only then it is answered.
Offering ==
  /\ offered <= pc.id
  /\ \A i \in DOMAIN evq : offered <= evq[i].session
  /\ \A n \in Session : peer[n] # NoOne => n <= offered
  /\ \A i \in DOMAIN cmdq : cmdq[i].kind = "answer" => cmdq[i].session <= offered

\* Nothing in the event queue is older than the last accepted connection.
Accepting ==
  /\ accepted <= pc.id
  /\ \A i \in DOMAIN evq : accepted <= evq[i].session

\* No answer to the present offer was taken, or is ahead of the k-th command.
Unanswered(k) ==
  /\ peer[pc.id] = NoOne
  /\ \A j \in DOMAIN cmdq :
       j < k => ~(cmdq[j].kind = "answer" /\ cmdq[j].session = pc.id)

Welcome(c) == c.kind = "ack" /\ c.verdict = "accept"

\* An acceptance under way is for the present connection, or is dropped before
\* that one can come up.
Verdict ==
  /\ AckReachesItsViewer
  /\ \A i \in DOMAIN cmdq : Welcome(cmdq[i]) => accepted = pc.id \/ Unanswered(i)

AckInv == Inv /\ Offering /\ Accepting /\ Verdict

\* The types AckInv compares: all of them numbers.
LEMMA AckTypes ==
  ASSUME TypeOK
  PROVE  /\ pc.id \in Session /\ pc.id \in Nat
         /\ offered \in Nat /\ accepted \in Nat
         /\ \A i \in DOMAIN evq : evq[i].session \in Session /\ evq[i].session \in Nat
         /\ \A i \in DOMAIN cmdq : cmdq[i].session \in Nat
         /\ DOMAIN cmdq = 1 .. Len(cmdq) /\ Len(cmdq) \in Nat
         /\ peer \in [Session -> Viewers \cup {NoOne}]
<1>1. /\ pc.id \in Session
      /\ peer \in [Session -> Viewers \cup {NoOne}]
      /\ evq \in Seq(Events) /\ cmdq \in Seq(Commands)
      /\ offered \in 0 .. MaxSession /\ accepted \in 0 .. MaxSession
  BY DEF TypeOK, DriverTypeOK, HostTypeOK
<1>2. \A i \in DOMAIN evq : evq[i] \in Events
  BY <1>1
<1>3. \A i \in DOMAIN evq : evq[i].session \in Session
  BY <1>2 DEF Events
<1>4. \A i \in DOMAIN cmdq : cmdq[i] \in Commands
  BY <1>1
<1>5. \A i \in DOMAIN cmdq : cmdq[i].session \in 0 .. MaxSession
  BY <1>4 DEF Commands
<1> QED
  BY <1>1, <1>3, <1>5 DEF Session

\* A send leaves the commands under way where they are.
LEMMA SendKeeps ==
  ASSUME TypeOK, NEW c \in Commands, Send(c) \/ UNCHANGED cmdq
  PROVE  \A i \in DOMAIN cmdq' :
            \/ cmdq'[i] = c
            \/ i \in DOMAIN cmdq /\ \A j \in DOMAIN cmdq' :
                                      j <= i => j \in DOMAIN cmdq /\ cmdq'[j] = cmdq[j]
<1>1. cmdq \in Seq(Commands)
  BY DEF TypeOK, DriverTypeOK
<1>2. CASE UNCHANGED cmdq
  BY <1>1, <1>2
<1>3. CASE cmdq' = Append(cmdq, c)
  BY <1>1, <1>3
<1> QED
  BY <1>2, <1>3 DEF Send

\* A step that neither accepts nor brings a connection up, and sends at most one
\* command, which is no acceptance and answers no offer but one the loop has seen.
LEMMA AckKept ==
  ASSUME AckInv, TypeOK', UNCHANGED <<peer, told, accepted>>, pc'.id = pc.id,
         offered <= offered', offered' <= pc.id,
         \A i \in DOMAIN evq' : offered' <= evq'[i].session /\ accepted <= evq'[i].session,
         NEW c \in Commands, Send(c) \/ UNCHANGED cmdq,
         ~Welcome(c), c.kind = "answer" => c.session <= offered'
  PROVE  Offering' /\ Accepting' /\ Verdict'
<1>0. Inv /\ TypeOK
  BY DEF AckInv, Inv
<1>00. offered' \in Nat /\ DOMAIN cmdq' \subseteq Nat
  BY DEF TypeOK, DriverTypeOK, HostTypeOK
<1>1. Offering'
  <2>1. ASSUME NEW n \in Session, peer[n] # NoOne PROVE n <= offered'
    <3>1. n <= offered
      BY <2>1 DEF AckInv, Offering
    <3> QED
      BY <1>0, <1>00, <3>1, AckTypes DEF Session
  <2>2. ASSUME NEW i \in DOMAIN cmdq', cmdq'[i].kind = "answer"
        PROVE  cmdq'[i].session <= offered'
    <3>1. CASE cmdq'[i] = c
      BY <2>2, <3>1
    <3>2. CASE i \in DOMAIN cmdq /\ cmdq'[i] = cmdq[i]
      <4>1. cmdq[i].session <= offered
        BY <2>2, <3>2 DEF AckInv, Offering
      <4> QED
        BY <1>0, <1>00, <3>2, <4>1, AckTypes
    <3>3. i <= i
      BY <1>00
    <3> QED
      BY <1>0, <2>2, <3>1, <3>2, <3>3, SendKeeps
  <2> QED
    BY <2>1, <2>2 DEF Offering
<1>2. Accepting'
  BY DEF AckInv, Accepting
<1>3. Verdict'
  <2>1. AckReachesItsViewer'
    BY DEF AckInv, Verdict, AckReachesItsViewer
  <2>2. ASSUME NEW i \in DOMAIN cmdq', Welcome(cmdq'[i])
        PROVE  (accepted = pc.id \/ Unanswered(i))'
    <3>1. i \in DOMAIN cmdq /\ \A j \in DOMAIN cmdq' :
                                  j <= i => j \in DOMAIN cmdq /\ cmdq'[j] = cmdq[j]
      BY <1>0, <2>2, SendKeeps
    <3>2. i <= i /\ \A j \in DOMAIN cmdq' : j < i => j <= i
      BY <1>00
    <3>3. Welcome(cmdq[i])
      BY <2>2, <3>1, <3>2
    <3>4. accepted = pc.id \/ Unanswered(i)
      BY <3>1, <3>3 DEF AckInv, Verdict
    <3> QED
      BY <3>1, <3>2, <3>4 DEF Unanswered
  <2> QED
    BY <2>1, <2>2 DEF Verdict
<1> QED
  BY <1>1, <1>2, <1>3

\* The driver takes a command: those behind it move up.
LEMMA TakeKeeps ==
  ASSUME TypeOK, NEW kind, Take(kind)
  PROVE  /\ Head(cmdq) = cmdq[1] /\ 1 \in DOMAIN cmdq
         /\ \A i \in DOMAIN cmdq' : /\ i \in Nat /\ i + 1 \in DOMAIN cmdq /\ 1 < i + 1
                                    /\ cmdq'[i] = cmdq[i + 1]
  BY HeadTail DEF TypeOK, DriverTypeOK, Take

\* Taking a command: an acceptance that the connection, being up, lets through
\* has none of its answers behind it, so it is for the viewer that is up.
LEMMA AckTaken ==
  ASSUME AckInv, TypeOK', UNCHANGED hostVars,
         TakeAnswer \/ RefuseAnswer \/ TakeSecondAnswer \/ TakeRestart \/ TakeAck \/ TakeVideo
  PROVE  Offering' /\ Accepting' /\ Verdict'
<1>0. Inv /\ TypeOK
  BY DEF AckInv, Inv
<1>1. PICK kind : Take(kind)
  BY DEF TakeAnswer, RefuseAnswer, TakeSecondAnswer, TakeRestart, TakeAck, TakeVideo
<1>2. /\ pc'.id = pc.id
      /\ UNCHANGED <<evq, offered, accepted>>
  <2>1. pc \in [id : Session, negotiated : BOOLEAN, up : BOOLEAN, rebuild : BOOLEAN]
    BY <1>0 DEF TypeOK, DriverTypeOK
  <2> QED
    BY <2>1 DEF Take, TakeAnswer, RefuseAnswer, TakeSecondAnswer, TakeRestart, TakeAck,
                TakeVideo, hostVars
<1>3. \/ UNCHANGED peer
      \/ /\ Head(cmdq).kind = "answer" /\ Head(cmdq).session = pc.id
         /\ \A n \in Session : n # pc.id => peer'[n] = peer[n]
  BY <1>0, AckTypes DEF Take, TakeAnswer, AnswersPresentOffer, RefuseAnswer,
                        TakeSecondAnswer, TakeRestart, TakeAck, TakeVideo
<1>4. \A i \in DOMAIN cmdq' : Welcome(cmdq'[i]) =>
          accepted = pc.id \/ Unanswered(i + 1)
  BY <1>0, <1>1, TakeKeeps DEF AckInv, Verdict
<1>5. Offering'
  <2>1. ASSUME NEW n \in Session, peer'[n] # NoOne PROVE n <= offered
    BY <1>0, <1>1, <1>3, <2>1, TakeKeeps DEF AckInv, Offering
  <2>2. \A i \in DOMAIN cmdq' : cmdq'[i].kind = "answer" => cmdq'[i].session <= offered
    BY <1>0, <1>1, TakeKeeps DEF AckInv, Offering
  <2> QED
    BY <1>2, <2>1, <2>2 DEF AckInv, Offering
<1>6. Accepting'
  BY <1>2 DEF AckInv, Accepting
<1>7. AckReachesItsViewer'
  <2>1. CASE told' = told
    BY <1>2, <2>1 DEF AckInv, Verdict, AckReachesItsViewer
  <2>2. CASE told' # told
    <3>1. pc.up /\ told' = Head(cmdq).verdict /\ Head(cmdq).kind = "ack"
      BY <2>2 DEF Take, TakeAnswer, RefuseAnswer, TakeSecondAnswer, TakeRestart, TakeAck,
                  TakeVideo
    <3>2. peer[pc.id] # NoOne
      BY <1>0, <3>1 DEF Inv, Known
    <3>3. told' = "accept" => accepted = pc.id
      BY <1>0, <1>1, <3>1, <3>2, TakeKeeps DEF AckInv, Verdict, Welcome, Unanswered
    <3> QED
      BY <1>2, <3>3 DEF AckReachesItsViewer
  <2> QED
    BY <2>1, <2>2
<1>8. ASSUME NEW i \in DOMAIN cmdq', Welcome(cmdq'[i])
      PROVE  (accepted = pc.id \/ Unanswered(i))'
  <2>1. CASE UNCHANGED peer
    <3>1. \A j \in DOMAIN cmdq' : j < i => /\ j + 1 \in DOMAIN cmdq /\ j + 1 < i + 1
                                           /\ cmdq'[j] = cmdq[j + 1]
      BY <1>0, <1>1, <1>8, TakeKeeps
    <3> QED
      BY <1>2, <1>4, <1>8, <2>1, <3>1 DEF Unanswered
  <2>2. CASE Head(cmdq).kind = "answer" /\ Head(cmdq).session = pc.id
    <3>1. ~Unanswered(i + 1)
      BY <1>0, <1>1, <1>8, <2>2, TakeKeeps DEF Unanswered
    <3> QED
      BY <1>2, <1>4, <1>8, <3>1
  <2> QED
    BY <1>3, <2>1, <2>2
<1>9. Verdict'
  BY <1>7, <1>8 DEF Verdict
<1> QED
  BY <1>5, <1>6, <1>9

\* A step that appends an event of the present connection, as it comes up, is lost
\* or is read.
LEMMA AckEmitted ==
  ASSUME AckInv, TypeOK', UNCHANGED <<peer, told, cmdq, offered, accepted>>, pc'.id = pc.id,
         NEW e \in Events, Emit(e), e.session = pc.id
  PROVE  Offering' /\ Accepting' /\ Verdict'
<1>0. Inv /\ TypeOK
  BY DEF AckInv, Inv
<1>1. \A i \in DOMAIN evq' : \/ i \in DOMAIN evq /\ evq'[i] = evq[i]
                             \/ evq'[i] = e
  BY <1>0 DEF Emit, TypeOK, DriverTypeOK
<1>2. Offering'
  BY <1>1 DEF AckInv, Offering
<1>3. Accepting'
  BY <1>1 DEF AckInv, Accepting
<1>4. Verdict'
  BY DEF AckInv, Verdict, AckReachesItsViewer, Unanswered
<1> QED
  BY <1>2, <1>3, <1>4

\* The next connection: nobody was told anything on it, and nobody has answered
\* its offer, which the loop has yet to see.
LEMMA AckRebuilt ==
  ASSUME AckInv, TypeOK', UNCHANGED hostVars, Rebuild
  PROVE  Offering' /\ Accepting' /\ Verdict'
<1>0. Inv /\ TypeOK
  BY DEF AckInv, Inv
<1> DEFINE e == [kind |-> "offer", session |-> pc.id + 1, msg |-> NoMessage]
<1>1. /\ pc'.id = pc.id + 1 /\ told' = "none"
      /\ UNCHANGED <<peer, cmdq, offered, accepted>>
      /\ Emit(e) /\ e.session = pc.id + 1
      /\ pc.id + 1 \in Session
  BY <1>0, AckTypes DEF Rebuild, EmitOffer, FreshPc, hostVars, Session
<1> HIDE DEF e
<1>2. \A i \in DOMAIN evq' : \/ i \in DOMAIN evq /\ evq'[i] = evq[i]
                             \/ evq'[i] = e
  BY <1>0, <1>1 DEF Emit, TypeOK, DriverTypeOK
<1>3. Offering'
  <2>1. offered <= pc.id + 1
    BY <1>0, AckTypes DEF AckInv, Offering
  <2> QED
    BY <1>1, <1>2, <2>1 DEF AckInv, Offering
<1>4. Accepting'
  <2>1. accepted <= pc.id + 1
    BY <1>0, AckTypes DEF AckInv, Accepting
  <2> QED
    BY <1>1, <1>2, <2>1 DEF AckInv, Accepting
<1>5. peer[pc.id + 1] = NoOne
  BY <1>0, <1>1, AckTypes DEF Inv, Known
<1>6. \A j \in DOMAIN cmdq : cmdq[j].kind = "answer" => cmdq[j].session # pc.id + 1
  BY <1>0, AckTypes DEF AckInv, Offering
<1>7. Verdict'
  BY <1>1, <1>5, <1>6 DEF Verdict, AckReachesItsViewer, Unanswered
<1> QED
  BY <1>3, <1>4, <1>7

\* The host loop accepts a Hello.  It came with the present connection, or with an
\* older one whose successor nobody can have answered yet.
LEMMA AckSent ==
  ASSUME AckInv, TypeOK', UNCHANGED <<pc, peer, told, offered>>,
         evq # << >>, evq' = Tail(evq), accepted' = Head(evq).session, Ack("accept")
  PROVE  Offering' /\ Accepting' /\ Verdict'
<1> DEFINE s == Head(evq).session
           c == [Command("ack") EXCEPT !.verdict = "accept"]
<1>0. Inv /\ TypeOK
  BY DEF AckInv, Inv
<1>1. /\ Head(evq) = evq[1] /\ 1 \in DOMAIN evq
      /\ \A i \in DOMAIN evq' : i + 1 \in DOMAIN evq /\ 1 < i + 1 /\ evq'[i] = evq[i + 1]
  BY <1>0, HeadTail DEF TypeOK, DriverTypeOK
<1>2. /\ offered <= s /\ accepted <= s /\ s <= pc.id
      /\ \A i \in DOMAIN evq' : s <= evq'[i].session /\ offered <= evq'[i].session
  BY <1>1 DEF AckInv, Offering, Accepting, Inv, Order
<1>3. s \in Nat
  BY <1>0, <1>1, AckTypes
<1>4. c \in Commands /\ c.kind = "ack" /\ (Send(c) \/ UNCHANGED cmdq)
  BY DEF Ack, Command, Commands, Verdicts
<1> HIDE DEF s, c
<1>5. accepted' = s /\ UNCHANGED <<pc, peer, offered>>
  BY DEF s
<1>6. DOMAIN cmdq' \subseteq Nat
  BY DEF TypeOK, DriverTypeOK
<1>7. Offering'
  <2>1. ASSUME NEW i \in DOMAIN cmdq', cmdq'[i].kind = "answer"
        PROVE  cmdq'[i].session <= offered
    <3>1. i <= i
      BY <1>6
    <3> QED
      BY <1>0, <1>4, <2>1, <3>1, SendKeeps DEF AckInv, Offering
  <2> QED
    BY <1>2, <1>5, <2>1 DEF AckInv, Offering
<1>8. Accepting'
  BY <1>2, <1>5 DEF Accepting
<1>9. CASE s = pc.id
  BY <1>5, <1>7, <1>8, <1>9 DEF Verdict, AckReachesItsViewer
<1>10. CASE s # pc.id
  <2>1. offered < pc.id /\ accepted # pc.id
    BY <1>0, <1>2, <1>3, <1>10, AckTypes
  <2>2. peer[pc.id] = NoOne
    BY <1>0, <2>1, AckTypes DEF AckInv, Offering
  <2>3. \A j \in DOMAIN cmdq' : cmdq'[j].kind = "answer" => cmdq'[j].session # pc.id
    <3>1. \A j \in DOMAIN cmdq' : j <= j
      BY <1>6
    <3> QED
      BY <1>0, <1>4, <2>1, <3>1, AckTypes, SendKeeps DEF AckInv, Offering
  <2>4. told # "accept"
    BY <2>1 DEF AckInv, Verdict, AckReachesItsViewer
  <2> QED
    BY <1>5, <1>7, <1>8, <2>2, <2>3, <2>4 DEF Verdict, AckReachesItsViewer, Unanswered
<1> QED
  BY <1>9, <1>10

\* An event that is not an accepted Hello.
LEMMA AckHandled ==
  ASSUME AckInv, TypeOK', NEW kind, Handle(kind), UNCHANGED accepted,
         offered' = IF kind = "offer" THEN Head(evq).session ELSE offered,
         NEW v \in Verdicts \ {"accept"}, Ack(v) \/ UNCHANGED cmdq
  PROVE  Offering' /\ Accepting' /\ Verdict'
<1> DEFINE c == [Command("ack") EXCEPT !.verdict = v]
<1>0. Inv /\ TypeOK
  BY DEF AckInv, Inv
<1>1. /\ Head(evq) = evq[1] /\ 1 \in DOMAIN evq
      /\ \A i \in DOMAIN evq' : i + 1 \in DOMAIN evq /\ 1 < i + 1 /\ evq'[i] = evq[i + 1]
      /\ UNCHANGED <<pc, peer, told>>
  BY <1>0, HeadTail DEF TypeOK, DriverTypeOK, Handle
<1>2. offered <= Head(evq).session /\ Head(evq).session <= pc.id
  BY <1>1 DEF AckInv, Offering, Inv, Order
<1>3. \A i \in DOMAIN evq' : /\ offered <= evq'[i].session
                             /\ accepted <= evq'[i].session
                             /\ Head(evq).session <= evq'[i].session
  BY <1>1 DEF AckInv, Offering, Accepting, Inv, Order
<1>4. offered <= offered' /\ offered' <= pc.id
  BY <1>0, <1>2, AckTypes DEF AckInv, Offering
<1>5. \A i \in DOMAIN evq' : offered' <= evq'[i].session /\ accepted <= evq'[i].session
  BY <1>3
<1>6. c \in Commands /\ c.kind = "ack" /\ ~Welcome(c) /\ (Send(c) \/ UNCHANGED cmdq)
  BY DEF Ack, Command, Commands, Welcome
<1> HIDE DEF c
<1> QED
  BY <1>1, <1>4, <1>5, <1>6, AckKept

\* Nothing was said yet.
LEMMA AckInit == Init => AckInv
<1> SUFFICES ASSUME Init PROVE AckInv
  OBVIOUS
<1> USE DEF Init, DriverInit, HostInit
<1>1. Inv
  BY InitInv
<1>2. pc.id = 1 /\ DOMAIN evq = {1} /\ evq[1].session = 1 /\ DOMAIN cmdq = {}
  BY DEF FreshPc
<1>3. Offering
  BY <1>2 DEF Offering
<1>4. Accepting
  BY <1>2 DEF Accepting
<1>5. Verdict
  BY <1>2 DEF Verdict, AckReachesItsViewer
<1> QED
  BY <1>1, <1>3, <1>4, <1>5 DEF AckInv

\* A step of the driver.
LEMMA AckDriver ==
  ASSUME AckInv, TypeOK', DriverStep
  PROVE  Offering' /\ Accepting' /\ Verdict'
<1>0. /\ UNCHANGED hostVars /\ UNCHANGED <<offered, accepted>>
      /\ Inv /\ TypeOK
  BY DEF DriverStep, hostVars, AckInv, Inv
<1>1. CASE \/ TakeAnswer \/ RefuseAnswer \/ TakeSecondAnswer \/ TakeRestart \/ TakeAck
           \/ TakeVideo
  BY <1>0, <1>1, AckTaken
<1>2. CASE CommandsDrained \/ BuildFails \/ ReadFails \/ EventsDrained \/ NextPass
  <2>1. UNCHANGED <<evq, peer, pc, told>> /\ (UNCHANGED cmdq \/ cmdq' = << >>)
    BY <1>2 DEF CommandsDrained, BuildFails, ReadFails, Exit, EventsDrained, NextPass
  <2> QED
    BY <1>0, <2>1 DEF AckInv, Offering, Accepting, Verdict, AckReachesItsViewer, Unanswered
<1>3. CASE Rebuild
  BY <1>0, <1>3, AckRebuilt
<1>4. CASE Connect \/ Lost \/ ReceivePictureLoss
  <2>1. /\ UNCHANGED <<peer, told, cmdq>> /\ pc'.id = pc.id
        /\ \E k \in {"connected", "disconnected", "keyframe"} : Emit(Event(k))
    BY <1>0, <1>4 DEF Connect, Lost, ReceivePictureLoss, TypeOK, DriverTypeOK
  <2>2. PICK k \in {"connected", "disconnected", "keyframe"} : Emit(Event(k))
    BY <2>1
  <2>3. Event(k) \in Events /\ Event(k).session = pc.id
    BY <1>0, AckTypes DEF Event, Events
  <2> QED
    BY <1>0, <2>1, <2>2, <2>3, AckEmitted
<1>5. ASSUME NEW m \in Traffic, Receive(m)
      PROVE  Offering' /\ Accepting' /\ Verdict'
  <2> DEFINE e == [kind |-> "data", session |-> pc.id, msg |-> m]
  <2>1. UNCHANGED <<peer, told, cmdq>> /\ pc'.id = pc.id /\ Emit(e)
    BY <1>5 DEF Receive
  <2>2. e \in Events /\ e.session = pc.id
    BY <1>0, AckTypes DEF Events
  <2> HIDE DEF e
  <2> QED
    BY <1>0, <2>1, <2>2, AckEmitted
<1> QED
  BY <1>1, <1>2, <1>3, <1>4, <1>5 DEF DriverStep, DriverPump, DriverInput

\* A step of the host loop.
LEMMA AckHost ==
  ASSUME AckInv, TypeOK', HostLoop
  PROVE  Offering' /\ Accepting' /\ Verdict'
<1>1. CASE HandleOffer
  BY <1>1, AckHandled DEF HandleOffer, Verdicts
<1>2. CASE HandleConnected \/ HandleDisconnected \/ HandleKeyframeRequested
  <2>1. PICK kind \in {"connected", "disconnected", "keyframe"} : Handle(kind)
    BY <1>2 DEF HandleConnected, HandleDisconnected, HandleKeyframeRequested
  <2>2. UNCHANGED <<cmdq, offered, accepted>>
    BY <1>2 DEF HandleConnected, HandleDisconnected, HandleKeyframeRequested
  <2> QED
    BY <2>1, <2>2, AckHandled DEF Verdicts
<1>3. CASE HandleData
  <2> DEFINE m == Head(evq).msg
             s == Head(evq).session
  <2>1. Handle("data") /\ UNCHANGED offered /\ HandleControl(m, s)
    BY <1>3 DEF HandleData
  <2>2. CASE HelloAccepted(m, s)
    <3>1. accepted' = Head(evq).session /\ Ack("accept")
      BY <2>2 DEF HelloAccepted
    <3> QED
      BY <2>1, <3>1, AckSent DEF Handle
  <2>3. CASE ~HelloAccepted(m, s)
    <3>1. /\ UNCHANGED accepted
          /\ Ack("reject") \/ Ack("password") \/ UNCHANGED cmdq
      BY <2>1, <2>3 DEF HandleControl, HelloRejected, HelloThrottled, HelloWrongPassword,
           Dropped, Press, Release, ToggleViewOnly, RefreshVideo, Other
    <3>2. PICK v \in Verdicts \ {"accept"} : Ack(v) \/ UNCHANGED cmdq
      BY <3>1 DEF Verdicts
    <3> QED
      BY <2>1, <3>1, <3>2, AckHandled
  <2> QED
    BY <2>2, <2>3
<1> QED
  BY <1>1, <1>2, <1>3 DEF HostLoop

\* Every step keeps the verdicts on their way to the right viewer.
LEMMA AckStep ==
  ASSUME AckInv, [Next]_vars
  PROVE  AckInv'
<1>0. Inv /\ TypeOK
  BY DEF AckInv, Inv
<1>1. Inv' /\ TypeOK'
  BY <1>0, StepInv DEF Inv
<1>2. CASE DriverStep
  BY <1>1, <1>2, AckDriver DEF AckInv
<1>3. CASE HostLoop
  BY <1>1, <1>3, AckHost DEF AckInv
<1>4. ASSUME UNCHANGED <<evq, pc, peer, told, offered, accepted>>,
             NEW c \in Commands, Send(c) \/ UNCHANGED cmdq,
             ~Welcome(c), c.kind = "answer" => c.session <= offered
      PROVE  AckInv'
  <2>1. offered <= offered' /\ offered' <= pc.id
    BY <1>0, <1>4, AckTypes DEF AckInv, Offering
  <2>2. \A i \in DOMAIN evq' : offered' <= evq'[i].session /\ accepted <= evq'[i].session
    BY <1>4 DEF AckInv, Offering, Accepting
  <2>3. Offering' /\ Accepting' /\ Verdict'
    BY <1>1, <1>4, <2>1, <2>2, AckKept
  <2> QED
    BY <1>1, <2>3 DEF AckInv
<1>5. ASSUME NEW v \in Viewers, NEW s \in Session, FeedAnswer(v, s)
      PROVE  AckInv'
  <2> DEFINE c == [Command("answer") EXCEPT !.viewer = v, !.session = s]
  <2>1. Command("answer") \in Commands /\ Command("answer").kind = "answer"
    BY DEF Command, Commands, Verdicts
  <2>2. c \in Commands /\ c.kind = "answer" /\ c.session = s
    <3>1. s \in 0 .. MaxSession
      BY DEF Session
    <3>2. /\ [Command("answer") EXCEPT !.viewer = v] \in Commands
          /\ [Command("answer") EXCEPT !.viewer = v].kind = "answer"
      BY <2>1 DEF Commands
    <3> QED
      BY <3>1, <3>2 DEF Commands
  <2>3. ~Welcome(c)
    BY <2>2 DEF Welcome
  <2>4. /\ UNCHANGED <<evq, pc, peer, told, offered, accepted>>
        /\ Send(c) /\ s <= offered
    BY <1>5 DEF FeedAnswer
  <2> HIDE DEF c
  <2> QED
    BY <1>4, <2>2, <2>3, <2>4
<1>6. CASE PeerSwitched \/ LockoutEnds \/ CaptureFrame \/ TakeFrame \/ FinishFrame
           \/ UNCHANGED vars
  <2>1. /\ UNCHANGED <<evq, pc, peer, told, offered, accepted>>
        /\ \E k \in {"restart", "video"} : Send(Command(k)) \/ UNCHANGED cmdq
    BY <1>6 DEF PeerSwitched, LockoutEnds, CaptureFrame, TakeFrame, FinishFrame, vars,
                driverVars, hostVars
  <2>2. PICK k \in {"restart", "video"} : Send(Command(k)) \/ UNCHANGED cmdq
    BY <2>1
  <2>3. /\ Command(k) \in Commands /\ ~Welcome(Command(k))
        /\ Command(k).kind # "answer"
    BY DEF Command, Commands, Verdicts, Welcome
  <2> QED
    BY <1>4, <2>1, <2>2, <2>3
<1> QED
  BY <1>2, <1>3, <1>5, <1>6 DEF Next

\* A viewer that was told it is accepted is the one the host loop accepted: no
\* verdict crosses a rebuild (handle_control's HelloAck, drain_commands).
THEOREM VerdictReachesItsViewer == Spec => []AckReachesItsViewer
<1>1. Spec => []AckInv
  BY AckInit, AckStep, PTL DEF Spec
<1>2. AckInv => AckReachesItsViewer
  BY DEF AckInv, Verdict
<1> QED
  BY <1>1, <1>2, PTL
=============================================================================
