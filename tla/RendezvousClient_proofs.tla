------------------------ MODULE RendezvousClient_proofs ------------------------
(***************************************************************************)
(* Proofs about SignalingHub, among arbitrary clients (HubSpec), and about *)
(* RendezvousClient, its clients: they keep to their own sockets and to    *)
(* their account, what a re-announcing viewer is replayed is one           *)
(* connection's, and the watchdog spares a reported session; for every set *)
(* of devices and accounts and every bound.                                *)
(***************************************************************************)
EXTENDS RendezvousClient, SequenceTheorems, TLAPS

USE HubAssumption DEF HubAssumption

-----------------------------------------------------------------------------
(* The hub: the inductive invariant, over the messages M that clients send. *)

\* What the socket of `d` may send, when clients send messages of M: the hub puts
\* the socket's identity into it.
Uplinked(M, d) == [from : {d}, to : Devices, msg : M]

\* What may be relayed to the socket of `d`.
Relayed(M, d) == {f \in [from : Devices, to : Devices, msg : M] :
                     AccountOf[f.from] = AccountOf[d]}

Stages == {"unused", "accepted", "registered", "gone"}

Typed ==
    /\ peers \in [Devices -> Sockets \cup {None}]
    /\ socket \in [Sockets -> [device : Devices \cup {None}, stage : Stages,
                               alive : BOOLEAN]]
    /\ DOMAIN uplink = Sockets
    /\ DOMAIN outbox = Sockets

\* A socket that was upgraded has a device; one that was not carries nothing.
Identified(s) ==
    IF socket[s].stage = "unused"
      THEN ~socket[s].alive /\ uplink[s] = << >> /\ outbox[s] = << >>
      ELSE socket[s].device \in Devices

Stamped(M, s) == uplink[s] \in Seq(Uplinked(M, socket[s].device))

WithinAccount(M, s) == outbox[s] \in Seq(Relayed(M, socket[s].device))

\* The entry of a device is a registered socket of that device.
Serves(d) ==
    peers[d] # None =>
        /\ socket[peers[d]].stage = "registered"
        /\ socket[peers[d]].device = d

HubInv(M) ==
    /\ Typed
    /\ \A s \in Sockets : Identified(s) /\ Stamped(M, s) /\ WithinAccount(M, s)
    /\ \A d \in Devices : Serves(d)

-----------------------------------------------------------------------------
(* The queues.                                                              *)

\* The empty queue is one of any frames.
LEMMA EmptyQueue ==
  ASSUME NEW S
  PROVE  << >> \in Seq(S)
  OBVIOUS

\* A queue whose head was taken, or to which a frame was added, stays one.
LEMMA QueueStep ==
  ASSUME NEW S, NEW q \in Seq(S)
  PROVE  /\ q # << >> => Head(q) \in S /\ Tail(q) \in Seq(S)
         /\ \A f \in S : Append(q, f) \in Seq(S)
  OBVIOUS

\* So does what is kept of it when its connection goes.
LEMMA KeptQueue ==
  ASSUME NEW S, NEW q \in Seq(S), NEW kept \in Prefixes(q)
  PROVE  kept \in Seq(S)
  BY DEF Prefixes

-----------------------------------------------------------------------------

\* No socket is the absent one.
LEMMA SocketIsNotNone == \A s \in Sockets : s # None /\ s \in Nat
  BY DEF Sockets

LEMMA InitInv ==
  ASSUME NEW M, HubInit
  PROVE  HubInv(M)
  BY EmptyQueue DEF HubInit, HubInv, Typed, Identified, Stamped, WithinAccount, Serves, Stages

LEMMA UpgradeInv ==
  ASSUME NEW M, HubInv(M), NEW d \in Devices, NEW s \in Sockets, Upgrade(d, s)
  PROVE  HubInv(M)'
<1>1. Typed'
  BY DEF HubInv, Typed, Upgrade, Stages
<1>2. \A r \in Sockets : Identified(r)' /\ Stamped(M, r)' /\ WithinAccount(M, r)'
  BY EmptyQueue DEF HubInv, Typed, Upgrade, Identified, Stamped, WithinAccount
<1>3. \A e \in Devices : Serves(e)'
  BY DEF HubInv, Typed, Upgrade, Serves
<1> QED
  BY <1>1, <1>2, <1>3 DEF HubInv

LEMMA RegisterInv ==
  ASSUME NEW M, HubInv(M), NEW s \in Sockets, Register(s)
  PROVE  HubInv(M)'
<1>1. socket[s].device \in Devices
  BY DEF HubInv, Register, Identified
<1>2. Typed'
  BY <1>1 DEF HubInv, Typed, Register, Stages
<1>3. \A r \in Sockets : Identified(r)' /\ Stamped(M, r)' /\ WithinAccount(M, r)'
  BY <1>1 DEF HubInv, Typed, Register, Identified, Stamped, WithinAccount
<1>4. \A e \in Devices : Serves(e)'
  BY <1>1 DEF HubInv, Typed, Register, Serves
<1> QED
  BY <1>2, <1>3, <1>4 DEF HubInv

LEMMA UnregisterInv ==
  ASSUME NEW M, HubInv(M), NEW s \in Sockets, Unregister(s)
  PROVE  HubInv(M)'
<1>1. Typed'
  BY DEF HubInv, Typed, Unregister, Stages
<1>2. \A r \in Sockets : Identified(r)' /\ Stamped(M, r)' /\ WithinAccount(M, r)'
  BY EmptyQueue, ZenonT(60) DEF HubInv, Typed, Unregister, Identified, Stamped, WithinAccount
<1>3. \A e \in Devices : Serves(e)'
  BY DEF HubInv, Typed, Unregister, Matches, Serves
<1> QED
  BY <1>1, <1>2, <1>3 DEF HubInv

\* The frame at the head of a registered socket's queue.
LEMMA HeadFrame ==
  ASSUME NEW M, HubInv(M), NEW s \in Sockets, uplink[s] # << >>
  PROVE  /\ Head(uplink[s]) \in Uplinked(M, socket[s].device)
         /\ Tail(uplink[s]) \in Seq(Uplinked(M, socket[s].device))
         /\ socket[s].device \in Devices
         /\ socket[s].stage # "unused"
  BY QueueStep DEF HubInv, Identified, Stamped

LEMMA ThrottleInv ==
  ASSUME NEW M, HubInv(M), NEW s \in Sockets, Throttle(s)
  PROVE  HubInv(M)'
<1>1. Tail(uplink[s]) \in Seq(Uplinked(M, socket[s].device)) /\ socket[s].stage # "unused"
  BY HeadFrame DEF Throttle
<1> QED
  BY <1>1 DEF HubInv, Typed, Throttle, Identified, Stamped, WithinAccount, Serves

LEMMA RelayInv ==
  ASSUME NEW M, HubInv(M), NEW s \in Sockets, Relay(s)
  PROVE  HubInv(M)'
<1> DEFINE f == Head(uplink[s])
           t == peers[f.to]
<1>1. /\ f \in Uplinked(M, socket[s].device)
      /\ Tail(uplink[s]) \in Seq(Uplinked(M, socket[s].device))
      /\ socket[s].device \in Devices
      /\ socket[s].stage # "unused"
  BY HeadFrame DEF Relay
<1>2. uplink' = [uplink EXCEPT ![s] = Tail(@)] /\ UNCHANGED <<peers, socket>>
  BY DEF Relay
<1>3. \A r \in Sockets : Stamped(M, r)'
  BY <1>1, <1>2 DEF HubInv, Typed, Stamped
<1>4. \A e \in Devices : Serves(e)'
  BY <1>2 DEF HubInv, Serves
<1>5. CASE UNCHANGED outbox
  BY <1>1, <1>2, <1>3, <1>4, <1>5 DEF HubInv, Typed, Identified, WithinAccount
<1>6. CASE MayRelay(f.from, f.to) /\ outbox' = [outbox EXCEPT ![t] = Append(@, f)]
  <2>1. f \in [from : Devices, to : Devices, msg : M] /\ f.to \in Devices
    BY <1>1 DEF Uplinked
  <2>2. /\ t \in Sockets
        /\ socket[t].device = f.to
        /\ socket[t].stage = "registered"
    BY <1>6, <2>1 DEF MayRelay, HubInv, Typed, Serves
  <2>3. f \in Relayed(M, socket[t].device)
    BY <1>6, <2>1, <2>2 DEF MayRelay, Relayed
  <2>4. Append(outbox[t], f) \in Seq(Relayed(M, socket[t].device))
    BY <2>2, <2>3, QueueStep DEF HubInv, WithinAccount
  <2>5. \A r \in Sockets : Identified(r)' /\ WithinAccount(M, r)'
    BY <1>1, <1>2, <1>6, <2>2, <2>4 DEF HubInv, Typed, Identified, WithinAccount
  <2> QED
    BY <1>2, <1>3, <1>4, <1>6, <2>5 DEF HubInv, Typed
<1> QED
  BY <1>5, <1>6 DEF Relay

LEMMA SendInv ==
  ASSUME NEW M, HubInv(M), NEW s \in Sockets, NEW m \in M, Send(s, m)
  PROVE  HubInv(M)'
<1>1. socket[s].stage # "unused" /\ socket[s].device \in Devices
  BY DEF HubInv, Send, Identified
<1>2. PICK to \in Devices :
        uplink' = [uplink EXCEPT ![s] = Append(@, Frame(socket[s].device, to, m))]
  BY DEF Send
<1>3. Frame(socket[s].device, to, m) \in Uplinked(M, socket[s].device)
  BY DEF Frame, Uplinked
<1>4. uplink'[s] \in Seq(Uplinked(M, socket[s].device))
  BY <1>2, <1>3, QueueStep DEF HubInv, Typed, Stamped
<1> QED
  BY <1>1, <1>2, <1>4 DEF HubInv, Typed, Send, Identified, Stamped, WithinAccount, Serves

LEMMA DeliverInv ==
  ASSUME NEW M, HubInv(M), NEW s \in Sockets, Deliver(s)
  PROVE  HubInv(M)'
<1>1. Tail(outbox[s]) \in Seq(Relayed(M, socket[s].device)) /\ socket[s].stage # "unused"
  BY QueueStep DEF HubInv, Deliver, Identified, WithinAccount
<1> QED
  BY <1>1 DEF HubInv, Typed, Deliver, Identified, Stamped, WithinAccount, Serves

LEMMA SeverInv ==
  ASSUME NEW M, HubInv(M), NEW s \in Sockets, Sever(s)
  PROVE  HubInv(M)'
<1>1. PICK kept \in Prefixes(uplink[s]) : uplink' = [uplink EXCEPT ![s] = kept]
  BY DEF Sever
<1>2. kept \in Seq(Uplinked(M, socket[s].device))
  BY KeptQueue DEF HubInv, Stamped
<1>3. socket[s].stage # "unused"
  BY DEF HubInv, Sever, Identified
<1>4. Typed'
  BY <1>1, ZenonT(60) DEF HubInv, Typed, Sever
<1>5. \A r \in Sockets : Identified(r)' /\ Stamped(M, r)' /\ WithinAccount(M, r)'
  BY <1>1, <1>2, <1>3, EmptyQueue, ZenonT(60)
     DEF HubInv, Typed, Sever, Identified, Stamped, WithinAccount
<1>6. \A e \in Devices : Serves(e)'
  BY DEF HubInv, Typed, Sever, Serves
<1> QED
  BY <1>4, <1>5, <1>6 DEF HubInv

\* A step of the hub at a socket.
LEMMA HubStepInv ==
  ASSUME NEW M, HubInv(M), NEW s \in Sockets, HubStep(s)
  PROVE  HubInv(M)'
  BY RegisterInv, UnregisterInv, RelayInv, ThrottleInv DEF HubStep

\* A step that leaves the hub alone.
LEMMA HubIdleInv ==
  ASSUME NEW M, HubInv(M), UNCHANGED hubVars
  PROVE  HubInv(M)'
  BY DEF hubVars, HubInv, Typed, Identified, Stamped, WithinAccount, Serves

Inv == HubInv({None})

LEMMA StepInv == Inv /\ [HubNext]_hubVars => Inv'
<1> DEFINE M == {None}
<1> SUFFICES ASSUME HubInv(M), [HubNext]_hubVars PROVE HubInv(M)'
  BY DEF Inv
<1>0. None \in M
  OBVIOUS
<1> HIDE DEF M
<1>1. CASE UNCHANGED hubVars
  BY <1>1, HubIdleInv
<1>2. CASE HubNext
  <2>1. PICK s \in Sockets : \/ \E d \in Devices : Upgrade(d, s)
                             \/ Send(s, None) \/ Deliver(s) \/ Sever(s) \/ HubStep(s)
    BY <1>2 DEF HubNext
  <2> QED
    BY <1>0, <2>1, UpgradeInv, SendInv, DeliverInv, SeverInv, HubStepInv
<1> QED
  BY <1>1, <1>2

\* Frames that carry their sender's identity and pass the account check keep to the
\* account.
LEMMA InvIsolates ==
  ASSUME NEW M, HubInv(M)
  PROVE  RelayWithinAccount
<1> SUFFICES ASSUME NEW s \in Sockets, NEW k \in DOMAIN outbox[s]
             PROVE  AccountOf[outbox[s][k].from] = AccountOf[socket[s].device]
  BY DEF RelayWithinAccount
<1>1. outbox[s] \in Seq(Relayed(M, socket[s].device))
  BY DEF HubInv, WithinAccount
<1>2. outbox[s][k] \in Relayed(M, socket[s].device)
  BY <1>1
<1> QED
  BY <1>2 DEF Relayed

\* What the hub's handlers keep between them: entries are registered sockets of
\* their device, frames carry the identity of their sender (Hub, handle_socket).
THEOREM HubInvariance == HubSpec => []Inv
<1>1. HubInit => Inv
  BY InitInv DEF Inv
<1> QED
  BY <1>1, StepInv, PTL DEF HubSpec

\* No frame is ever under way to a device of another account, whatever clients
\* send and however their sockets are replaced (Hub::relay).
THEOREM AccountIsolation == HubSpec => []RelayWithinAccount
<1>1. Inv => RelayWithinAccount
  BY InvIsolates DEF Inv
<1> QED
  BY <1>1, HubInvariance, PTL

\* Every entry is a socket whose handler still runs (Hub::unregister).
THEOREM EntriesAreLive == HubSpec => []NoGhosts
<1>1. Inv => NoGhosts
  BY DEF Inv, HubInv, Serves, NoGhosts
<1> QED
  BY <1>1, HubInvariance, PTL

\* An entry is only ever removed by the teardown of the very socket it holds, which
\* is dead (same_channel in Hub::unregister).
THEOREM NoEviction == HubSpec => EvictsOnlyItself
<1> DEFINE Keeps == \A d \in Devices :
              peers[d] # None /\ peers'[d] = None => ~socket[peers[d]].alive
<1>1. Inv /\ [HubNext]_hubVars => [Keeps]_hubVars
  <2> SUFFICES ASSUME Inv, HubNext, NEW d \in Devices,
                      peers[d] # None, peers'[d] = None
               PROVE  ~socket[peers[d]].alive
    OBVIOUS
  <2>1. PICK s \in Sockets : Register(s) \/ Unregister(s) \/ UNCHANGED peers
    BY DEF HubNext, HubStep, Upgrade, Send, Deliver, Sever, Relay, Throttle
  <2>2. CASE Register(s)
    BY <2>2, SocketIsNotNone DEF Register, Inv, HubInv, Typed
  <2>3. CASE Unregister(s)
    BY <2>3 DEF Unregister, Matches, Inv, HubInv, Typed
  <2> QED
    BY <2>1, <2>2, <2>3
<1> QED
  BY <1>1, HubInvariance, PTL DEF HubSpec, EvictsOnlyItself

USE ClientAssumption DEF ClientAssumption

-----------------------------------------------------------------------------
(* The clients: the hub's invariant, over the messages of the handshake,    *)
(* the types of the clients, and whose socket each of them holds.           *)

Messages == [kind : {"hello", "offer", "candidate", "answer"}, n : Nat]

HostClients == [sock : Sockets \cup {None}, peer : Devices \cup {None},
                pending : Seq(Messages), lastOffer : Messages \cup {None},
                candidates : Seq(Messages), switched : BOOLEAN, restarting : BOOLEAN]

Statuses == {"active", "ended"}

Sessions == [offer : Nat, answered : Nat, live : BOOLEAN, owed : Seq(Statuses)]

ViewerClients == [on : BOOLEAN, sock : Sockets \cup {None}, replied : BOOLEAN,
                  out : Seq(Messages), got : Nat]

ClientTyped ==
    /\ host \in HostClients
    /\ hostOut \in Seq(Messages)
    /\ session \in Sessions
    /\ active \in BOOLEAN
    /\ outage \in 0 .. Watchdog
    /\ viewer \in [Viewers -> ViewerClients]
    /\ severed \in 0 .. MaxSevered

\* A client that holds a socket opened it: the hub knows the client behind it.
Holds(d, s) == s # None => socket[s].device = d /\ socket[s].stage # "unused"

Attached ==
    /\ Holds(Host, host.sock)
    /\ \A v \in Viewers : Holds(v, viewer[v].sock)

ClientInv == HubInv(Messages) /\ ClientTyped /\ Attached

-----------------------------------------------------------------------------
(* Messages and queues.                                                     *)

\* What the clients send are messages.
LEMMA MessageTypes ==
  /\ Hello \in Messages
  /\ \A n \in Nat : Offer(n) \in Messages /\ Candidate(n) \in Messages /\ Answer(n) \in Messages
  /\ \A n \in Nat : Gathered(n) \in Seq(Messages)
<1>1. /\ Hello \in Messages
      /\ \A n \in Nat : Offer(n) \in Messages /\ Candidate(n) \in Messages /\ Answer(n) \in Messages
  BY DEF Hello, Offer, Candidate, Answer, Messages
<1>2. \A n \in Nat : Gathered(n) \in Seq(Messages)
  BY <1>1 DEF Gathered
<1> QED
  BY <1>1, <1>2

\* Two queues of messages, one after the other.
LEMMA Joined ==
  ASSUME NEW S, NEW p \in Seq(S), NEW q \in Seq(S)
  PROVE  p \o q \in Seq(S)
  OBVIOUS

\* Messages put into frames of one sender and one addressee.
LEMMA FramedTypes ==
  ASSUME NEW from \in Devices, NEW to \in Devices, NEW msgs \in Seq(Messages)
  PROVE  [k \in DOMAIN msgs |-> Frame(from, to, msgs[k])] \in Seq(Uplinked(Messages, from))
<1> DEFINE S == Messages
           U == Uplinked(Messages, from)
<1>1. \A m \in S : Frame(from, to, m) \in U
  BY DEF Frame, Uplinked
<1> HIDE DEF S, U
<1>2. msgs \in Seq(S)
  BY DEF S
<1>3. [k \in DOMAIN msgs |-> Frame(from, to, msgs[k])] \in Seq(U)
  <2>1. Len(msgs) \in Nat /\ DOMAIN msgs = 1 .. Len(msgs)
    BY <1>2
  <2>2. \A k \in DOMAIN msgs : Frame(from, to, msgs[k]) \in U
    BY <1>1, <1>2
  <2> QED
    BY <2>1, <2>2
<1> QED
  BY <1>3 DEF U

\* The hub's invariant over a step of clients that read and write queues, of
\* sockets that were upgraded.
LEMMA QueuesInv ==
  ASSUME NEW M, HubInv(M), UNCHANGED <<peers, socket>>,
         DOMAIN uplink' = Sockets, DOMAIN outbox' = Sockets,
         \A s \in Sockets : /\ uplink'[s] \in Seq(Uplinked(M, socket[s].device))
                            /\ outbox'[s] \in Seq(Relayed(M, socket[s].device))
                            /\ socket[s].stage = "unused" =>
                                  uplink'[s] = uplink[s] /\ outbox'[s] = outbox[s]
  PROVE  HubInv(M)'
<1>1. Typed' /\ \A d \in Devices : Serves(d)'
  BY DEF HubInv, Typed, Serves
<1>2. \A s \in Sockets : Identified(s)' /\ Stamped(M, s)' /\ WithinAccount(M, s)'
  BY DEF HubInv, Identified, Stamped, WithinAccount
<1> QED
  BY <1>1, <1>2 DEF HubInv

\* What Transmit does to the frames under way to the hub.
LEMMA TransmitTypes ==
  ASSUME HubInv(Messages), NEW s \in Sockets, NEW from \in Devices, NEW to \in Devices,
         Holds(from, s), NEW msgs \in Seq(Messages), Transmit(s, from, to, msgs)
  PROVE  /\ DOMAIN uplink' = Sockets
         /\ \A r \in Sockets : uplink'[r] \in Seq(Uplinked(Messages, socket[r].device))
         /\ \A r \in Sockets : r # s => uplink'[r] = uplink[r]
         /\ socket[s].stage # "unused"
<1> DEFINE sent == [k \in DOMAIN msgs |-> Frame(from, to, msgs[k])]
<1>1. socket[s].device = from /\ socket[s].stage # "unused"
  BY SocketIsNotNone DEF Holds
<1>2. sent \in Seq(Uplinked(Messages, from))
  BY FramedTypes
<1> HIDE DEF sent
<1>3. uplink[s] \o sent \in Seq(Uplinked(Messages, socket[s].device))
  BY <1>1, <1>2, Joined DEF HubInv, Stamped
<1>4. CASE uplink' = uplink
  BY <1>1, <1>4 DEF HubInv, Typed, Stamped
<1>5. CASE uplink' = [uplink EXCEPT ![s] = @ \o sent]
  BY <1>1, <1>3, <1>5 DEF HubInv, Typed, Stamped
<1> QED
  BY <1>4, <1>5 DEF Transmit, sent

LEMMA TransmitInv ==
  ASSUME HubInv(Messages), NEW s \in Sockets, NEW from \in Devices, NEW to \in Devices,
         Holds(from, s), NEW msgs \in Seq(Messages), Transmit(s, from, to, msgs),
         UNCHANGED <<peers, socket, outbox>>
  PROVE  HubInv(Messages)'
<1>1. /\ DOMAIN uplink' = Sockets
      /\ \A r \in Sockets : uplink'[r] \in Seq(Uplinked(Messages, socket[r].device))
      /\ \A r \in Sockets : r # s => uplink'[r] = uplink[r]
      /\ socket[s].stage # "unused"
  BY TransmitTypes
<1> HIDE DEF Messages
<1>2. DOMAIN outbox' = Sockets /\ \A r \in Sockets : outbox'[r] \in Seq(Relayed(Messages, socket[r].device))
  BY DEF HubInv, Typed, WithinAccount
<1> QED
  BY <1>1, <1>2, QueuesInv

\* The frame a client finds at the head of its queue.
LEMMA ReceivedFrame ==
  ASSUME HubInv(Messages), NEW s \in Sockets, outbox[s] # << >>
  PROVE  /\ Head(outbox[s]) \in [from : Devices, to : Devices, msg : Messages]
         /\ Tail(outbox[s]) \in Seq(Relayed(Messages, socket[s].device))
<1>1. outbox[s] \in Seq(Relayed(Messages, socket[s].device))
  BY DEF HubInv, WithinAccount
<1>2. Head(outbox[s]) \in Relayed(Messages, socket[s].device)
  BY <1>1, QueueStep
<1> QED
  BY <1>1, <1>2, QueueStep DEF Relayed

-----------------------------------------------------------------------------
(* The steps.                                                               *)

LEMMA ClientInitInv == Init => ClientInv
<1> SUFFICES ASSUME Init PROVE ClientInv
  OBVIOUS
<1>1. HubInv(Messages)
  BY InitInv DEF Init
<1>2. ClientTyped
  <2>1. Gathered(1) \in Seq(Messages) /\ << >> \in Seq(Messages)
    BY MessageTypes, EmptyQueue
  <2> HIDE DEF Messages
  <2>2. host \in HostClients
    BY <2>1 DEF Init, FreshClient, HostClients
  <2>3. viewer \in [Viewers -> ViewerClients]
    BY <2>1 DEF Init, Closed, ViewerClients
  <2>4. session \in Sessions
    <3>1. << >> \in Seq(Statuses)
      BY EmptyQueue
    <3> QED
      BY <3>1 DEF Init, Sessions
  <2>5. active \in BOOLEAN
    BY DEF Init
  <2>7. outage \in 0 .. Watchdog /\ severed \in 0 .. MaxSevered
    BY DEF Init
  <2>6. hostOut \in Seq(Messages)
    BY <2>1 DEF Init
  <2> QED
    BY <2>2, <2>3, <2>4, <2>5, <2>6, <2>7 DEF ClientTyped
<1>3. Attached
  BY DEF Init, Attached, FreshClient, Closed, Holds
<1> QED
  BY <1>1, <1>2, <1>3 DEF ClientInv

\* A new socket belongs to whom it was upgraded for; nobody loses the one it holds.
LEMMA ConnectHolds ==
  ASSUME HubInv(Messages), NEW d \in Devices, NEW s \in Sockets, Connect(d, s)
  PROVE  /\ HubInv(Messages)'
         /\ Holds(d, s)'
         /\ \A e \in Devices, r \in Sockets \cup {None} : Holds(e, r) => Holds(e, r)'
<1>1. HubInv(Messages)'
  BY UpgradeInv DEF Connect
<1>2. socket' = [socket EXCEPT ![s] = [device |-> d, stage |-> "accepted", alive |-> TRUE]]
      /\ socket[s].stage = "unused"
  BY DEF Connect, Upgrade
<1>3. socket'[s].device = d /\ socket'[s].stage = "accepted"
      /\ \A r \in Sockets : r # s => socket'[r] = socket[r]
  BY <1>2 DEF HubInv, Typed
<1> QED
  BY <1>1, <1>2, <1>3 DEF Holds

LEMMA HostConnectsInv == ClientInv /\ HostConnects => ClientInv'
<1> SUFFICES ASSUME ClientInv, HostConnects PROVE ClientInv'
  OBVIOUS
<1>1. PICK s \in Sockets : Connect(Host, s) /\ host' = [host EXCEPT !.sock = s]
  BY DEF HostConnects
<1>2. /\ HubInv(Messages)'
      /\ Holds(Host, s)'
      /\ \A e \in Devices, r \in Sockets \cup {None} : Holds(e, r) => Holds(e, r)'
  BY <1>1, ConnectHolds DEF ClientInv
<1>3. ClientTyped' /\ host'.sock = s
  <2>1. host \in HostClients
    BY DEF ClientInv, ClientTyped
  <2>2. host' \in HostClients /\ host'.sock = s
    BY <1>1, <2>1 DEF HostClients
  <2> QED
    BY <2>2 DEF ClientInv, ClientTyped, HostConnects
<1>4. Attached'
  <2> SUFFICES ASSUME NEW v \in Viewers PROVE Holds(v, viewer[v].sock)'
    BY <1>2, <1>3 DEF Attached
  <2>1. viewer' = viewer /\ viewer[v].sock \in Sockets \cup {None} /\ v \in Devices
    BY DEF HostConnects, ClientInv, ClientTyped, ViewerClients, Viewers
  <2> QED
    BY <1>2, <2>1 DEF ClientInv, Attached
<1> QED
  BY <1>2, <1>3, <1>4 DEF ClientInv

LEMMA ViewerConnectsInv ==
  ASSUME ClientInv, NEW v \in Viewers, ViewerConnects(v)
  PROVE  ClientInv'
<1>1. PICK s \in Sockets :
         /\ Connect(v, s)
         /\ viewer' = [viewer EXCEPT ![v].sock = s, ![v].replied = FALSE]
  BY DEF ViewerConnects
<1>2. /\ HubInv(Messages)'
      /\ Holds(v, s)'
      /\ \A e \in Devices, r \in Sockets \cup {None} : Holds(e, r) => Holds(e, r)'
  BY <1>1, ConnectHolds DEF ClientInv, Viewers
<1>3. /\ viewer \in [Viewers -> ViewerClients]
      /\ viewer' = [viewer EXCEPT ![v] = [[@ EXCEPT !.sock = s] EXCEPT !.replied = FALSE]]
  BY <1>1 DEF ClientInv, ClientTyped
<1>4. viewer' \in [Viewers -> ViewerClients] /\ viewer'[v].sock = s
  BY <1>3 DEF ViewerClients
<1>5. ClientTyped'
  BY <1>4 DEF ClientInv, ClientTyped, ViewerConnects
<1>6. Attached'
  <2>1. Holds(Host, host.sock)'
    <3>1. host' = host /\ host.sock \in Sockets \cup {None}
      BY DEF ViewerConnects, ClientInv, ClientTyped, HostClients
    <3> QED
      BY <1>2, <3>1 DEF ClientInv, Attached
  <2>2. ASSUME NEW w \in Viewers PROVE Holds(w, viewer[w].sock)'
    <3>1. w # v => viewer'[w] = viewer[w]
      BY <1>3
    <3>2. viewer[w].sock \in Sockets \cup {None} /\ w \in Devices
      BY <1>3 DEF ViewerClients, Viewers
    <3> QED
      BY <1>2, <1>4, <3>1, <3>2 DEF ClientInv, Attached
  <2> QED
    BY <2>1, <2>2 DEF Attached
<1> QED
  BY <1>2, <1>5, <1>6 DEF ClientInv

\* A step of the host by itself, which touches neither the hub nor a queue under way.
HostAlone ==
    \/ HostConnectFails \/ TokenRefreshed \/ HostGivesUp \/ HostRestarts \/ HostLoses
    \/ SwitchSeen \/ SessionStarts \/ SessionEnds \/ Reports

LEMMA HostAloneInv ==
  ASSUME ClientInv, HostAlone
  PROVE  ClientInv'
<1> USE DEF HostAlone
<1>1. UNCHANGED hubVars /\ UNCHANGED <<viewer, severed>>
  BY DEF HostConnectFails, TokenRefreshed, HostGivesUp, HostRestarts, HostLoses, SwitchSeen,
         SessionStarts, SessionEnds, Reports
<1>2. HubInv(Messages)' /\ socket' = socket
  BY <1>1, HubIdleInv DEF ClientInv, hubVars
<1>0. /\ host \in HostClients
      /\ hostOut \in Seq(Messages)
      /\ session \in Sessions
      /\ active \in BOOLEAN
      /\ outage \in 0 .. Watchdog
  BY DEF ClientInv, ClientTyped
<1>3. host' \in HostClients /\ host'.sock \in {host.sock, None}
  <2> HIDE DEF Messages
  <2>1. host' \in {host, FreshClient, [host EXCEPT !.sock = None],
                   [host EXCEPT !.switched = FALSE], [host EXCEPT !.restarting = TRUE]}
    BY DEF HostConnectFails, TokenRefreshed, HostGivesUp, HostRestarts, HostLoses, SwitchSeen,
           SessionStarts, SessionEnds, Reports
  <2>2. << >> \in Seq(Messages)
    BY EmptyQueue
  <2>3. FreshClient \in HostClients /\ FreshClient.sock = None
    BY <2>2 DEF FreshClient, HostClients
  <2>4. [host EXCEPT !.sock = None] \in HostClients /\ [host EXCEPT !.sock = None].sock = None
    BY <1>0 DEF HostClients
  <2>5. /\ [host EXCEPT !.switched = FALSE] \in HostClients
        /\ [host EXCEPT !.switched = FALSE].sock = host.sock
    BY <1>0 DEF HostClients
  <2>6. /\ [host EXCEPT !.restarting = TRUE] \in HostClients
        /\ [host EXCEPT !.restarting = TRUE].sock = host.sock
    BY <1>0 DEF HostClients
  <2> QED
    BY <1>0, <2>1, <2>3, <2>4, <2>5, <2>6
<1>4. Attached'
  <2>1. Holds(Host, host.sock)'
    BY <1>2, <1>3 DEF Attached, ClientInv, Holds
  <2>2. \A v \in Viewers : Holds(v, viewer[v].sock)'
    BY <1>1, <1>2 DEF Attached, ClientInv, Holds
  <2> QED
    BY <2>1, <2>2 DEF Attached
<1>5. ASSUME SwitchSeen \/ SessionEnds \/ HostRestarts
      PROVE  hostOut' \in Seq(Messages) /\ session' \in Sessions
  <2>1. session.offer + 1 \in Nat
    BY <1>0 DEF Sessions
  <2>2. Gathered(session.offer + 1) \in Seq(Messages)
    BY <2>1, MessageTypes
  <2>3. hostOut \o Gathered(session.offer + 1) \in Seq(Messages)
    BY <1>0, <2>2, Joined
  <2>4. hostOut' \in Seq(Messages)
    BY <1>5, <2>2, <2>3 DEF SwitchSeen, SessionEnds, MakesOffer, HostRestarts
  <2> DEFINE Fresh(o) == [offer |-> session.offer + 1, answered |-> 0, live |-> FALSE, owed |-> o]
  <2>5. \A o \in Seq(Statuses) : Fresh(o) \in Sessions
    BY <2>1 DEF Sessions
  <2>6. /\ << >> \in Seq(Statuses)
        /\ session.owed \in Seq(Statuses)
        /\ Append(session.owed, "ended") \in Seq(Statuses)
    <3>1. session.owed \in Seq(Statuses) /\ "ended" \in Statuses
      BY <1>0 DEF Sessions, Statuses
    <3> QED
      BY <3>1, EmptyQueue, QueueStep
  <2>7. \/ session' = Fresh(<< >>)
        \/ session' = Fresh(session.owed)
        \/ session' = Fresh(Append(session.owed, "ended"))
    BY <1>5 DEF SwitchSeen, SessionEnds, MakesOffer, HostRestarts
  <2> HIDE DEF Fresh
  <2>8. session' \in Sessions
    BY <2>5, <2>6, <2>7
  <2> QED
    BY <2>4, <2>8
<1>6. ASSUME ~(SwitchSeen \/ SessionEnds \/ HostRestarts)
      PROVE  hostOut' \in Seq(Messages) /\ session' \in Sessions
  <2>1. hostOut' = hostOut
    BY <1>6 DEF HostConnectFails, TokenRefreshed, HostGivesUp, HostLoses, SessionStarts, Reports
  <2>2. CASE session' = session
    BY <1>0, <2>1, <2>2
  <2>3. CASE SessionStarts
    <3>1. session' = [session EXCEPT !.live = TRUE, !.owed = <<"active">>]
      BY <2>3 DEF SessionStarts, Edge
    <3>2. <<"active">> \in Seq(Statuses)
      BY DEF Statuses
    <3>3. session' \in Sessions
      BY <1>0, <3>1, <3>2 DEF Sessions
    <3> QED
      BY <1>0, <2>1, <3>3
  <2>4. CASE Reports
    <3>1. session.owed \in Seq(Statuses) /\ session.owed # << >>
      BY <1>0, <2>4 DEF Sessions, Reports
    <3>2. Tail(session.owed) \in Seq(Statuses)
      BY <3>1, QueueStep
    <3>3. session' = [session EXCEPT !.owed = Tail(session.owed)]
      BY <2>4 DEF Reports
    <3>4. session' \in Sessions
      BY <1>0, <3>2, <3>3 DEF Sessions
    <3> QED
      BY <1>0, <2>1, <3>4
  <2>5. \/ session' = session \/ SessionStarts \/ Reports
    BY <1>6 DEF HostConnectFails, TokenRefreshed, HostGivesUp, HostLoses
  <2> QED
    BY <2>2, <2>3, <2>4, <2>5
<1>7. hostOut' \in Seq(Messages) /\ session' \in Sessions
  BY <1>5, <1>6
<1>8. active' \in BOOLEAN /\ outage' \in 0 .. Watchdog
  <2>1. active' = active \/ active' = FALSE \/ active' = (~Tray /\ Head(session.owed) = "active")
    BY DEF HostConnectFails, TokenRefreshed, HostGivesUp, HostRestarts, HostLoses, SwitchSeen,
           SessionStarts, SessionEnds, Reports
  <2>2. active' \in BOOLEAN
    BY <1>0, <2>1
  <2>3. outage' \in 0 .. Watchdog
    BY <1>0 DEF HostConnectFails, TokenRefreshed, HostGivesUp, HostRestarts, HostLoses, SwitchSeen,
                SessionStarts, SessionEnds, Reports
  <2> QED
    BY <2>2, <2>3
<1>9. ClientTyped'
  BY <1>1, <1>3, <1>7, <1>8 DEF ClientInv, ClientTyped
<1> QED
  BY <1>2, <1>4, <1>9 DEF ClientInv

\* Sockets keep their device and are used once they were upgraded: what a client
\* holds stays its own over every step of the hub.
LEMMA HubKeepsHolds ==
  ASSUME HubInv(Messages), NEW s \in Sockets, HubStep(s) \/ Sever(s)
  PROVE  \A e \in Devices, r \in Sockets \cup {None} : Holds(e, r) => Holds(e, r)'
<1>1. \A r \in Sockets : /\ socket'[r].device = socket[r].device
                         /\ socket[r].stage # "unused" => socket'[r].stage # "unused"
  <2>1. CASE Register(s)
    BY <2>1 DEF HubInv, Typed, Register
  <2>2. CASE Unregister(s)
    BY <2>2 DEF HubInv, Typed, Unregister
  <2>3. CASE Relay(s) \/ Throttle(s)
    BY <2>3 DEF HubInv, Typed, Relay, Throttle
  <2>4. CASE Sever(s)
    BY <2>4 DEF HubInv, Typed, Sever
  <2> QED
    BY <2>1, <2>2, <2>3, <2>4 DEF HubStep
<1> QED
  BY <1>1 DEF Holds

\* A step of the hub or the network, of which no client knows.
LEMMA HubSideInv ==
  ASSUME ClientInv, NEW s \in Sockets, ConnectionGoes(s) \/ HubActs(s)
  PROVE  ClientInv'
<1>1. HubInv(Messages)'
  BY HubStepInv, SeverInv DEF ClientInv, ConnectionGoes, HubActs
<1>2. UNCHANGED <<host, hostOut, session, active, outage, viewer>>
  BY DEF ConnectionGoes, HubActs, clientVars
<1>3. severed' \in 0 .. MaxSevered
  BY DEF ConnectionGoes, HubActs, clientVars, ClientInv, ClientTyped
<1>4. ClientTyped'
  BY <1>2, <1>3 DEF ClientInv, ClientTyped
<1>5. Attached'
  <2>1. \A e \in Devices, r \in Sockets \cup {None} : Holds(e, r) => Holds(e, r)'
    BY HubKeepsHolds DEF ClientInv, ConnectionGoes, HubActs
  <2>2. host.sock \in Sockets \cup {None} /\ \A v \in Viewers : viewer[v].sock \in Sockets \cup {None}
    BY DEF ClientInv, ClientTyped, HostClients, ViewerClients
  <2>3. Holds(Host, host.sock)'
    BY <1>2, <2>1, <2>2 DEF ClientInv, Attached
  <2>4. \A v \in Viewers : Holds(v, viewer[v].sock)'
    BY <1>2, <2>1, <2>2 DEF ClientInv, Attached, Viewers
  <2> QED
    BY <2>3, <2>4 DEF Attached
<1> QED
  BY <1>1, <1>4, <1>5 DEF ClientInv

LEMMA CachedTypes ==
  ASSUME NEW h \in HostClients, NEW m \in Messages
  PROVE  /\ Cached(h, m) \in HostClients
         /\ Cached(h, m).sock = h.sock
         /\ [Cached(h, m) EXCEPT !.pending = Append(@, m)] \in HostClients
         /\ [Cached(h, m) EXCEPT !.pending = Append(@, m)].sock = h.sock
<1> HIDE DEF Messages
<1>1. << >> \in Seq(Messages) /\ Append(h.candidates, m) \in Seq(Messages)
  BY EmptyQueue DEF HostClients
<1>2. Cached(h, m) \in HostClients /\ Cached(h, m).sock = h.sock
  <2>1. CASE m.kind = "offer"
    <3>1. Cached(h, m) = [[h EXCEPT !.lastOffer = m] EXCEPT !.candidates = << >>]
      BY <2>1 DEF Cached
    <3> QED
      BY <1>1, <3>1 DEF HostClients
  <2>2. CASE m.kind # "offer"
    <3>1. Cached(h, m) = [h EXCEPT !.candidates = Append(@, m)]
      BY <2>2 DEF Cached
    <3> QED
      BY <1>1, <3>1 DEF HostClients
  <2> QED
    BY <2>1, <2>2
<1> DEFINE c == Cached(h, m)
<1> HIDE DEF c
<1>3. c \in HostClients /\ c.sock = h.sock
  BY <1>2 DEF c
<1>4. Append(c.pending, m) \in Seq(Messages)
  BY <1>3 DEF HostClients
<1>5. [c EXCEPT !.pending = Append(@, m)] \in HostClients /\ [c EXCEPT !.pending = Append(@, m)].sock = h.sock
  BY <1>3, <1>4 DEF HostClients
<1> QED
  BY <1>2, <1>5 DEF c

LEMMA HostSendsInv == ClientInv /\ HostSends => ClientInv'
<1> SUFFICES ASSUME ClientInv, HostSends PROVE ClientInv'
  OBVIOUS
<1> DEFINE m == Head(hostOut)
<1>0. host \in HostClients /\ hostOut \in Seq(Messages) /\ hostOut # << >>
  BY DEF ClientInv, ClientTyped, HostSends
<1>1. m \in Messages /\ hostOut' = Tail(hostOut) /\ hostOut' \in Seq(Messages)
  BY <1>0, QueueStep DEF HostSends
<1>2. host' \in HostClients /\ host'.sock = host.sock
  BY <1>0, <1>1, CachedTypes DEF HostSends
<1>3. UNCHANGED <<peers, socket, outbox, session, active, outage, viewer, severed>>
  BY DEF HostSends
<1>4. HubInv(Messages)'
  <2>1. CASE UNCHANGED uplink
    BY <1>3, <2>1, HubIdleInv DEF hubVars, ClientInv
  <2>2. CASE host.peer # None /\ Transmit(host.sock, Host, host.peer, <<m>>)
    <3>1. host.sock \in Sockets /\ host.peer \in Devices /\ Holds(Host, host.sock)
      BY <1>0, <2>2 DEF HostSends, HostClients, ClientInv, Attached
    <3>2. <<m>> \in Seq(Messages)
      BY <1>1
    <3> QED
      BY <1>3, <2>2, <3>1, <3>2, TransmitInv DEF ClientInv
  <2> QED
    BY <2>1, <2>2 DEF HostSends
<1>5. ClientTyped'
  BY <1>1, <1>2, <1>3 DEF ClientInv, ClientTyped
<1>6. Attached'
  BY <1>2, <1>3 DEF ClientInv, Attached, Holds
<1> QED
  BY <1>4, <1>5, <1>6 DEF ClientInv

LEMMA HostReadsInv == ClientInv /\ HostReads => ClientInv'
<1> SUFFICES ASSUME ClientInv, HostReads PROVE ClientInv'
  OBVIOUS
<1> DEFINE s == host.sock
           f == Head(outbox[host.sock])
           firstContact == host.peer # f.from
           greeted == [host EXCEPT !.peer = f.from, !.pending = << >>]
           reply == IF firstContact THEN host.pending
                    ELSE IF f.msg = Hello THEN Replay(host) ELSE << >>
<1>0. host \in HostClients /\ s \in Sockets /\ outbox[s] # << >> /\ Holds(Host, s)
  BY DEF ClientInv, ClientTyped, HostReads, HostClients, Attached
<1>1. /\ f \in [from : Devices, to : Devices, msg : Messages]
      /\ Tail(outbox[s]) \in Seq(Relayed(Messages, socket[s].device))
  BY <1>0, ReceivedFrame DEF ClientInv
<1>2. /\ host' = IF Switched(host, f.from)
                   THEN [greeted EXCEPT !.lastOffer = None, !.candidates = << >>,
                                        !.switched = TRUE]
                   ELSE IF firstContact THEN greeted ELSE host
      /\ Transmit(s, Host, f.from, reply)
      /\ session' = IF f.msg.kind = "answer"
                      THEN [session EXCEPT !.answered = f.msg.n] ELSE session
      /\ outbox' = [outbox EXCEPT ![s] = Tail(@)]
      /\ UNCHANGED <<peers, socket, hostOut, active, outage, viewer, severed>>
  BY DEF HostReads
<1>3. f.from \in Devices /\ f.msg \in Messages
  BY <1>1
<1>4. reply \in Seq(Messages)
  <2> HIDE DEF Messages
  <2>1. << >> \in Seq(Messages) /\ host.pending \in Seq(Messages)
    BY <1>0, EmptyQueue DEF HostClients
  <2>2. host.lastOffer # None => <<host.lastOffer>> \o host.candidates \in Seq(Messages)
    BY <1>0 DEF HostClients
  <2> QED
    BY <2>1, <2>2 DEF Replay
<1>5. HubInv(Messages)'
  <2>1. /\ DOMAIN uplink' = Sockets
        /\ \A r \in Sockets : uplink'[r] \in Seq(Uplinked(Messages, socket[r].device))
        /\ \A r \in Sockets : r # s => uplink'[r] = uplink[r]
        /\ socket[s].stage # "unused"
    BY <1>0, <1>2, <1>3, <1>4, TransmitTypes DEF ClientInv
  <2> HIDE DEF Messages
  <2>2. /\ DOMAIN outbox' = Sockets
        /\ \A r \in Sockets : outbox'[r] \in Seq(Relayed(Messages, socket[r].device))
        /\ \A r \in Sockets : r # s => outbox'[r] = outbox[r]
    BY <1>0, <1>1, <1>2 DEF ClientInv, HubInv, Typed, WithinAccount
  <2> QED
    BY <1>2, <2>1, <2>2, QueuesInv DEF ClientInv
<1>6. host' \in HostClients /\ host'.sock = host.sock
  <2> HIDE DEF Messages, f
  <2>1. << >> \in Seq(Messages)
    BY EmptyQueue
  <2>2. greeted = [[host EXCEPT !.peer = f.from] EXCEPT !.pending = << >>]
    BY <1>0 DEF HostClients
  <2>3. greeted \in HostClients /\ greeted.sock = host.sock
    BY <1>0, <1>3, <2>1, <2>2 DEF HostClients
  <2> HIDE DEF greeted
  <2>4. [greeted EXCEPT !.lastOffer = None, !.candidates = << >>, !.switched = TRUE] \in HostClients
    BY <2>1, <2>3 DEF HostClients
  <2>5. [greeted EXCEPT !.lastOffer = None, !.candidates = << >>, !.switched = TRUE].sock = host.sock
    BY <2>3 DEF HostClients
  <2> QED
    BY <1>0, <1>2, <2>3, <2>4, <2>5
<1>7. session' \in Sessions
  BY <1>2, <1>3 DEF ClientInv, ClientTyped, Messages, Sessions
<1>8. ClientTyped'
  BY <1>2, <1>6, <1>7 DEF ClientInv, ClientTyped
<1>9. Attached'
  BY <1>2, <1>6 DEF ClientInv, Attached, Holds
<1> QED
  BY <1>5, <1>8, <1>9 DEF ClientInv

\* What a viewer's step without a new socket leaves to be shown.
LEMMA ViewerTypes ==
  ASSUME ClientInv, NEW v \in Viewers, NEW c \in ViewerClients,
         viewer' = [viewer EXCEPT ![v] = c], c.sock \in {viewer[v].sock, None},
         UNCHANGED <<socket, host, hostOut, session, active, outage, severed>>
  PROVE  ClientTyped' /\ Attached'
<1>1. viewer \in [Viewers -> ViewerClients]
  BY DEF ClientInv, ClientTyped
<1>2. viewer' \in [Viewers -> ViewerClients]
  BY <1>1
<1>3. \A w \in Viewers : viewer'[w].sock \in {viewer[w].sock, None}
  BY <1>1
<1>4. ClientTyped'
  BY <1>2 DEF ClientInv, ClientTyped
<1>5. Attached'
  BY <1>3 DEF ClientInv, Attached, Holds
<1> QED
  BY <1>4, <1>5

LEMMA OpenInv ==
  ASSUME ClientInv, NEW v \in Viewers, Open(v) \/ ViewerLoses(v)
  PROVE  ClientInv'
<1>1. HubInv(Messages)'
  BY HubIdleInv DEF Open, ViewerLoses, ClientInv
<1>2. viewer[v] \in ViewerClients /\ viewer \in [Viewers -> ViewerClients]
  BY DEF ClientInv, ClientTyped
<1>3. \/ viewer' = [viewer EXCEPT ![v] = [viewer[v] EXCEPT !.on = TRUE]]
      \/ viewer' = [viewer EXCEPT ![v] = [viewer[v] EXCEPT !.sock = None]]
  BY <1>2 DEF Open, ViewerLoses
<1>4. /\ [viewer[v] EXCEPT !.on = TRUE] \in ViewerClients
      /\ [viewer[v] EXCEPT !.on = TRUE].sock = viewer[v].sock
      /\ [viewer[v] EXCEPT !.sock = None] \in ViewerClients
      /\ [viewer[v] EXCEPT !.sock = None].sock = None
  BY <1>2 DEF ViewerClients
<1>5. UNCHANGED <<socket, host, hostOut, session, active, outage, severed>>
  BY DEF Open, ViewerLoses, hubVars
<1>6. ClientTyped' /\ Attached'
  BY <1>3, <1>4, <1>5, ViewerTypes
<1> QED
  BY <1>1, <1>6 DEF ClientInv

LEMMA AnnouncesInv ==
  ASSUME ClientInv, NEW v \in Viewers, Announces(v)
  PROVE  ClientInv'
<1>1. viewer[v].sock \in Sockets /\ Holds(v, viewer[v].sock) /\ v \in Devices
  BY DEF ClientInv, ClientTyped, Attached, Announces, ViewerClients, Viewers
<1>2. <<Hello>> \in Seq(Messages)
  BY MessageTypes
<1>3. Transmit(viewer[v].sock, v, Host, <<Hello>>) /\ UNCHANGED <<peers, socket, outbox, clientVars>>
  BY DEF Announces
<1>4. HubInv(Messages)'
  BY <1>1, <1>2, <1>3, TransmitInv DEF ClientInv
<1>5. ClientTyped' /\ Attached'
  BY <1>3 DEF ClientInv, ClientTyped, Attached, Holds, clientVars
<1> QED
  BY <1>4, <1>5 DEF ClientInv

LEMMA ViewerSendsInv ==
  ASSUME ClientInv, NEW v \in Viewers, ViewerSends(v)
  PROVE  ClientInv'
<1>1. /\ viewer[v].sock \in Sockets /\ Holds(v, viewer[v].sock) /\ v \in Devices
      /\ viewer[v].out \in Seq(Messages) /\ viewer[v].out # << >>
      /\ viewer[v] \in ViewerClients /\ viewer \in [Viewers -> ViewerClients]
  BY DEF ClientInv, ClientTyped, Attached, ViewerSends, ViewerClients, Viewers
<1>2. /\ <<Head(viewer[v].out)>> \in Seq(Messages)
      /\ Tail(viewer[v].out) \in Seq(Messages)
  BY <1>1, QueueStep
<1>3. /\ Transmit(viewer[v].sock, v, Host, <<Head(viewer[v].out)>>)
      /\ viewer' = [viewer EXCEPT ![v].out = Tail(@)]
      /\ UNCHANGED <<peers, socket, outbox, host, hostOut, session, active, outage, severed>>
  BY DEF ViewerSends
<1>4. HubInv(Messages)'
  BY <1>1, <1>2, <1>3, TransmitInv DEF ClientInv
<1>5. viewer' = [viewer EXCEPT ![v] = [viewer[v] EXCEPT !.out = Tail(viewer[v].out)]]
  BY <1>1, <1>3
<1>6. /\ [viewer[v] EXCEPT !.out = Tail(viewer[v].out)] \in ViewerClients
      /\ [viewer[v] EXCEPT !.out = Tail(viewer[v].out)].sock = viewer[v].sock
  BY <1>1, <1>2 DEF ViewerClients
<1>7. ClientTyped' /\ Attached'
  BY <1>3, <1>5, <1>6, ViewerTypes
<1> QED
  BY <1>4, <1>7 DEF ClientInv

LEMMA ViewerReadsInv ==
  ASSUME ClientInv, NEW v \in Viewers, ViewerReads(v)
  PROVE  ClientInv'
<1> DEFINE s == viewer[v].sock
           m == Head(outbox[s]).msg
<1>1. /\ s \in Sockets /\ Holds(v, s) /\ outbox[s] # << >>
      /\ viewer[v] \in ViewerClients /\ viewer \in [Viewers -> ViewerClients]
  BY DEF ClientInv, ClientTyped, Attached, ViewerReads, ViewerClients
<1>2. m \in Messages /\ Tail(outbox[s]) \in Seq(Relayed(Messages, socket[s].device))
  BY <1>1, ReceivedFrame DEF ClientInv
<1>3. /\ viewer' = [viewer EXCEPT ![v] = Told(viewer[v], m)]
      /\ outbox' = [outbox EXCEPT ![s] = Tail(@)]
      /\ UNCHANGED <<peers, socket, uplink, host, hostOut, session, active, outage, severed>>
  BY DEF ViewerReads
<1>4. m.n \in Nat /\ Answer(m.n) \in Messages
  BY <1>2, MessageTypes DEF Messages
<1>5. HubInv(Messages)'
  <2> HIDE DEF Messages
  <2>1. /\ DOMAIN outbox' = Sockets
        /\ \A r \in Sockets : outbox'[r] \in Seq(Relayed(Messages, socket[r].device))
        /\ \A r \in Sockets : r # s => outbox'[r] = outbox[r]
    BY <1>1, <1>2, <1>3 DEF ClientInv, HubInv, Typed, WithinAccount
  <2>2. /\ DOMAIN uplink' = Sockets
        /\ \A r \in Sockets : uplink'[r] \in Seq(Uplinked(Messages, socket[r].device))
        /\ uplink' = uplink
    BY <1>3 DEF ClientInv, HubInv, Typed, Stamped
  <2>3. socket[s].stage # "unused"
    BY <1>1, SocketIsNotNone DEF Holds
  <2> QED
    BY <1>3, <2>1, <2>2, <2>3, QueuesInv DEF ClientInv
<1> HIDE DEF m, Messages
<1>6. Append(viewer[v].out, Answer(m.n)) \in Seq(Messages)
  BY <1>1, <1>4 DEF ViewerClients
<1>7. Told(viewer[v], m) \in ViewerClients /\ Told(viewer[v], m).sock = s
  BY <1>1, <1>4, <1>6 DEF Told, ViewerClients
<1>8. ClientTyped' /\ Attached'
  BY <1>3, <1>7, ViewerTypes
<1> QED
  BY <1>5, <1>8 DEF ClientInv

LEMMA ClientStepInv == ClientInv /\ [Next]_vars => ClientInv'
<1> SUFFICES ASSUME ClientInv, [Next]_vars PROVE ClientInv'
  OBVIOUS
<1>1. CASE UNCHANGED vars
  <2>1. HubInv(Messages)'
    BY <1>1, HubIdleInv DEF vars, ClientInv
  <2>2. ClientTyped' /\ Attached'
    BY <1>1 DEF vars, hubVars, clientVars, ClientInv, ClientTyped, Attached, Holds
  <2> QED
    BY <2>1, <2>2 DEF ClientInv
<1>2. CASE HostConnects \/ HostSends \/ HostReads \/ HostAlone
  BY <1>2, HostConnectsInv, HostSendsInv, HostReadsInv, HostAloneInv
<1>3. ASSUME NEW v \in Viewers,
             \/ Open(v) \/ ViewerConnects(v) \/ ViewerLoses(v)
             \/ Announces(v) \/ ViewerReads(v) \/ ViewerSends(v)
      PROVE  ClientInv'
  BY <1>3, OpenInv, ViewerConnectsInv, AnnouncesInv, ViewerReadsInv, ViewerSendsInv
<1>4. ASSUME NEW s \in Sockets, ConnectionGoes(s) \/ HubActs(s)
      PROVE  ClientInv'
  BY <1>4, HubSideInv
<1> QED
  BY <1>1, <1>2, <1>3, <1>4 DEF Next, HostAlone

\* Every client holds a socket of its own only, and everything under way carries its
\* sender's identity (run and the hub's handle_socket together).
THEOREM ClientInvariance == Spec => []ClientInv
  BY ClientInitInv, ClientStepInv, PTL DEF Spec

\* The clients as run writes them, reconnecting and taken over, get nothing of
\* another account's from the hub (Hub::relay under run's traffic).
THEOREM ClientsKeepToTheirAccount == Spec => [](RelayWithinAccount /\ NoGhosts)
<1>1. ClientInv => RelayWithinAccount /\ NoGhosts
  <2>1. ClientInv => RelayWithinAccount
    BY InvIsolates DEF ClientInv
  <2>2. ClientInv => NoGhosts
    BY DEF ClientInv, HubInv, Serves, NoGhosts
  <2> QED
    BY <2>1, <2>2
<1> QED
  BY <1>1, ClientInvariance, PTL

-----------------------------------------------------------------------------
(* What is replayed.                                                        *)

\* What the session has handed over: candidates follow the offer they belong to.
Trickled(out) ==
    \A k \in DOMAIN out :
        /\ out[k].kind \in {"offer", "candidate"}
        /\ out[k].kind = "candidate" /\ k > 1 => out[k - 1] = Offer(out[k].n)

\* The offer of a candidate at the head was handed over before: it is the cached
\* one, unless a switch has emptied the cache since.
Matching(out, h) ==
    out # << >> /\ out[1].kind = "candidate" /\ h.lastOffer # None =>
        out[1].n = h.lastOffer.n

OneConnection(h) ==
    h.lastOffer # None => \A k \in DOMAIN h.candidates : h.candidates[k].n = h.lastOffer.n

CacheInv == Trickled(hostOut) /\ Matching(hostOut, host) /\ OneConnection(host)

\* The messages of one connection keep their order behind those of the last.
LEMMA GatheredTrickles ==
  ASSUME NEW out \in Seq(Messages), Trickled(out), NEW n \in Nat
  PROVE  /\ Trickled(Gathered(n)) /\ Gathered(n)[1].kind = "offer"
         /\ Trickled(out \o Gathered(n))
         /\ out = << >> => (out \o Gathered(n))[1].kind = "offer"
         /\ out # << >> => (out \o Gathered(n))[1] = out[1]
         /\ out \o Gathered(n) # << >>
<1>1. /\ Gathered(n) \in Seq(Messages) /\ Len(Gathered(n)) = 2
      /\ Gathered(n)[1] = Offer(n) /\ Gathered(n)[2] = Candidate(n)
  BY MessageTypes DEF Gathered
<1>2. Trickled(Gathered(n)) /\ Gathered(n)[1].kind = "offer"
  BY <1>1 DEF Trickled, Offer, Candidate
<1> DEFINE g == Gathered(n)
           joined == out \o g
<1> HIDE DEF g
<1>3. /\ joined \in Seq(Messages) /\ Len(joined) = Len(out) + 2 /\ Len(out) \in Nat
      /\ \A k \in 1 .. Len(out) : joined[k] = out[k]
      /\ joined[Len(out) + 1] = Offer(n) /\ joined[Len(out) + 2] = Candidate(n)
  <2> HIDE DEF Messages
  <2>1. g \in Seq(Messages) /\ Len(g) = 2 /\ g[1] = Offer(n) /\ g[2] = Candidate(n)
    BY <1>1 DEF g
  <2>2. /\ joined \in Seq(Messages)
        /\ Len(joined) = Len(out) + Len(g)
        /\ \A i \in 1 .. Len(out) + Len(g) :
              joined[i] = IF i <= Len(out) THEN out[i] ELSE g[i - Len(out)]
    BY <2>1, ConcatProperties, ZenonT(60)
  <2>3. Len(out) \in Nat
    OBVIOUS
  <2> HIDE DEF joined
  <2> QED
    BY <2>1, <2>2, <2>3
<1> HIDE DEF joined
<1>4. Trickled(joined)
  <2> SUFFICES ASSUME NEW k \in DOMAIN joined
               PROVE  /\ joined[k].kind \in {"offer", "candidate"}
                      /\ joined[k].kind = "candidate" /\ k > 1 => joined[k - 1] = Offer(joined[k].n)
    BY DEF Trickled
  <2>1. k \in 1 .. Len(out) + 2
    BY <1>3
  <2>2. CASE k \in 1 .. Len(out)
    <3>1. k \in DOMAIN out /\ joined[k] = out[k] /\ (k > 1 => joined[k - 1] = out[k - 1])
      BY <1>3, <2>2
    <3> QED
      BY <3>1 DEF Trickled
  <2>3. CASE k = Len(out) + 1
    BY <1>3, <2>3 DEF Offer
  <2>4. CASE k = Len(out) + 2
    BY <1>3, <2>4 DEF Offer, Candidate
  <2> QED
    BY <1>3, <2>1, <2>2, <2>3, <2>4
<1>5. out = << >> => joined[1].kind = "offer"
  BY <1>3 DEF Offer
<1>6. out # << >> => joined[1] = out[1]
  BY <1>3
<1>7. joined # << >>
  BY <1>3
<1> QED
  BY <1>2, <1>4, <1>5, <1>6, <1>7 DEF g, joined

\* Caching the head keeps the cache one connection's, and what follows it matching.
LEMMA CachedMatches ==
  ASSUME NEW h \in HostClients, NEW out \in Seq(Messages), out # << >>,
         Trickled(out), Matching(out, h), OneConnection(h)
  PROVE  /\ Trickled(Tail(out))
         /\ Matching(Tail(out), Cached(h, Head(out)))
         /\ OneConnection(Cached(h, Head(out)))
<1> DEFINE m == Head(out)
           c == Cached(h, m)
<1>1. /\ Len(out) \in Nat /\ Len(out) >= 1 /\ DOMAIN out = 1 .. Len(out)
      /\ Len(Tail(out)) = Len(out) - 1 /\ DOMAIN Tail(out) = 1 .. Len(out) - 1
      /\ \A k \in 1 .. Len(out) - 1 : Tail(out)[k] = out[k + 1]
      /\ m = out[1] /\ m \in Messages
  BY QueueStep
<1>2. Trickled(Tail(out))
  <2> SUFFICES ASSUME NEW k \in DOMAIN Tail(out)
               PROVE  /\ Tail(out)[k].kind \in {"offer", "candidate"}
                      /\ Tail(out)[k].kind = "candidate" /\ k > 1
                           => Tail(out)[k - 1] = Offer(Tail(out)[k].n)
    BY DEF Trickled
  <2>1. k + 1 \in DOMAIN out /\ Tail(out)[k] = out[k + 1] /\ (k > 1 => Tail(out)[k - 1] = out[k])
    BY <1>1
  <2>2. (k + 1) - 1 = k /\ k + 1 > 1
    BY <1>1
  <2> QED
    BY <2>1, <2>2 DEF Trickled
<1>3. Tail(out) # << >> => Tail(out)[1] = out[2] /\ 2 \in DOMAIN out
  BY <1>1
<1>4. Tail(out) # << >> /\ Tail(out)[1].kind = "candidate" => m = Offer(Tail(out)[1].n)
  BY <1>1, <1>3 DEF Trickled
<1>5. m.kind \in {"offer", "candidate"}
  BY <1>1 DEF Trickled
<1>6. CASE m.kind = "offer"
  <2>1. c.lastOffer = m /\ c.candidates = << >>
    BY <1>6 DEF Cached, HostClients
  <2> QED
    BY <1>2, <1>4, <2>1 DEF Matching, OneConnection, Offer
<1>7. CASE m.kind = "candidate"
  <2>1. c.lastOffer = h.lastOffer /\ c.candidates = Append(h.candidates, m)
    BY <1>7 DEF Cached, HostClients
  <2>2. Matching(Tail(out), c)
    BY <1>4, <1>7 DEF Matching, Offer
  <2>3. h.lastOffer # None => m.n = h.lastOffer.n
    BY <1>1, <1>7 DEF Matching
  <2>4. h.candidates \in Seq(Messages)
    BY DEF HostClients
  <2>5. OneConnection(c)
    <3> SUFFICES ASSUME h.lastOffer # None, NEW k \in DOMAIN Append(h.candidates, m)
                 PROVE  Append(h.candidates, m)[k].n = h.lastOffer.n
      BY <2>1 DEF OneConnection
    <3>1. \/ k \in DOMAIN h.candidates /\ Append(h.candidates, m)[k] = h.candidates[k]
          \/ Append(h.candidates, m)[k] = m
      BY <2>4
    <3> QED
      BY <2>3, <3>1 DEF OneConnection
  <2> QED
    BY <1>2, <2>2, <2>5
<1> QED
  BY <1>5, <1>6, <1>7

LEMMA CacheInit == Init => CacheInv
<1> SUFFICES ASSUME Init PROVE CacheInv
  OBVIOUS
<1>1. /\ << >> \in Seq(Messages) /\ Trickled(<< >>) /\ 1 \in Nat
  BY EmptyQueue DEF Trickled
<1>2. Trickled(Gathered(1))
  BY <1>1, GatheredTrickles
<1>3. hostOut = Gathered(1) /\ host.lastOffer = None
  BY DEF Init, FreshClient
<1> QED
  BY <1>2, <1>3 DEF CacheInv, Matching, OneConnection

LEMMA CacheStep == ClientInv /\ CacheInv /\ [Next]_vars => CacheInv'
<1> SUFFICES ASSUME ClientInv, CacheInv, [Next]_vars PROVE CacheInv'
  OBVIOUS
<1>0. host \in HostClients /\ hostOut \in Seq(Messages) /\ session.offer + 1 \in Nat
  BY DEF ClientInv, ClientTyped, Sessions
<1>1. ASSUME hostOut' = hostOut, host'.lastOffer = host.lastOffer,
             host'.candidates = host.candidates
      PROVE  CacheInv'
  BY <1>1 DEF CacheInv, Matching, OneConnection
<1>2. ASSUME host' = host, hostOut' = hostOut PROVE CacheInv'
  BY <1>1, <1>2
<1>3. CASE HostConnects \/ HostLoses
  <2>1. hostOut' = hostOut /\ \E s : host' = [host EXCEPT !.sock = s]
    BY <1>3 DEF HostConnects, HostLoses
  <2> QED
    BY <1>0, <1>1, <2>1 DEF HostClients
<1>4. CASE HostRestarts
  <2>1. << >> \in Seq(Messages) /\ Trickled(<< >>)
    BY EmptyQueue DEF Trickled
  <2>2. Trickled(Gathered(session.offer + 1))
    BY <1>0, <2>1, GatheredTrickles
  <2>3. hostOut' = Gathered(session.offer + 1) /\ host'.lastOffer = None
    BY <1>4 DEF HostRestarts, FreshClient
  <2> QED
    BY <2>2, <2>3 DEF CacheInv, Matching, OneConnection
<1>5. CASE HostSends
  <2> DEFINE c == Cached(host, Head(hostOut))
  <2>1. /\ Trickled(Tail(hostOut))
        /\ Matching(Tail(hostOut), c)
        /\ OneConnection(c)
    BY <1>0, <1>5, CachedMatches DEF HostSends, CacheInv
  <2>2. Head(hostOut) \in Messages
    BY <1>0, <1>5, QueueStep DEF HostSends
  <2>3. c \in HostClients
    BY <1>0, <2>2, CachedTypes
  <2>4. hostOut' = Tail(hostOut) /\ host'.lastOffer = c.lastOffer /\ host'.candidates = c.candidates
    <3> HIDE DEF c
    <3>1. hostOut' = Tail(hostOut)
          /\ (host' = c \/ host' = [c EXCEPT !.pending = Append(@, Head(hostOut))])
      BY <1>5 DEF HostSends, c
    <3> QED
      BY <2>3, <3>1 DEF HostClients
  <2> HIDE DEF c
  <2> QED
    BY <2>1, <2>4 DEF CacheInv, Matching, OneConnection
<1>6. CASE HostReads
  <2> DEFINE f == Head(outbox[host.sock])
             greeted == [host EXCEPT !.peer = f.from, !.pending = << >>]
             taken == [greeted EXCEPT !.lastOffer = None, !.candidates = << >>, !.switched = TRUE]
  <2>1. hostOut' = hostOut /\ (host' = taken \/ host' = greeted \/ host' = host)
    BY <1>6 DEF HostReads
  <2>2. greeted.lastOffer = host.lastOffer /\ greeted.candidates = host.candidates
    BY <1>0 DEF HostClients
  <2>3. CASE host' = taken
    <3>1. taken.lastOffer = None
      BY <1>0 DEF HostClients
    <3> QED
      BY <2>1, <2>3, <3>1 DEF CacheInv, Matching, OneConnection
  <2> QED
    BY <1>1, <2>1, <2>2, <2>3
<1>7. CASE SwitchSeen \/ SessionEnds
  <2>1. /\ hostOut' = hostOut \o Gathered(session.offer + 1)
        /\ host' = host \/ host' = [host EXCEPT !.switched = FALSE]
    BY <1>7 DEF SwitchSeen, SessionEnds, MakesOffer
  <2>2. host'.lastOffer = host.lastOffer /\ host'.candidates = host.candidates
    BY <1>0, <2>1 DEF HostClients
  <2>3. /\ Trickled(hostOut')
        /\ hostOut = << >> => hostOut'[1].kind = "offer"
        /\ hostOut # << >> => hostOut'[1] = hostOut[1]
    BY <1>0, <2>1, GatheredTrickles DEF CacheInv
  <2> QED
    BY <2>2, <2>3 DEF CacheInv, Matching, OneConnection
<1>8. CASE HostConnectFails \/ TokenRefreshed \/ HostGivesUp \/ SessionStarts \/ Reports
  <2>1. /\ hostOut' = hostOut
        /\ host' = host \/ host' = [host EXCEPT !.restarting = TRUE]
    BY <1>8 DEF HostConnectFails, TokenRefreshed, HostGivesUp, SessionStarts, Reports
  <2>2. host'.lastOffer = host.lastOffer /\ host'.candidates = host.candidates
    BY <1>0, <2>1 DEF HostClients
  <2> QED
    BY <1>1, <2>1, <2>2
<1>9. ASSUME NEW v \in Viewers,
             \/ Open(v) \/ ViewerConnects(v) \/ ViewerLoses(v)
             \/ Announces(v) \/ ViewerReads(v) \/ ViewerSends(v)
      PROVE  CacheInv'
  BY <1>2, <1>9 DEF Open, ViewerConnects, ViewerLoses, Announces, ViewerReads, ViewerSends, clientVars
<1>10. ASSUME NEW s \in Sockets, ConnectionGoes(s) \/ HubActs(s) PROVE CacheInv'
  BY <1>2, <1>10 DEF ConnectionGoes, HubActs, clientVars
<1>11. CASE UNCHANGED vars
  BY <1>2, <1>11 DEF vars, clientVars
<1> QED
  BY <1>3, <1>4, <1>5, <1>6, <1>7, <1>8, <1>9, <1>10, <1>11 DEF Next

\* What a re-announcing viewer is replayed, the cached offer and its candidates, is
\* one connection's, whatever switches, rebuilds and restarts came between (run's
\* out_rx arm and its handling of a switch).
THEOREM ReplayIsConsistent == Spec => []ReplayIsOneConnection
<1>1. CacheInv => ReplayIsOneConnection
  BY DEF CacheInv, OneConnection, ReplayIsOneConnection
<1> QED
  BY <1>1, CacheInit, CacheStep, ClientInvariance, PTL DEF Spec

-----------------------------------------------------------------------------
(* The watchdog.                                                            *)

\* Without the tray companion the flag is behind a live session by no more than the
\* report of its start.
Flagged == session.live => \/ session.owed = << >> /\ active
                           \/ session.owed = <<"active">>

LEMMA FlaggedInit == Init => Flagged
  BY DEF Init, Flagged

LEMMA FlaggedStep == ~Tray /\ ClientInv /\ Flagged /\ [Next]_vars => Flagged'
<1> SUFFICES ASSUME ~Tray, ClientInv, Flagged, [Next]_vars PROVE Flagged'
  OBVIOUS
<1>0. session \in Sessions
  BY DEF ClientInv, ClientTyped
<1>1. ASSUME UNCHANGED <<session, active>> PROVE Flagged'
  BY <1>1 DEF Flagged
<1>2. CASE HostConnects \/ HostConnectFails \/ TokenRefreshed \/ HostGivesUp \/ HostLoses \/ HostSends
  BY <1>1, <1>2 DEF HostConnects, HostConnectFails, TokenRefreshed, HostGivesUp, HostLoses, HostSends
<1>3. CASE HostReads
  <2>1. /\ active' = active
        /\ session'.live = session.live
        /\ session'.owed = session.owed
    BY <1>0, <1>3 DEF HostReads, Sessions
  <2> QED
    BY <2>1 DEF Flagged
<1>4. CASE HostRestarts \/ SwitchSeen \/ SessionEnds
  <2>1. ~session'.live
    BY <1>4 DEF HostRestarts, SwitchSeen, SessionEnds, MakesOffer
  <2> QED
    BY <2>1 DEF Flagged
<1>5. CASE SessionStarts
  <2>1. session'.owed = <<"active">>
    BY <1>0, <1>5 DEF SessionStarts, Edge, Sessions
  <2> QED
    BY <2>1 DEF Flagged
<1>9. CASE Reports
  <2>1. /\ session'.live = session.live
        /\ session'.owed = Tail(session.owed)
        /\ active' = (Head(session.owed) = "active")
        /\ session.owed # << >>
    BY <1>0, <1>9 DEF Reports, Sessions
  <2>2. ASSUME session.live PROVE session'.owed = << >> /\ active'
    <3>1. session.owed = <<"active">>
      BY <2>1, <2>2 DEF Flagged
    <3>2. Head(<<"active">>) = "active" /\ Tail(<<"active">>) = << >>
      OBVIOUS
    <3> QED
      BY <2>1, <3>1, <3>2
  <2> QED
    BY <2>1, <2>2 DEF Flagged
<1>6. ASSUME NEW v \in Viewers,
             \/ Open(v) \/ ViewerConnects(v) \/ ViewerLoses(v)
             \/ Announces(v) \/ ViewerReads(v) \/ ViewerSends(v)
      PROVE  Flagged'
  BY <1>1, <1>6 DEF Open, ViewerConnects, ViewerLoses, Announces, ViewerReads, ViewerSends, clientVars
<1>7. ASSUME NEW s \in Sockets, ConnectionGoes(s) \/ HubActs(s) PROVE Flagged'
  BY <1>1, <1>7 DEF ConnectionGoes, HubActs, clientVars
<1>8. CASE UNCHANGED vars
  BY <1>1, <1>8 DEF vars, clientVars
<1> QED
  BY <1>2, <1>3, <1>4, <1>5, <1>6, <1>7, <1>8, <1>9 DEF Next

\* Only the watchdog resolves on a restart.
LEMMA OnlyTheWatchdogResolves ==
  ASSUME ClientInv, Next, ~host.restarting, host'.restarting
  PROVE  HostGivesUp
<1>0. host \in HostClients
  BY DEF ClientInv, ClientTyped
<1>1. ~HostConnects
  <2>1. HostConnects => host'.restarting = host.restarting
    BY <1>0 DEF HostConnects, HostClients
  <2> QED
    BY <2>1
<1>2. ~HostSends /\ ~HostReads
  <2>1. ASSUME HostSends PROVE host'.restarting = host.restarting
    BY <1>0, <2>1 DEF HostSends, Cached, HostClients
  <2>2. ASSUME HostReads PROVE host'.restarting = host.restarting
    BY <1>0, <2>2 DEF HostReads, HostClients
  <2> QED
    BY <2>1, <2>2
<1>3. ~HostRestarts /\ ~HostLoses /\ ~SwitchSeen
  BY <1>0 DEF HostRestarts, FreshClient, HostLoses, SwitchSeen, HostClients
<1>4. /\ ~HostConnectFails /\ ~TokenRefreshed
      /\ ~SessionStarts /\ ~SessionEnds /\ ~Reports
  BY DEF HostConnectFails, TokenRefreshed, SessionStarts, SessionEnds, Reports
<1>5. ASSUME NEW v \in Viewers,
             \/ Open(v) \/ ViewerConnects(v) \/ ViewerLoses(v)
             \/ Announces(v) \/ ViewerReads(v) \/ ViewerSends(v)
      PROVE  FALSE
  BY <1>5 DEF Open, ViewerConnects, ViewerLoses, Announces, ViewerReads, ViewerSends, clientVars
<1>6. ASSUME NEW s \in Sockets, ConnectionGoes(s) \/ HubActs(s) PROVE FALSE
  BY <1>6 DEF ConnectionGoes, HubActs, clientVars
<1> QED
  BY <1>1, <1>2, <1>3, <1>4, <1>5, <1>6 DEF Next

\* However long the hub is unreachable, and whatever sessions, losses, rebuilds and
\* restarts came before, the watchdog does not resolve on a restart over a session
\* that the host loop has reported; with the tray companion no report reaches the
\* flag, and it does (session_active in run, notify_status).
THEOREM WatchdogSpares == ~Tray => (Spec => WatchdogSparesReported)
<1> SUFFICES ASSUME ~Tray PROVE Spec => WatchdogSparesReported
  OBVIOUS
<1> DEFINE Spares == ~host.restarting /\ host'.restarting
                       => ~(session.live /\ session.owed = << >>)
<1>1. ClientInv /\ Flagged /\ [Next]_vars => [Spares]_vars
  <2> SUFFICES ASSUME ClientInv, Flagged, Next, ~host.restarting, host'.restarting
               PROVE  ~(session.live /\ session.owed = << >>)
    OBVIOUS
  <2>1. ~active
    BY OnlyTheWatchdogResolves DEF HostGivesUp, Idle
  <2>2. << >> # <<"active">>
    OBVIOUS
  <2> QED
    BY <2>1, <2>2 DEF Flagged
<1>2. Flagged /\ ClientInv /\ [Next]_vars => Flagged'
  BY FlaggedStep
<1> QED
  BY <1>1, <1>2, FlaggedInit, ClientInvariance, PTL DEF Spec, WatchdogSparesReported
=============================================================================
