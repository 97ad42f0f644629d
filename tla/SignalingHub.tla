----------------------------- MODULE SignalingHub -----------------------------
(***************************************************************************)
(* The rendezvous server's signaling hub                                   *)
(* (apps/rendezvous/src/signaling.rs): which socket serves which device,   *)
(* and the relay of frames between the devices of an account.  A socket is *)
(* a number; it is upgraded once its credential was resolved, registers in *)
(* a task of its own, and unregisters when one of its tasks finds it dead. *)
(***************************************************************************)
EXTENDS Naturals, Sequences, SequencesExt

CONSTANTS
    Devices,     \* signaling ids
    AccountOf,   \* the account each resolves to
    None,        \* no socket, no device, no offer
    Throttled,   \* whether sockets may exceed the frame limit
    MaxSocket,   \* bound: sockets ever opened
    MaxQueue     \* bound: frames under way in a direction of a socket

ASSUME HubAssumption ==
    /\ DOMAIN AccountOf = Devices
    /\ None \notin Devices \cup Nat
    /\ Throttled \in BOOLEAN
    /\ MaxSocket \in Nat
    /\ MaxQueue \in Nat \ {0}

VARIABLES
    peers,    \* Hub.peers: the socket that serves each device, or None
    socket,   \* per socket: its device, its stage at the hub, its connection
    uplink,   \* frames from the socket's client to the hub
    outbox    \* frames from the hub to the socket's client

hubVars == <<peers, socket, uplink, outbox>>

Sockets == 1 .. MaxSocket

\* `from` is set by the hub: the identity the socket's credential resolved to.
Frame(from, to, msg) == [from |-> from, to |-> to, msg |-> msg]

HubInit ==
    /\ peers = [d \in Devices |-> None]
    /\ socket = [s \in Sockets |-> [device |-> None, stage |-> "unused", alive |-> FALSE]]
    /\ uplink = [s \in Sockets |-> << >>]
    /\ outbox = [s \in Sockets |-> << >>]

-----------------------------------------------------------------------------

\* ws_handler: a client with a good credential gets the next socket.
Upgrade(d, s) ==
    /\ s \in Sockets
    /\ socket[s].stage = "unused"
    /\ \A r \in 1 .. s - 1 : socket[r].stage # "unused"
    /\ socket' = [socket EXCEPT ![s] =
                     [device |-> d, stage |-> "accepted", alive |-> TRUE]]
    /\ UNCHANGED <<peers, uplink, outbox>>

\* handle_socket, up to the spawning of its tasks; Hub::register replaces
\* whatever socket served the device before.
Register(s) ==
    /\ socket[s].stage = "accepted"
    /\ socket' = [socket EXCEPT ![s].stage = "registered"]
    /\ peers' = [peers EXCEPT ![socket[s].device] = s]
    /\ UNCHANGED <<uplink, outbox>>

\* The end of handle_socket, when one of its tasks has found the socket dead,
\* with Hub::unregister; what the other task had not read is dropped.
MatchesMutant(d, s) == peers[d] # None   \* mutant: whichever socket is there
MissesMutant(d, s) == FALSE              \* mutant: the entry is left behind
Matches(d, s) == peers[d] = s

Unregister(s) ==
    LET d == socket[s].device IN
    /\ socket[s].stage = "registered"
    /\ ~socket[s].alive
    /\ socket' = [socket EXCEPT ![s].stage = "gone"]
    /\ peers' = IF Matches(d, s) THEN [peers EXCEPT ![d] = None] ELSE peers
    /\ uplink' = [uplink EXCEPT ![s] = << >>]
    /\ UNCHANGED outbox

\* Hub::relay: offline and another account's devices are the same to a sender.
MayRelayMutant(from, to) == peers[to] # None   \* mutant: any account
MayRelay(from, to) == peers[to] # None /\ AccountOf[from] = AccountOf[to]

Relay(s) ==
    /\ socket[s].stage = "registered"
    /\ uplink[s] # << >>
    /\ LET f == Head(uplink[s])
           t == peers[f.to]
       IN IF MayRelay(f.from, f.to) /\ socket[t].alive
            THEN /\ Len(outbox[t]) < MaxQueue
                 /\ outbox' = [outbox EXCEPT ![t] = Append(@, f)]
            ELSE UNCHANGED outbox
    /\ uplink' = [uplink EXCEPT ![s] = Tail(@)]
    /\ UNCHANGED <<peers, socket>>

\* recv_task over the frame limit: the frame is dropped, the socket stays.
Throttle(s) ==
    /\ Throttled
    /\ socket[s].stage = "registered"
    /\ uplink[s] # << >>
    /\ uplink' = [uplink EXCEPT ![s] = Tail(@)]
    /\ UNCHANGED <<peers, socket, outbox>>

\* The connection under a socket goes, with what was under way; neither end
\* knows yet.
Sever(s) ==
    /\ socket[s].alive
    /\ socket' = [socket EXCEPT ![s].alive = FALSE]
    /\ \E kept \in Prefixes(uplink[s]) : uplink' = [uplink EXCEPT ![s] = kept]
    /\ outbox' = [outbox EXCEPT ![s] = << >>]
    /\ UNCHANGED peers

HubStep(s) == Register(s) \/ Unregister(s) \/ Relay(s) \/ Throttle(s)

\* The hub among clients of which nothing is known: they open sockets, also
\* several at once for a device, and address whom they like.
Send(s, msg) ==
    /\ socket[s].alive
    /\ Len(uplink[s]) < MaxQueue
    /\ \E to \in Devices :
          uplink' = [uplink EXCEPT ![s] = Append(@, Frame(socket[s].device, to, msg))]
    /\ UNCHANGED <<peers, socket, outbox>>

Deliver(s) ==
    /\ outbox[s] # << >>
    /\ outbox' = [outbox EXCEPT ![s] = Tail(@)]
    /\ UNCHANGED <<peers, socket, uplink>>

HubNext ==
    \E s \in Sockets :
        \/ \E d \in Devices : Upgrade(d, s)
        \/ Send(s, None)
        \/ Deliver(s)
        \/ Sever(s)
        \/ HubStep(s)

HubSpec == HubInit /\ [][HubNext]_hubVars

-----------------------------------------------------------------------------

\* No frame reaches a device of another account (the account check in relay,
\* against sockets that are replaced between a frame and its delivery).
RelayWithinAccount ==
    \A s \in Sockets : \A k \in DOMAIN outbox[s] :
        AccountOf[outbox[s][k].from] = AccountOf[socket[s].device]

\* A device whose socket lives goes offline only by being replaced: the teardown
\* of an older socket never evicts a newer one (same_channel in unregister).
EvictsOnlyItself ==
    [][\A d \in Devices :
          peers[d] # None /\ peers'[d] = None => ~socket[peers[d]].alive]_hubVars

\* Nothing is relayed to a socket whose handler has ended (unregister at the end
\* of handle_socket, whatever registered in between).
NoGhosts ==
    \A d \in Devices : peers[d] # None => socket[peers[d]].stage = "registered"
=============================================================================
