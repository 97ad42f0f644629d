------------------------------- MODULE Pairing -------------------------------
(***************************************************************************)
(* Direct pairing: the two-member rooms of the signaling hub (join_room,   *)
(* relay_room, leave_room in apps/rendezvous/src/signaling.rs) and the     *)
(* client's SPAKE2 exchange over one                                       *)
(* (crates/session/src/pairing_client.rs, pairing.rs).                     *)
(*                                                                         *)
(* One room: the channels of two codes may be the same, since there are a  *)
(* thousand of them.  An attempt is one run of pair_pake, with the secret  *)
(* of the code it was given; a user who tries again makes another.  A      *)
(* message and the key it leads to are named by the attempts they are made *)
(* of.                                                                     *)
(***************************************************************************)
EXTENDS Naturals, Sequences, SequencesExt, FiniteSets

CONSTANTS
    Attempts,    \* runs of pair_pake with a code of this channel
    SecretOf,    \* [Attempts -> secrets]
    NoOne,
    MayQuit      \* those that may be killed, or lose their network

VARIABLES
    room,    \* the members, in order of arrival
    up,      \* frames from a client to the server; "end" once it has closed
    inbox,   \* from the server to a client
    at,      \* where pair_pake stands
    peer,    \* whose Hello it went on with
    cut      \* history: those that had returned and did not get through what they sent

vars == <<room, up, inbox, at, peer, cut>>

Init ==
    /\ room = << >>
    /\ up = [a \in Attempts |-> << >>] /\ inbox = [a \in Attempts |-> << >>]
    /\ at = [a \in Attempts |-> "off"]
    /\ peer = [a \in Attempts |-> NoOne]
    /\ cut = {}

Joined == [t |-> "joined"]
Left   == [t |-> "left"]
End    == [t |-> "end"]
Hello(a)      == [t |-> "hello", from |-> a]
\* The tag of a's role under the key of its secret and the two Hellos.
Confirm(a, b) == [t |-> "confirm", secret |-> SecretOf[a], from |-> a, to |-> b]

Members == ToSet(room)
Others(a) == Members \ {a}
ToOthersMutant(a, msg) ==   \* mutant: a member's queue holds the newest frame only
    [b \in Attempts |-> IF b \in Others(a) THEN <<msg>> ELSE inbox[b]]
ToOthers(a, msg) == [b \in Attempts |-> IF b \in Others(a) THEN Append(inbox[b], msg) ELSE inbox[b]]

-----------------------------------------------------------------------------
(* The hub.                                                                 *)

\* Connected and, unless the room is full, a member; both sides hear of it.
JoinRoom(a) ==
    /\ at[a] = "off"
    /\ IF Len(room) < 2
         THEN /\ room' = Append(room, a)
              /\ inbox' = IF room = << >> THEN inbox
                          ELSE [ToOthers(a, Joined) EXCEPT ![a] = Append(@, Joined)]
              /\ at' = [at EXCEPT ![a] = "waiting"]
         ELSE at' = [at EXCEPT ![a] = "failed"] /\ UNCHANGED <<room, inbox>>
    /\ UNCHANGED <<up, peer, cut>>

RelayRoom(a) == ToOthers(a, Head(up[a]))

ReadFrame(a) ==
    /\ up[a] # << >> /\ Head(up[a]) # End
    /\ up' = [up EXCEPT ![a] = Tail(@)]
    /\ inbox' = RelayRoom(a)
    /\ UNCHANGED <<room, at, peer, cut>>

LeaveRoom(a) ==
    /\ up[a] # << >> /\ Head(up[a]) = End
    /\ up' = [up EXCEPT ![a] = Tail(@)]
    /\ room' = SelectSeq(room, LAMBDA b : b # a)
    /\ inbox' = [ToOthers(a, Left) EXCEPT ![a] = << >>]
    /\ UNCHANGED <<at, peer, cut>>

-----------------------------------------------------------------------------
(* pair_pake.  It returns by closing its socket, with what is unread.        *)

Receive(a, where, kinds) ==
    /\ at[a] = where
    /\ inbox[a] # << >>
    /\ Head(inbox[a]).t \in kinds
    /\ inbox' = [inbox EXCEPT ![a] = Tail(@)]
    /\ UNCHANGED <<room, cut>>

Send(a, msgs) == up' = [up EXCEPT ![a] = @ \o msgs]
Goes(a, to)   == at' = [at EXCEPT ![a] = to]

\* wait_for_peer, and then our Hello.
PeerJoined(a) ==
    /\ Receive(a, "waiting", {"joined"})
    /\ Send(a, <<Hello(a)>>) /\ Goes(a, "greeted") /\ UNCHANGED peer

PeerLeft(a) ==
    /\ Receive(a, "waiting", {"left"})
    /\ Send(a, <<End>>) /\ Goes(a, "failed") /\ UNCHANGED peer

\* recv passes over the relay's own frames, a peer that left among them.
Skip(a) ==
    /\ \/ Receive(a, "waiting", {"hello", "confirm"})
       \/ Receive(a, "greeted", {"joined", "left", "confirm"})
       \/ Receive(a, "confirming", {"joined", "left", "hello"})
    /\ UNCHANGED <<up, at, peer>>

PeerHello(a) ==
    /\ Receive(a, "greeted", {"hello"})
    /\ LET b == Head(inbox[a]).from IN
          /\ peer' = [peer EXCEPT ![a] = b]
          /\ Send(a, <<Confirm(a, b)>>)
    /\ Goes(a, "confirming")

\* tags_equal: the peer's tag for its role, under our key.
TagsEqualMutant(a, tag) == tag.secret = SecretOf[a]   \* mutant: a tag bound to no Hello
TagsEqual(a, tag) == tag = [Confirm(a, peer[a]) EXCEPT !.from = peer[a], !.to = a]

PeerConfirms(a) ==
    /\ Receive(a, "confirming", {"confirm"})
    /\ Goes(a, IF TagsEqual(a, Head(inbox[a])) THEN "paired" ELSE "failed")
    /\ Send(a, <<End>>)
    /\ UNCHANGED peer

\* The user gives up, the process dies, or the network or the hub does: of what
\* was sent the rest may be lost.
Quit(a) ==
    /\ a \in MayQuit
    /\ at[a] \in {"waiting", "greeted", "confirming"}
    /\ \E sent \in Prefixes(up[a]) : up' = [up EXCEPT ![a] = sent \o <<End>>]
    /\ Goes(a, "gone")
    /\ UNCHANGED <<room, inbox, peer, cut>>

\* The same once pair_pake has returned: what it sent last, its Confirm, is still
\* under way, or unread when the hub gives the connection up.
Cut(a) ==
    /\ a \in MayQuit
    /\ at[a] \in {"paired", "failed"}
    /\ \E sent \in Prefixes(up[a]) :
          /\ Len(sent) + 1 < Len(up[a])
          /\ up' = [up EXCEPT ![a] = sent \o <<End>>]
    /\ cut' = cut \cup {a}
    /\ UNCHANGED <<room, inbox, at, peer>>

-----------------------------------------------------------------------------

Client(a) ==
    PeerJoined(a) \/ PeerLeft(a) \/ Skip(a) \/ PeerHello(a) \/ PeerConfirms(a)

Hub(a) == ReadFrame(a) \/ LeaveRoom(a)

Next == \E a \in Attempts : JoinRoom(a) \/ Hub(a) \/ Client(a) \/ Quit(a) \/ Cut(a)

Spec == Init /\ [][Next]_vars

\* Tasks and clients run on; nobody has to join, or to quit.
FairSpec == Spec /\ \A a \in Attempts : WF_vars(Hub(a)) /\ WF_vars(Client(a))

-----------------------------------------------------------------------------

\* "Both sides learn each other's authenticated device identity" (pairing_client.rs):
\* whoever has paired knows a peer that was given the same secret and that is bound
\* to it in turn, whatever others did in the room meanwhile.
PairedIsMutual ==
    \A a \in Attempts :
        at[a] = "paired" =>
            /\ peer[a] \in Attempts \ {a}
            /\ SecretOf[peer[a]] = SecretOf[a]
            /\ peer[peer[a]] = a

\* Neither side is left with an identity the other never learns: when one has
\* paired so does the other, whoever joined, left or took the place of another in
\* the room meanwhile, unless the other is killed, or the connection of the one
\* that has paired is lost with its Confirm in it.
HalfPaired == \E a \in Attempts : at[a] = "paired" /\ at[peer[a]] \notin {"paired", "gone"}

HalfUncut ==
    \E a \in Attempts \ cut : at[a] = "paired" /\ at[peer[a]] \notin {"paired", "gone"}

BothUnlessCut == HalfUncut ~> ~HalfUncut

\* Does not hold of the code.  "Both sides learn each other's authenticated device
\* identity" (pairing_client.rs:6): the one that verified the other's tag returns at
\* once; when its own is lost, the other waits for it without an end.
BothOrNeither == HalfPaired ~> ~HalfPaired

\* Does not hold of the code.  Waiting for "joined" before the first send "makes the exchange race-free"
\* (pairing_client.rs:70): two that are alone in the room with the same secret, and
\* stay, pair.  Not when one of them has greeted a peer that left: it sends no
\* second Hello, and waits for ever with the one that came instead.
PresentPeersPair ==
    \A a, b \in Attempts :
        a # b /\ SecretOf[a] = SecretOf[b] /\ Members = {a, b}
          ~> \/ Members # {a, b} \/ at[a] \in {"paired", "gone"} \/ at[b] \in {"paired", "gone"}
=============================================================================
