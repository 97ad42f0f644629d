----------------------------- MODULE ClipboardSync -----------------------------
(***************************************************************************)
(* The clipboards of a host and its viewer, each polled by a thread of its *)
(* own (crates/session/src/clipboard.rs), and what host.rs, viewer.rs and  *)
(* driver.rs do with the updates in between.                               *)
(*                                                                         *)
(* A text stands for its hash, too.  An update is its text: those of       *)
(* another kind, or that are not UTF-8, are ignored.                       *)
(***************************************************************************)
EXTENDS Integers, Sequences

CONSTANTS
    Texts,
    None,        \* an empty clipboard, and last_hash before there is one
    MaxCopies,   \* bound: texts the users copy
    MaxLinks     \* bound: connections

VARIABLES
    clip,       \* the clipboard of a side
    lastHash,
    incoming,   \* the channel behind apply_remote
    at,         \* the thread's loop: at its remote updates, or at the local text
    wire,       \* updates under way to a side
    link,       \* the data channel is open, and the host has accepted the viewer's Hello
    links,
    copied,     \* what a side's user has copied
    copies

vars == <<clip, lastHash, incoming, at, wire, link, links, copied, copies>>

Sides == {"host", "viewer"}
Peer(s) == IF s = "host" THEN "viewer" ELSE "host"

NoLink == [open |-> FALSE, authorized |-> FALSE]
Quiet  == [s \in Sides |-> << >>]

Init ==
    /\ clip = [s \in Sides |-> None]
    /\ lastHash = [s \in Sides |-> None]
    /\ incoming = Quiet
    /\ at = [s \in Sides |-> "apply"]
    /\ wire = Quiet
    /\ link = NoLink /\ links = 0
    /\ copied = [s \in Sides |-> {}] /\ copies = 0

-----------------------------------------------------------------------------
(* The thread.                                                              *)

RememberedMutant(s, t) == UNCHANGED lastHash \* mutant: an applied text is not remembered

\* set_text may fail; only a text that was set is remembered.
Remembered(s, t) == lastHash' = [lastHash EXCEPT ![s] = t]

ApplyRemote(s) ==
    /\ at[s] = "apply"
    /\ incoming[s] # << >>
    /\ incoming' = [incoming EXCEPT ![s] = Tail(@)]
    /\ \/ /\ clip' = [clip EXCEPT ![s] = Head(incoming[s])]
          /\ Remembered(s, Head(incoming[s]))
       \/ UNCHANGED <<clip, lastHash>>
    /\ UNCHANGED <<at, wire, link, links, copied, copies>>

Drained(s) ==
    /\ at[s] = "apply"
    /\ incoming[s] = << >>
    /\ at' = [at EXCEPT ![s] = "detect"]
    /\ UNCHANGED <<clip, lastHash, incoming, wire, link, links, copied, copies>>

\* A send before the data channel is open is dropped.
Sent(s, t) ==
    wire' = IF link.open THEN [wire EXCEPT ![Peer(s)] = Append(@, t)] ELSE wire

DetectLocal(s) ==
    /\ at[s] = "detect"
    /\ at' = [at EXCEPT ![s] = "apply"]
    /\ IF clip[s] \notin {None, lastHash[s]}
         THEN /\ lastHash' = [lastHash EXCEPT ![s] = clip[s]]
              /\ Sent(s, clip[s])
         ELSE UNCHANGED <<lastHash, wire>>
    /\ UNCHANGED <<clip, incoming, link, links, copied, copies>>

-----------------------------------------------------------------------------
(* The rest of the session, and the users.                                  *)

\* handle_control, behind the gate, or the viewer's pump.
Deliver(s) ==
    /\ wire[s] # << >>
    /\ wire' = [wire EXCEPT ![s] = Tail(@)]
    /\ incoming' = IF s = "host" => link.authorized
                     THEN [incoming EXCEPT ![s] = Append(@, Head(wire[s]))]
                     ELSE incoming
    /\ UNCHANGED <<clip, lastHash, at, link, links, copied, copies>>

Opens ==
    /\ ~link.open /\ links < MaxLinks
    /\ link' = [link EXCEPT !.open = TRUE] /\ links' = links + 1
    /\ UNCHANGED <<clip, lastHash, incoming, at, wire, copied, copies>>

Accepts ==
    /\ link.open /\ ~link.authorized
    /\ link' = [link EXCEPT !.authorized = TRUE]
    /\ UNCHANGED <<clip, lastHash, incoming, at, wire, links, copied, copies>>

Closes ==
    /\ link.open
    /\ link' = NoLink /\ wire' = Quiet
    /\ UNCHANGED <<clip, lastHash, incoming, at, links, copied, copies>>

UserCopies(s, t) ==
    /\ copies < MaxCopies
    /\ copies' = copies + 1
    /\ clip' = [clip EXCEPT ![s] = t]
    /\ copied' = [copied EXCEPT ![s] = @ \cup {t}]
    /\ UNCHANGED <<lastHash, incoming, at, wire, link, links>>

Next ==
    \/ \E s \in Sides : \/ ApplyRemote(s) \/ Drained(s) \/ DetectLocal(s) \/ Deliver(s)
                        \/ \E t \in Texts : UserCopies(s, t)
    \/ Opens \/ Accepts \/ Closes

Spec == Init /\ [][Next]_vars

-----------------------------------------------------------------------------

\* "Applying a remote value doesn't bounce back": whatever crosses, fails or
\* reconnects, a side sends only what its own user copied (last_hash in run).
NoEcho ==
    \A s \in Sides : \A k \in DOMAIN wire[Peer(s)] : wire[Peer(s)][k] \in copied[s]

-----------------------------------------------------------------------------
(* What does not hold of the code.                                          *)

\* "Authorize this session: unblocks input/capture/video/file/clipboard handling"
\* (host.rs): nothing of the host's clipboard leaves it before.  The thread sends
\* without a look at `authorized`.
ClipboardWaitsForTheHello == wire["viewer"] # << >> => link.authorized

\* The two sides agree once nothing is under way.  Two copies at the same time
\* change places, and one from before the channel opened is never sent.
Converges ==
    (/\ link.authorized /\ wire = Quiet /\ incoming = Quiet
     /\ \A s \in Sides : clip[s] \in {None, lastHash[s]})
        => clip["host"] = clip["viewer"]
=============================================================================
