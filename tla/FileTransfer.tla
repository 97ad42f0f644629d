----------------------------- MODULE FileTransfer -----------------------------
(***************************************************************************)
(* Resumable file transfer (crates/session/src/filexfer.rs) from a viewer, *)
(* the side that sends in this system, to a host: the viewer's manager and *)
(* its sending threads, the two directions of the control channel, the     *)
(* host's manager, and the host's download directory.                      *)
(*                                                                         *)
(* A chunk is the unit of length.  A content is a sequence of chunks, and  *)
(* a SHA-256 digest is the sequence it was computed over.  The .part and   *)
(* the final file of a name are inodes, for an open file outlives its      *)
(* renaming. The managers live through reconnects of the channel, but not  *)
(* through a restart of their process.                                     *)
(***************************************************************************)
EXTENDS Naturals, Sequences, SequencesExt, FiniteSetsExt

CONSTANTS
    Transfers,   \* transfer ids
    Names,       \* file names in the download directory
    NameOf,      \* the name of the file a transfer id is made from
    Contents,    \* what a file may contain
    Nothing,     \* stands for "no file" and "no receiver"
    Hole,        \* a chunk nobody wrote
    Window,      \* WINDOW, in chunks
    AckEvery,    \* ACK_EVERY, in chunks
    Failing,     \* the operations the file systems may refuse
    Inodes,      \* bound: .part files ever created
    MaxFlight,   \* bound: messages under way in a direction
    Faults,      \* bound: which faults happen
    MaxFaults    \* bound: how many of them happen

ASSUME TransferAssumption ==
    /\ NameOf \in [Transfers -> Names]
    /\ Contents \subseteq Seq(STRING)
    /\ Nothing \notin Inodes
    /\ Window \in Nat \ {0}
    /\ AckEvery \in Nat \ {0}
    /\ AckEvery <= Window
    /\ Failing \subseteq {"open", "read", "truncate", "write", "rename"}
    /\ MaxFlight \in Nat \ {0}
    /\ Faults \subseteq {"link", "viewer", "host"}
    /\ MaxFaults \in Nat

VARIABLES
    sender,   \* per transfer: its SendShared, and where its send_loop stands
    toRecv,   \* messages to the host
    toSend,   \* messages to the viewer
    recvs,    \* the host's RecvState per transfer, or Nothing
    part,     \* inode of <name>.part, or Nothing
    final,    \* inode of <name>, or Nothing
    data,     \* what every inode holds
    up,       \* the control channel is open and its viewer accepted
    faults,   \* history: the faults there were
    offered   \* history: for every name, the contents offered under it

senderVars == <<sender, toSend>>
diskVars   == <<part, final, data>>
vars == <<sender, toRecv, toSend, recvs, diskVars, up, faults, offered>>

Idle == [phase |-> "idle", content |-> << >>, next |-> 0, acked |-> 0,
         started |-> FALSE, cancel |-> FALSE]

\* `at` is the offset of a chunk or an ack and the size of an offer, `body` the
\* chunk, or the digest of a completion.
Message(kind, t, at, body) == [kind |-> kind, id |-> t, at |-> at, body |-> body]

Init ==
    /\ sender = [t \in Transfers |-> Idle]
    /\ toRecv = << >>
    /\ toSend = << >>
    /\ recvs = [t \in Transfers |-> Nothing]
    /\ part = [n \in Names |-> Nothing]
    /\ final = [n \in Names |-> Nothing]
    /\ data = [i \in Inodes |-> << >>]
    /\ up = TRUE
    /\ faults = << >>
    /\ offered = [n \in Names |-> {}]

\* A message sent while the channel is down is dropped.
Ship(queue, m) == IF up THEN Append(queue, m) ELSE queue
Room(queue)    == Len(queue) < MaxFlight

-----------------------------------------------------------------------------
(* The viewer: its manager, and the sending threads.                        *)

\* send_file
Offer(t, c) ==
    /\ sender[t].phase = "idle"
    /\ Room(toRecv)
    /\ sender' = [sender EXCEPT ![t] = [Idle EXCEPT !.phase = "offered", !.content = c]]
    /\ toRecv' = Ship(toRecv, Message("offer", t, Len(c), << >>))
    /\ offered' = [offered EXCEPT ![NameOf[t]] = @ \cup {c}]
    /\ UNCHANGED <<toSend, recvs, diskVars, up, faults>>

\* send_loop, once the first ack is there: it goes on from where the host is.
Begin(t) ==
    /\ sender[t].phase = "offered"
    /\ sender[t].started
    /\ sender' = [sender EXCEPT ![t].phase = "sending", ![t].next = sender[t].acked]
    /\ UNCHANGED <<toRecv, toSend, recvs, diskVars, up, faults, offered>>

WindowOpenMutant(s) == TRUE   \* mutant: the window is not looked at
WindowOpen(s) == s.next < s.acked + Window

SendChunk(t) ==
    LET s == sender[t] IN
    /\ s.phase = "sending"
    /\ s.next < Len(s.content)
    /\ WindowOpen(s)
    /\ Room(toRecv)
    /\ toRecv' = Ship(toRecv, Message("chunk", t, s.next, <<s.content[s.next + 1]>>))
    /\ sender' = [sender EXCEPT ![t].next = s.next + 1]
    /\ UNCHANGED <<toSend, recvs, diskVars, up, faults, offered>>

AllAckedMutant(s) == s.next >= Len(s.content)   \* mutant: complete when all is sent
AllAcked(s) == s.next >= Len(s.content) /\ s.acked >= Len(s.content)

Conclude(t) ==
    LET s == sender[t] IN
    /\ s.phase = "sending"
    /\ AllAcked(s)
    /\ Room(toRecv)
    /\ toRecv' = Ship(toRecv, Message("complete", t, 0, s.content))
    /\ sender' = [sender EXCEPT ![t].phase = "completed"]
    /\ UNCHANGED <<toSend, recvs, diskVars, up, faults, offered>>

\* The thread notices a cancel at the top of its loop, whenever it gets there,
\* and gives up, without a word, when it cannot read the file.
GiveUp(t) ==
    /\ sender[t].phase \in {"offered", "sending"}
    /\ sender[t].cancel \/ Failing \cap {"open", "read"} # {}
    /\ sender' = [sender EXCEPT ![t].phase = "stopped"]
    /\ UNCHANGED <<toRecv, toSend, recvs, diskVars, up, faults, offered>>

Known(t) == sender[t].phase # "idle" /\ ~sender[t].cancel

\* cancel
CancelSend(t) ==
    /\ Known(t)
    /\ Room(toRecv)
    /\ sender' = [sender EXCEPT ![t].cancel = TRUE]
    /\ toRecv' = Ship(toRecv, Message("cancel", t, 0, << >>))
    /\ UNCHANGED <<toSend, recvs, diskVars, up, faults, offered>>

\* on_ack and on_cancel
HandleAck ==
    /\ toSend # << >>
    /\ toSend' = Tail(toSend)
    /\ LET m == Head(toSend) IN
       sender' = IF ~Known(m.id) THEN sender
                 ELSE IF m.kind = "ack"
                 THEN [sender EXCEPT ![m.id].acked = m.at, ![m.id].started = TRUE]
                 ELSE [sender EXCEPT ![m.id].cancel = TRUE]
    /\ UNCHANGED <<toRecv, recvs, diskVars, up, faults, offered>>

-----------------------------------------------------------------------------
(* The host's manager.                                                      *)

Handle(kind) ==
    /\ toRecv # << >>
    /\ Head(toRecv).kind = kind
    /\ toRecv' = Tail(toRecv)
    /\ UNCHANGED <<sender, up, faults, offered>>

AckAt(t, offset) ==
    /\ Room(toSend)
    /\ toSend' = Ship(toSend, Message("ack", t, offset, << >>))

Fresh(i) == /\ \A n \in Names : i \notin {part[n], final[n]}
            /\ \A t \in Transfers : recvs[t] # Nothing => recvs[t].inode # i

\* How much of a .part of `length` chunks an offer of `size` adopts.
ResumeAt(length, size) == Min({length, size})

\* What of the adopted chunks is hashed: reading stops, unnoticed, at an error.
HashedMutant(kept) == {<< >>}   \* mutant: the adopted chunks are not hashed
Hashed(kept) == IF "read" \in Failing THEN Prefixes(kept) ELSE {kept}

\* What becomes of a .part to be cut: a refusal goes unnoticed, too.
Cut(held, kept) == IF "truncate" \in Failing THEN {held, kept} ELSE {kept}

\* on_offer: adopt what the .part holds already, hash it, and cut the rest off.
HandleOffer ==
    /\ Handle("offer")
    /\ LET m == Head(toRecv)
           n == NameOf[m.id]
       IN \E i \in Inodes :
          /\ IF part[n] = Nothing THEN Fresh(i) ELSE i = part[n]
          /\ LET held   == IF part[n] = Nothing THEN << >> ELSE data[i]
                 resume == ResumeAt(Len(held), m.at)
                 kept   == SubSeq(held, 1, resume)
             IN /\ \E d \in Cut(held, kept) : data' = [data EXCEPT ![i] = d]
                /\ \E h \in Hashed(kept) :
                       recvs' = [recvs EXCEPT ![m.id] =
                                    [inode |-> i, written |-> resume, size |-> m.at,
                                     lastAck |-> resume, hash |-> h]]
                /\ AckAt(m.id, resume)
          /\ part' = [part EXCEPT ![n] = i]
    /\ UNCHANGED final

\* The directory or the .part cannot be opened: the offer goes unanswered.
RefuseOffer ==
    /\ "open" \in Failing
    /\ Handle("offer")
    /\ UNCHANGED <<toSend, recvs, diskVars>>

\* The file's cursor is where this receiver last wrote; past the end of the
\* file, whoever shortened it, a write leaves a hole.
Put(file, at, chunk) ==
    [k \in 1 .. Max({Len(file), at + 1}) |->
        IF k = at + 1 THEN chunk ELSE IF k <= Len(file) THEN file[k] ELSE Hole]

AckDueMutant(r, written) == written - r.lastAck >= AckEvery   \* mutant: no last ack
AckDue(r, written) == written - r.lastAck >= AckEvery \/ written = r.size

\* on_chunk, at the receiver's write cursor.
HandleChunk ==
    /\ Handle("chunk")
    /\ LET m == Head(toRecv)
           r == recvs[m.id]
           written == r.written + 1
       IN /\ r # Nothing
          /\ m.at = r.written
          /\ data' = [data EXCEPT ![r.inode] = Put(@, r.written, m.body[1])]
          /\ IF AckDue(r, written)
               THEN /\ AckAt(m.id, written)
                    /\ recvs' = [recvs EXCEPT ![m.id] =
                          [r EXCEPT !.written = written, !.lastAck = written,
                                    !.hash = Append(@, m.body[1])]]
               ELSE /\ UNCHANGED toSend
                    /\ recvs' = [recvs EXCEPT ![m.id] =
                          [r EXCEPT !.written = written,
                                    !.hash = Append(@, m.body[1])]]
    /\ UNCHANGED <<part, final>>

\* A duplicate is ignored; a gap or a failed write fails the transfer in the
\* log only: the receiver stays as it is.
DropChunk ==
    /\ Handle("chunk")
    /\ LET m == Head(toRecv)
           r == recvs[m.id]
       IN r # Nothing /\ m.at = r.written => "write" \in Failing
    /\ UNCHANGED <<toSend, recvs, diskVars>>

\* on_complete
VerifiedMutant(r, m) == r.written = r.size   \* mutant: the digest is not compared
Verified(r, m) == r.written = r.size /\ r.hash = m.body

Complete ==
    /\ Handle("complete")
    /\ recvs' = [recvs EXCEPT ![Head(toRecv).id] = Nothing]
    /\ UNCHANGED <<toSend, data>>

IgnoreComplete ==
    /\ Complete
    /\ recvs[Head(toRecv).id] = Nothing
    /\ UNCHANGED <<part, final>>

\* Short, or another digest: the .part of that name is removed.
RejectComplete ==
    /\ Complete
    /\ LET m == Head(toRecv) IN
       /\ recvs[m.id] # Nothing
       /\ ~Verified(recvs[m.id], m)
       /\ part' = [part EXCEPT ![NameOf[m.id]] = Nothing]
    /\ UNCHANGED final

\* rename, which fails when the .part is gone.
AcceptComplete ==
    /\ Complete
    /\ LET m == Head(toRecv)
           n == NameOf[m.id]
       IN /\ recvs[m.id] # Nothing
          /\ Verified(recvs[m.id], m)
          /\ \/ /\ part[n] # Nothing
                /\ final' = [final EXCEPT ![n] = part[n]]
                /\ part' = [part EXCEPT ![n] = Nothing]
             \/ /\ part[n] = Nothing \/ "rename" \in Failing
                /\ UNCHANGED <<part, final>>

\* on_cancel keeps the .part for a later resume.
HandleCancel ==
    /\ Handle("cancel")
    /\ recvs' = [recvs EXCEPT ![Head(toRecv).id] = Nothing]
    /\ UNCHANGED <<toSend, diskVars>>

\* cancel, on the receiving side
CancelReceive(t) ==
    /\ recvs[t] # Nothing
    /\ Room(toSend)
    /\ recvs' = [recvs EXCEPT ![t] = Nothing]
    /\ toSend' = Ship(toSend, Message("cancel", t, 0, << >>))
    /\ UNCHANGED <<sender, toRecv, diskVars, up, faults, offered>>

-----------------------------------------------------------------------------
(* Faults.  What had arrived before the channel went is still handled.      *)

Fault(kind) ==
    /\ kind \in Faults
    /\ Len(faults) < MaxFaults
    /\ faults' = Append(faults, kind)
    /\ up' = FALSE
    /\ UNCHANGED <<diskVars, offered>>

LinkLost ==
    /\ up
    /\ Fault("link")
    /\ toRecv' \in Prefixes(toRecv)
    /\ toSend' \in Prefixes(toSend)
    /\ UNCHANGED <<sender, recvs>>

LinkBack ==
    /\ ~up
    /\ up' = TRUE
    /\ UNCHANGED <<sender, toRecv, toSend, recvs, diskVars, faults, offered>>

\* A new viewer process counts its transfer ids from the start again.
ViewerRestarts ==
    /\ Fault("viewer")
    /\ sender' = [t \in Transfers |-> Idle]
    /\ toSend' = << >>
    /\ toRecv' \in Prefixes(toRecv)
    /\ UNCHANGED recvs

HostRestarts ==
    /\ Fault("host")
    /\ recvs' = [t \in Transfers |-> Nothing]
    /\ toRecv' = << >>
    /\ toSend' \in Prefixes(toSend)
    /\ UNCHANGED sender

-----------------------------------------------------------------------------

Viewer ==
    \/ \E t \in Transfers : \/ \E c \in Contents : Offer(t, c)
                            \/ Begin(t) \/ SendChunk(t) \/ Conclude(t)
                            \/ GiveUp(t) \/ CancelSend(t)
    \/ HandleAck

Host ==
    \/ HandleOffer \/ RefuseOffer \/ HandleChunk \/ DropChunk
    \/ IgnoreComplete \/ RejectComplete \/ AcceptComplete \/ HandleCancel
    \/ \E t \in Transfers : CancelReceive(t)

Next == Viewer \/ Host \/ LinkLost \/ LinkBack \/ ViewerRestarts \/ HostRestarts

\* The sending threads, and the loops that handle what arrives, run on; nobody
\* has to offer or to cancel anything, and no fault has to happen.
Fairness ==
    /\ \A t \in Transfers : WF_vars(Begin(t) \/ SendChunk(t) \/ Conclude(t) \/ GiveUp(t))
    /\ WF_vars(HandleAck)
    /\ WF_vars(HandleOffer \/ HandleChunk \/ DropChunk \/ HandleCancel
               \/ IgnoreComplete \/ RejectComplete \/ AcceptComplete)

Spec == Init /\ [][Next]_vars

FairSpec == Spec /\ Fairness

-----------------------------------------------------------------------------

\* What the download directory holds.
Files == [n \in Names |-> IF final[n] = Nothing THEN Nothing ELSE data[final[n]]]

Copy == INSTANCE FileCopy WITH files <- Files

\* Whatever is lost, restarted, cancelled or resumed, a file in the download
\* directory is the whole of a file that was offered under its name, and is only
\* ever replaced by another one (the .part and the digest in on_complete).
CopiesWholeFiles == Copy!CopySpec

\* The digest a receiver computes is that of what its .part really holds, also
\* after it adopted and cut what an earlier transfer left (on_offer's re-hash).
ReceiverMatchesDisk ==
    \A t \in Transfers :
        recvs[t] # Nothing =>
            /\ recvs[t].written = Len(recvs[t].hash)
            /\ IsPrefix(recvs[t].hash, data[recvs[t].inode])

\* A transfer never has more than a window of chunks under way, over restarts
\* and resumes, too (the window in send_loop against the acks of on_chunk).
FlightWithinWindow ==
    \A t \in Transfers :
        Cardinality({k \in DOMAIN toRecv : toRecv[k].kind = "chunk" /\ toRecv[k].id = t})
            <= Window

\* When the sending side reports a transfer completed, the host has all of it on
\* disk: a host that restarts just then still has it in the .part.
CompletedIsHeld ==
    \A t \in Transfers :
        sender[t].phase = "completed" =>
            \/ final[NameOf[t]] # Nothing /\ data[final[NameOf[t]]] = sender[t].content
            \/ part[NameOf[t]] # Nothing  /\ data[part[NameOf[t]]] = sender[t].content

\* What the two ends hold of each other.  A viewer that restarts counts its ids from
\* the start again, and what it left under way is then taken for the new file's, so
\* the last two hold until it does.
EndsAgree ==
    /\ ReceiverMatchesDisk
    /\ "viewer" \notin ToSet(faults) => CompletedIsHeld /\ FlightWithinWindow

\* Unless a fault comes in between every transfer comes to an end: neither side
\* ever waits for an ack the other does not owe (ACK_EVERY against WINDOW, and the
\* last ack in on_chunk).
EveryTransferEnds ==
    \A t \in Transfers :
        sender[t].phase = "offered"
            ~> sender[t].phase \in {"completed", "stopped"} \/ faults # << >>

-----------------------------------------------------------------------------
(* What the source's comments say and the code does not keep.               *)

\* "The receiver verifies its own digest, renames .part -> final": the file that
\* gets the final name has the digest that was verified.
DeliveredIsVerified ==
    [][\A n \in Names : final'[n] # final[n] => data'[final'[n]] = Head(toRecv).body]_vars

\* "transfer_id is unique": a file is sent to the receiver that was set up for it.
OneIdOneFile ==
    \A t \in Transfers :
        sender[t].phase = "sending" /\ recvs[t] # Nothing
            => recvs[t].size = Len(sender[t].content)

\* "chunks arrive in sequence with no gaps": the next chunk of a transfer is never
\* past the receiver's cursor.
ChunksArriveInSequence ==
    \A k \in DOMAIN toRecv :
        LET m == toRecv[k]
            earlier == {j \in 1 .. k - 1 : toRecv[j].id = m.id}
        IN m.kind = "chunk" /\ earlier = {} /\ recvs[m.id] # Nothing
              => m.at <= recvs[m.id].written
=============================================================================
