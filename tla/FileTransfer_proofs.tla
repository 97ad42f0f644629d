-------------------------- MODULE FileTransfer_proofs --------------------------
(***************************************************************************)
(* Proofs about FileTransfer, for every value of its constants.            *)
(*                                                                         *)
(* Two transfers of one name share a .part, and then nothing that is said  *)
(* here is true of the code (DeliveredIsVerified); nor does the digest     *)
(* tell what a .part holds once re-reading or cutting it fails without a   *)
(* word.  The theorems name what they need of this as hypotheses.          *)
(***************************************************************************)
EXTENDS FileTransfer, FiniteSetTheorems, TLAPS

USE TransferAssumption DEF TransferAssumption

\* No two transfer ids are made from one file name.
OneIdPerName == \A t, u \in Transfers : NameOf[t] = NameOf[u] => t = u

-----------------------------------------------------------------------------
(* Types.                                                                   *)

Senders ==
  [phase : {"idle", "offered", "sending", "completed", "stopped"}, content : Seq(STRING),
   next : Nat, acked : Nat, started : BOOLEAN, cancel : BOOLEAN]

Receivers ==
  [inode : Inodes, written : Nat, size : Nat, lastAck : Nat,
   hash : Seq(STRING \cup {Hole})]

ToHost ==
  [kind : {"offer", "complete", "cancel"}, id : Transfers, at : Nat, body : Seq(STRING)]
  \cup [kind : {"chunk"}, id : Transfers, at : Nat, body : {<<c>> : c \in STRING}]

ToViewer == [kind : {"ack", "cancel"}, id : Transfers, at : Nat, body : {<< >>}]

\* Every variable keeps to its values.
TypeOK ==
  /\ sender \in [Transfers -> Senders]
  /\ toRecv \in Seq(ToHost)
  /\ toSend \in Seq(ToViewer)
  /\ recvs \in [Transfers -> Receivers \cup {Nothing}]
  /\ part \in [Names -> Inodes \cup {Nothing}]
  /\ final \in [Names -> Inodes \cup {Nothing}]
  /\ data \in [Inodes -> Seq(STRING \cup {Hole})]
  /\ up \in BOOLEAN
  /\ faults \in Seq(Faults)
  /\ offered \in [Names -> SUBSET Contents]

-----------------------------------------------------------------------------
(* The invariants.                                                          *)

\* A .part is nobody else's .part, and no file that was delivered.
Apart ==
  \A n, m \in Names :
    part[n] # Nothing => part[n] # final[m] /\ (part[n] = part[m] => n = m)

\* What is on its way, and what came, was offered under its name.
Genuine ==
  /\ \A t \in Transfers :
       sender[t].phase # "idle" => sender[t].content \in offered[NameOf[t]]
  /\ \A k \in DOMAIN toRecv :
       toRecv[k].kind = "complete" => toRecv[k].body \in offered[NameOf[toRecv[k].id]]

\* A receiver writes to the .part of its name, and its digest is that of what it
\* has written there.
Attached ==
  \A t \in Transfers :
    recvs[t] # Nothing =>
      /\ part[NameOf[t]] = recvs[t].inode
      /\ recvs[t].written = Len(recvs[t].hash)
      /\ IsPrefix(recvs[t].hash, data[recvs[t].inode])

\* Where a .part is cut as it should be, the digest is that of all of it, and a
\* file that was delivered is one that was offered.
Exact ==
  /\ \A t \in Transfers : recvs[t] # Nothing => data[recvs[t].inode] = recvs[t].hash
  /\ \A n \in Names : final[n] # Nothing => data[final[n]] \in offered[n]

-----------------------------------------------------------------------------
(* A viewer's first life: every id is offered once.                         *)

FirstLife == "viewer" \notin ToSet(faults)

\* The messages of transfer t in a queue.
Of(queue, t, kind) == {k \in DOMAIN queue : queue[k].id = t /\ queue[k].kind = kind}

Chunks(t)    == Of(toRecv, t, "chunk")
Completes(t) == Of(toRecv, t, "complete")
Offers(t)    == Of(toRecv, t, "offer")
Acks(t)      == Of(toSend, t, "ack")

\* The host has not seen the offer of t, and so there is nothing of t but the offer.
Unseen(t) ==
  /\ recvs[t] = Nothing
  /\ part[NameOf[t]] = Nothing /\ final[NameOf[t]] = Nothing
  /\ ~sender[t].started
  /\ Chunks(t) = {} /\ Completes(t) = {} /\ Acks(t) = {}

Introduced(t) ==
  /\ sender[t].phase = "idle" => Unseen(t) /\ Offers(t) = {}
  /\ Offers(t) # {} => Unseen(t)
  /\ \A k \in Offers(t) : toRecv[k].at = Len(sender[t].content)
  /\ \A j, k \in Offers(t) : j = k

\* The disk holds a part of the content of t, or has got all of it.
OnDisk(t) ==
  LET n == NameOf[t] IN
  /\ part[n] # Nothing => final[n] = Nothing /\ IsPrefix(data[part[n]], sender[t].content)
  /\ final[n] # Nothing => recvs[t] = Nothing /\ data[final[n]] = sender[t].content
  /\ recvs[t] # Nothing =>
       /\ part[n] = recvs[t].inode
       /\ recvs[t].hash = data[part[n]]
       /\ recvs[t].written = Len(recvs[t].hash)
       /\ recvs[t].size = Len(sender[t].content)

\* At least `length` chunks of t are on disk.
Holds(t, length) ==
  LET n == NameOf[t] IN
  \/ final[n] # Nothing /\ length <= Len(data[final[n]])
  \/ part[n] # Nothing  /\ length <= Len(data[part[n]])

\* An ack says what is on disk, and the acks come in order.
Acked(t) ==
  /\ sender[t].started => Holds(t, sender[t].acked)
  /\ \A k \in Acks(t) : Holds(t, toSend[k].at)
  /\ \A k \in Acks(t) : sender[t].acked <= toSend[k].at /\ toSend[k].at <= sender[t].next
  /\ \A j, k \in Acks(t) : j < k => toSend[j].at <= toSend[k].at

\* The chunks under way are in order, beyond every ack, and within the window.
InWindow(t) ==
  /\ sender[t].acked <= sender[t].next
  /\ sender[t].next <= sender[t].acked + Window
  /\ \A k \in Chunks(t) :
       /\ sender[t].acked <= toRecv[k].at /\ toRecv[k].at < sender[t].next
       /\ toRecv[k].at < Len(sender[t].content)
       /\ toRecv[k].body[1] = sender[t].content[toRecv[k].at + 1]
       /\ \A j \in Acks(t) : toSend[j].at <= toRecv[k].at
  /\ \A j, k \in Chunks(t) : j < k => toRecv[j].at < toRecv[k].at

\* What the sending thread has been through.
Started(t) ==
  /\ sender[t].phase = "offered" => sender[t].next = 0
  /\ ~sender[t].started => sender[t].acked = 0
  /\ sender[t].phase \in {"sending", "completed"} => sender[t].started
  /\ sender[t].phase = "completed" => Len(sender[t].content) <= sender[t].acked
  /\ \A k \in Completes(t) :
       sender[t].phase = "completed" /\ toRecv[k].body = sender[t].content

Life(t) == Introduced(t) /\ OnDisk(t) /\ Acked(t) /\ InWindow(t) /\ Started(t)

Lives == FirstLife => \A t \in Transfers : Life(t)

-----------------------------------------------------------------------------
(* The operators.                                                           *)

\* The smaller and the larger of two numbers.
LEMMA MinMax ==
  ASSUME NEW a \in Nat, NEW b \in Nat
  PROVE  /\ Min({a, b}) \in {a, b} /\ Min({a, b}) <= a /\ Min({a, b}) <= b
         /\ Max({a, b}) \in {a, b} /\ a <= Max({a, b}) /\ b <= Max({a, b})
<1>1. \E x \in {a, b} : \A y \in {a, b} : x <= y
  <2>1. CASE a <= b
    BY <2>1
  <2>2. CASE b <= a
    BY <2>2
  <2> QED
    BY <2>1, <2>2
<1>2. \E x \in {a, b} : \A y \in {a, b} : x >= y
  <2>1. CASE a <= b
    BY <2>1
  <2>2. CASE b <= a
    BY <2>2
  <2> QED
    BY <2>1, <2>2
<1>3. Min({a, b}) \in {a, b} /\ \A y \in {a, b} : Min({a, b}) <= y
  BY <1>1 DEF Min
<1>4. Max({a, b}) \in {a, b} /\ \A y \in {a, b} : Max({a, b}) >= y
  BY <1>2 DEF Max
<1> QED
  BY <1>3, <1>4

\* What is left of a queue when its end is lost.
LEMMA PrefixKeeps ==
  ASSUME NEW S, NEW s \in Seq(S), NEW p \in Prefixes(s)
  PROVE  /\ p \in Seq(S)
         /\ Len(p) <= Len(s)
         /\ \A k \in DOMAIN p : k \in DOMAIN s /\ p[k] = s[k]
<1>1. PICK l \in 0 .. Len(s) : p = SubSeq(s, 1, l)
  BY DEF Prefixes
<1> QED
  BY <1>1

LEMMA PrefixIs ==
  ASSUME NEW S, NEW s \in Seq(S), NEW t \in Seq(S)
  PROVE  IsPrefix(s, t) <=> Len(s) <= Len(t) /\ \A k \in 1 .. Len(s) : s[k] = t[k]
<1>1. ASSUME Len(s) <= Len(t)
      PROVE  SubSeq(s, 1, Len(s)) = SubSeq(t, 1, Len(s))
               <=> \A k \in 1 .. Len(s) : s[k] = t[k]
  <2>1. /\ SubSeq(s, 1, Len(s)) \in Seq(S) /\ Len(SubSeq(s, 1, Len(s))) = Len(s)
        /\ \A k \in 1 .. Len(s) : SubSeq(s, 1, Len(s))[k] = s[k]
    OBVIOUS
  <2>2. /\ SubSeq(t, 1, Len(s)) \in Seq(S) /\ Len(SubSeq(t, 1, Len(s))) = Len(s)
        /\ \A k \in 1 .. Len(s) : SubSeq(t, 1, Len(s))[k] = t[k]
    BY <1>1
  <2> QED
    BY <2>1, <2>2
<1> QED
  BY <1>1 DEF IsPrefix

\* Writing at a place within the file, or right at its end.
LEMMA PutIs ==
  ASSUME NEW S, NEW file \in Seq(S), NEW at \in Nat, NEW chunk \in S, at <= Len(file)
  PROVE  /\ Put(file, at, chunk) \in Seq(S)
         /\ at + 1 <= Len(Put(file, at, chunk))
         /\ Put(file, at, chunk)[at + 1] = chunk
         /\ \A k \in 1 .. at : Put(file, at, chunk)[k] = file[k]
<1> DEFINE n == Max({Len(file), at + 1})
<1>1. n \in Nat /\ Len(file) <= n /\ at + 1 <= n
  BY MinMax
<1>2. Put(file, at, chunk)
        = [k \in 1 .. n |-> IF k = at + 1 THEN chunk
                            ELSE IF k <= Len(file) THEN file[k] ELSE Hole]
  BY DEF Put
<1>3. n = Len(file) \/ n = at + 1
  BY MinMax
<1> HIDE DEF n
<1>4. \A k \in 1 .. n : k # at + 1 => k <= Len(file) /\ file[k] \in S
  BY <1>1, <1>3
<1>5. \A k \in 1 .. n : Put(file, at, chunk)[k] \in S
  BY <1>2, <1>4
<1>6. Put(file, at, chunk) \in Seq(S) /\ Len(Put(file, at, chunk)) = n
  BY <1>1, <1>2, <1>5
<1>7. /\ Put(file, at, chunk)[at + 1] = chunk
      /\ \A k \in 1 .. at : Put(file, at, chunk)[k] = file[k]
  BY <1>1, <1>2
<1> QED
  BY <1>1, <1>6, <1>7

\* Writing at the end.
LEMMA PutAtEnd ==
  ASSUME NEW S, NEW file \in Seq(S), NEW chunk \in S
  PROVE  Put(file, Len(file), chunk) = Append(file, chunk)
<1> DEFINE n == Max({Len(file), Len(file) + 1})
           put == Put(file, Len(file), chunk)
<1>1. n = Len(file) + 1
  BY MinMax
<1>2. put = [k \in 1 .. n |-> IF k = Len(file) + 1 THEN chunk
                              ELSE IF k <= Len(file) THEN file[k] ELSE Hole]
  BY DEF Put
<1> HIDE DEF n, put
<1>3. \A k \in 1 .. n : put[k] \in S /\ put[k] = Append(file, chunk)[k]
  BY <1>1, <1>2
<1>4. put \in Seq(S) /\ Len(put) = n
  BY <1>1, <1>2, <1>3
<1>5. Append(file, chunk) \in Seq(S) /\ Len(Append(file, chunk)) = n
  BY <1>1
<1>6. put = Append(file, chunk)
  BY <1>3, <1>4, <1>5
<1> QED
  BY <1>6 DEF put

\* Writing anywhere leaves a file.
LEMMA PutType ==
  ASSUME NEW S, NEW file \in Seq(S \cup {Hole}), NEW at \in Nat, NEW chunk \in S
  PROVE  Put(file, at, chunk) \in Seq(S \cup {Hole})
<1> DEFINE n == Max({Len(file), at + 1})
<1>1. n \in Nat
  BY MinMax
<1>2. Put(file, at, chunk)
        = [k \in 1 .. n |-> IF k = at + 1 THEN chunk
                            ELSE IF k <= Len(file) THEN file[k] ELSE Hole]
  BY DEF Put
<1> HIDE DEF n
<1>3. \A k \in 1 .. n : Put(file, at, chunk)[k] \in S \cup {Hole}
  BY <1>2
<1> QED
  BY <1>1, <1>2, <1>3

\* The queues: what is taken, and what is shipped.
LEMMA TailIs ==
  ASSUME NEW S, NEW q \in Seq(S), q # << >>
  PROVE  /\ Head(q) \in S /\ Head(q) = q[1] /\ 1 \in DOMAIN q
         /\ Tail(q) \in Seq(S)
         /\ \A k \in DOMAIN Tail(q) : k + 1 \in DOMAIN q /\ 1 < k + 1 /\ Tail(q)[k] = q[k + 1]
  OBVIOUS

LEMMA ShipIs ==
  ASSUME NEW S, NEW q \in Seq(S), NEW m \in S
  PROVE  /\ Ship(q, m) \in Seq(S)
         /\ \A k \in DOMAIN Ship(q, m) : \/ k \in DOMAIN q /\ Ship(q, m)[k] = q[k]
                                         \/ k = Len(q) + 1 /\ Ship(q, m)[k] = m
<1>1. CASE up
  BY <1>1 DEF Ship
<1>2. CASE ~up
  BY <1>2 DEF Ship
<1> QED
  BY <1>1, <1>2


-----------------------------------------------------------------------------
(* Type correctness.                                                        *)

LEMMA TypeInit == Init => TypeOK
<1> SUFFICES ASSUME Init PROVE TypeOK
  OBVIOUS
<1> USE DEF Init
<1>1. Idle \in Senders
  BY DEF Idle, Senders
<1>2. /\ toRecv \in Seq(ToHost) /\ toSend \in Seq(ToViewer) /\ faults \in Seq(Faults)
      /\ << >> \in Seq(STRING \cup {Hole})
  OBVIOUS
<1> QED
  BY <1>1, <1>2 DEF TypeOK

\* What the actions of a transfer put in the queues.
LEMMA MessageType ==
  ASSUME NEW t \in Transfers, NEW at \in Nat
  PROVE  /\ \A kind \in {"offer", "complete", "cancel"}, body \in Seq(STRING) :
              Message(kind, t, at, body) \in ToHost
         /\ \A c \in STRING : Message("chunk", t, at, <<c>>) \in ToHost
         /\ \A kind \in {"ack", "cancel"} : Message(kind, t, at, << >>) \in ToViewer
  BY DEF Message, ToHost, ToViewer

\* Only the viewer acts on a sender.
LEMMA SenderType ==
  ASSUME TypeOK, NEW t \in Transfers
  PROVE  /\ sender[t] \in Senders
         /\ [sender[t] EXCEPT !.phase = "sending", !.next = sender[t].acked] \in Senders
         /\ [sender[t] EXCEPT !.phase = "completed"] \in Senders
         /\ [sender[t] EXCEPT !.phase = "stopped"] \in Senders
         /\ [sender[t] EXCEPT !.cancel = TRUE] \in Senders
         /\ \A n \in Nat : /\ [sender[t] EXCEPT !.next = n] \in Senders
                           /\ [sender[t] EXCEPT !.acked = n, !.started = TRUE] \in Senders
<1> DEFINE s == sender[t]
<1>1. s \in Senders
  BY DEF TypeOK
<1> HIDE DEF s
<1>2. /\ [s EXCEPT !.phase = "sending", !.next = s.acked] \in Senders
      /\ [s EXCEPT !.phase = "completed"] \in Senders
      /\ [s EXCEPT !.phase = "stopped"] \in Senders
      /\ [s EXCEPT !.cancel = TRUE] \in Senders
      /\ \A n \in Nat : /\ [s EXCEPT !.next = n] \in Senders
                        /\ [s EXCEPT !.acked = n, !.started = TRUE] \in Senders
  BY <1>1 DEF Senders
<1> QED
  BY <1>1, <1>2 DEF s

LEMMA ViewerType ==
  ASSUME TypeOK, Viewer
  PROVE  TypeOK'
<1>0. /\ sender \in [Transfers -> Senders]
      /\ toRecv \in Seq(ToHost) /\ toSend \in Seq(ToViewer)
      /\ offered \in [Names -> SUBSET Contents]
  BY DEF TypeOK
<1>00. 0 \in Nat /\ << >> \in Seq(STRING)
  OBVIOUS
<1>1. ASSUME NEW t \in Transfers, NEW c \in Contents, Offer(t, c) PROVE TypeOK'
  <2>1. c \in Seq(STRING) /\ Len(c) \in Nat
    OBVIOUS
  <2>2. [Idle EXCEPT !.phase = "offered", !.content = c] \in Senders
    BY <2>1 DEF Idle, Senders
  <2>3. Message("offer", t, Len(c), << >>) \in ToHost
    BY <1>00, <2>1, MessageType
  <2>4. offered' \in [Names -> SUBSET Contents]
    BY <1>0, <1>1 DEF Offer
  <2> QED
    BY <1>0, <1>1, <2>2, <2>3, <2>4, ShipIs DEF Offer, TypeOK, diskVars
<1>2. ASSUME NEW t \in Transfers, Begin(t) PROVE TypeOK'
  <2>1. sender' = [sender EXCEPT ![t] =
                      [sender[t] EXCEPT !.phase = "sending", !.next = sender[t].acked]]
    BY <1>0, <1>2 DEF Begin
  <2>2. sender' \in [Transfers -> Senders]
    BY <1>0, <2>1, SenderType
  <2> QED
    BY <1>2, <2>2 DEF Begin, TypeOK, diskVars
<1>3. ASSUME NEW t \in Transfers, SendChunk(t) PROVE TypeOK'
  <2> DEFINE s == sender[t]
             c == s.content[s.next + 1]
  <2>1. /\ s \in Senders /\ s.next < Len(s.content)
        /\ toRecv' = Ship(toRecv, Message("chunk", t, s.next, <<c>>))
        /\ sender' = [sender EXCEPT ![t] = [s EXCEPT !.next = s.next + 1]]
        /\ UNCHANGED <<toSend, recvs, diskVars, up, faults, offered>>
    BY <1>0, <1>3 DEF SendChunk
  <2>2. s.next \in Nat /\ s.next + 1 \in Nat /\ c \in STRING
    BY <2>1 DEF Senders
  <2>3. Message("chunk", t, s.next, <<c>>) \in ToHost
    BY <2>2, MessageType
  <2>4. [s EXCEPT !.next = s.next + 1] \in Senders
    BY <2>2, SenderType
  <2> HIDE DEF s, c
  <2> QED
    BY <1>0, <2>1, <2>3, <2>4, ShipIs DEF TypeOK, diskVars
<1>4. ASSUME NEW t \in Transfers, Conclude(t) PROVE TypeOK'
  <2>1. /\ toRecv' = Ship(toRecv, Message("complete", t, 0, sender[t].content))
        /\ sender' = [sender EXCEPT ![t] = [sender[t] EXCEPT !.phase = "completed"]]
        /\ UNCHANGED <<toSend, recvs, diskVars, up, faults, offered>>
    BY <1>0, <1>4 DEF Conclude
  <2>2. sender[t].content \in Seq(STRING)
    BY <1>0 DEF Senders
  <2>3. Message("complete", t, 0, sender[t].content) \in ToHost
    BY <2>2, MessageType
  <2> QED
    BY <1>0, <2>1, <2>3, SenderType, ShipIs DEF TypeOK, diskVars
<1>5. ASSUME NEW t \in Transfers, GiveUp(t) PROVE TypeOK'
  <2>1. sender' = [sender EXCEPT ![t] = [sender[t] EXCEPT !.phase = "stopped"]]
    BY <1>0, <1>5 DEF GiveUp
  <2> QED
    BY <1>0, <1>5, <2>1, SenderType, ZenonT(60) DEF GiveUp, TypeOK, diskVars
<1>6. ASSUME NEW t \in Transfers, CancelSend(t) PROVE TypeOK'
  <2>1. sender' = [sender EXCEPT ![t] = [sender[t] EXCEPT !.cancel = TRUE]]
    BY <1>0, <1>6 DEF CancelSend
  <2>2. Message("cancel", t, 0, << >>) \in ToHost
    BY <1>00, MessageType
  <2> QED
    BY <1>0, <1>6, <2>1, <2>2, SenderType, ShipIs DEF CancelSend, TypeOK, diskVars
<1>7. ASSUME HandleAck PROVE TypeOK'
  <2> DEFINE m == Head(toSend)
  <2>1. m \in ToViewer /\ toSend' \in Seq(ToViewer)
    BY <1>0, <1>7, TailIs DEF HandleAck
  <2>2. m.id \in Transfers /\ m.at \in Nat
    BY <2>1 DEF ToViewer
  <2>3. \/ sender' = sender
        \/ sender' = [sender EXCEPT ![m.id] =
                         [sender[m.id] EXCEPT !.acked = m.at, !.started = TRUE]]
        \/ sender' = [sender EXCEPT ![m.id] = [sender[m.id] EXCEPT !.cancel = TRUE]]
    BY <1>0, <1>7, <2>2 DEF HandleAck
  <2> HIDE DEF m
  <2>4. /\ [sender[m.id] EXCEPT !.acked = m.at, !.started = TRUE] \in Senders
        /\ [sender[m.id] EXCEPT !.cancel = TRUE] \in Senders
    BY <2>2, SenderType
  <2>5. sender' \in [Transfers -> Senders]
    BY <1>0, <2>2, <2>3, <2>4
  <2> QED
    BY <1>7, <2>1, <2>5 DEF HandleAck, TypeOK, diskVars
<1> QED
  BY <1>1, <1>2, <1>3, <1>4, <1>5, <1>6, <1>7 DEF Viewer

\* Taking a message from the queue.
LEMMA HandleIs ==
  ASSUME TypeOK, NEW kind, Handle(kind)
  PROVE  /\ Head(toRecv) \in ToHost
         /\ Head(toRecv) = toRecv[1] /\ 1 \in DOMAIN toRecv
         /\ Head(toRecv).kind = kind
         /\ Head(toRecv).id \in Transfers /\ Head(toRecv).at \in Nat
         /\ Head(toRecv).body \in Seq(STRING)
         /\ NameOf[Head(toRecv).id] \in Names
         /\ toRecv' \in Seq(ToHost)
         /\ \A k \in DOMAIN toRecv' :
              k + 1 \in DOMAIN toRecv /\ 1 < k + 1 /\ toRecv'[k] = toRecv[k + 1]
         /\ UNCHANGED <<sender, up, faults, offered>>
<1>1. toRecv \in Seq(ToHost) /\ toRecv # << >>
  BY DEF TypeOK, Handle
<1>2. Head(toRecv) \in ToHost
  BY <1>1, TailIs
<1>3. Head(toRecv).id \in Transfers /\ Head(toRecv).at \in Nat /\ Head(toRecv).body \in Seq(STRING)
  <2>1. \A c \in STRING : <<c>> \in Seq(STRING)
    OBVIOUS
  <2> QED
    BY <1>2, <2>1 DEF ToHost
<1> QED
  BY <1>1, <1>2, <1>3, TailIs DEF Handle

\* A chunk has one element.
LEMMA ChunkIs ==
  ASSUME TypeOK, NEW k \in DOMAIN toRecv, toRecv[k].kind = "chunk"
  PROVE  toRecv[k].body[1] \in STRING /\ toRecv[k].at \in Nat
<1>1. toRecv[k] \in ToHost
  BY DEF TypeOK
<1> QED
  BY <1>1 DEF ToHost

LEMMA AckAtType ==
  ASSUME TypeOK, NEW t \in Transfers, NEW at \in Nat, AckAt(t, at)
  PROVE  toSend' \in Seq(ToViewer)
<1>1. Message("ack", t, at, << >>) \in ToViewer
  BY MessageType
<1> QED
  BY <1>1, ShipIs DEF AckAt, TypeOK

\* An offer is taken up: the .part, what of it is adopted, and the new receiver.
LEMMA TakenUp ==
  ASSUME TypeOK, HandleOffer
  PROVE  \E i \in Inodes, h \in Seq(STRING \cup {Hole}), d \in Seq(STRING \cup {Hole}), resume \in Nat :
           LET m == Head(toRecv)
               n == NameOf[m.id]
               held == IF part[n] = Nothing THEN << >> ELSE data[i]
               kept == SubSeq(held, 1, resume)
           IN /\ IF part[n] = Nothing THEN Fresh(i) ELSE i = part[n]
              /\ held \in Seq(STRING \cup {Hole}) /\ kept \in Seq(STRING \cup {Hole})
              /\ resume <= Len(held) /\ Len(kept) = resume
              /\ h \in Hashed(kept) /\ d \in Cut(held, kept)
              /\ recvs' = [recvs EXCEPT ![m.id] = [inode |-> i, written |-> resume,
                              size |-> m.at, lastAck |-> resume, hash |-> h]]
              /\ data' = [data EXCEPT ![i] = d]
              /\ part' = [part EXCEPT ![n] = i]
              /\ AckAt(m.id, resume)
              /\ UNCHANGED final
<1> DEFINE m == Head(toRecv)
           n == NameOf[m.id]
           held(i) == IF part[n] = Nothing THEN << >> ELSE data[i]
           resume(i) == ResumeAt(Len(held(i)), m.at)
           kept(i) == SubSeq(held(i), 1, resume(i))
<1>1. m.id \in Transfers /\ m.at \in Nat
  BY HandleIs DEF HandleOffer
<1>2. PICK i \in Inodes :
        /\ IF part[n] = Nothing THEN Fresh(i) ELSE i = part[n]
        /\ \E d \in Cut(held(i), kept(i)) : data' = [data EXCEPT ![i] = d]
        /\ \E h \in Hashed(kept(i)) :
              recvs' = [recvs EXCEPT ![m.id] = [inode |-> i, written |-> resume(i),
                           size |-> m.at, lastAck |-> resume(i), hash |-> h]]
        /\ AckAt(m.id, resume(i))
        /\ part' = [part EXCEPT ![n] = i]
        /\ UNCHANGED final
  BY DEF HandleOffer
<1>3. held(i) \in Seq(STRING \cup {Hole})
  <2>1. << >> \in Seq(STRING \cup {Hole})
    OBVIOUS
  <2>2. data[i] \in Seq(STRING \cup {Hole})
    BY DEF TypeOK
  <2>3. CASE part[n] = Nothing
    BY <2>1, <2>3
  <2>4. CASE part[n] # Nothing
    BY <2>2, <2>4
  <2> QED
    BY <2>3, <2>4
<1>4. resume(i) \in Nat /\ resume(i) <= Len(held(i))
  <2>1. Len(held(i)) \in Nat
    BY <1>3
  <2> HIDE DEF held
  <2>2. /\ Min({Len(held(i)), m.at}) \in {Len(held(i)), m.at}
        /\ Min({Len(held(i)), m.at}) <= Len(held(i))
    BY <1>1, <2>1, MinMax
  <2> QED
    BY <1>1, <2>1, <2>2 DEF ResumeAt
<1>5. kept(i) \in Seq(STRING \cup {Hole}) /\ Len(kept(i)) = resume(i)
  BY <1>3, <1>4
<1>6. \A h \in Hashed(kept(i)) : h \in Seq(STRING \cup {Hole})
  BY <1>5, PrefixKeeps DEF Hashed
<1>7. \A d \in Cut(held(i), kept(i)) : d \in Seq(STRING \cup {Hole})
  BY <1>3, <1>5 DEF Cut
<1> QED
  BY <1>2, <1>3, <1>4, <1>5, <1>6, <1>7

\* The host keeps its files, its receivers and the acks well typed.
LEMMA HostType ==
  ASSUME TypeOK, Host
  PROVE  TypeOK'
<1>0. /\ recvs \in [Transfers -> Receivers \cup {Nothing}]
      /\ part \in [Names -> Inodes \cup {Nothing}]
      /\ final \in [Names -> Inodes \cup {Nothing}]
      /\ data \in [Inodes -> Seq(STRING \cup {Hole})]
  BY DEF TypeOK
<1>a. ASSUME NEW kind, Handle(kind),
             toSend' \in Seq(ToViewer),
             recvs' \in [Transfers -> Receivers \cup {Nothing}],
             part' \in [Names -> Inodes \cup {Nothing}],
             final' \in [Names -> Inodes \cup {Nothing}],
             data' \in [Inodes -> Seq(STRING \cup {Hole})]
      PROVE  TypeOK'
  BY <1>a, HandleIs DEF TypeOK
<1>1. CASE HandleOffer
  <2> DEFINE m == Head(toRecv)
             n == NameOf[m.id]
  <2>1. Handle("offer")
    BY <1>1 DEF HandleOffer
  <2>2. m.id \in Transfers /\ m.at \in Nat /\ n \in Names
    BY <2>1, HandleIs
  <2>3. PICK i \in Inodes, h \in Seq(STRING \cup {Hole}), d \in Seq(STRING \cup {Hole}),
             resume \in Nat :
             /\ recvs' = [recvs EXCEPT ![m.id] = [inode |-> i, written |-> resume,
                            size |-> m.at, lastAck |-> resume, hash |-> h]]
             /\ data' = [data EXCEPT ![i] = d]
             /\ part' = [part EXCEPT ![n] = i]
             /\ AckAt(m.id, resume)
             /\ UNCHANGED final
    BY <1>1, TakenUp, ZenonT(60)
  <2> HIDE DEF m, n
  <2>4. [inode |-> i, written |-> resume, size |-> m.at, lastAck |-> resume, hash |-> h]
          \in Receivers
    BY <2>2 DEF Receivers
  <2>5. toSend' \in Seq(ToViewer)
    BY <2>2, <2>3, AckAtType
  <2> QED
    BY <1>0, <1>a, <2>1, <2>2, <2>3, <2>4, <2>5
<1>2. CASE RefuseOffer \/ DropChunk
  <2>1. \E kind : Handle(kind)
    BY <1>2 DEF RefuseOffer, DropChunk
  <2>2. UNCHANGED <<toSend, recvs, part, final, data>>
    BY <1>2 DEF RefuseOffer, DropChunk, diskVars
  <2> QED
    BY <1>0, <1>a, <2>1, <2>2 DEF TypeOK
<1>3. CASE HandleChunk
  <2> DEFINE m == Head(toRecv)
             r == recvs[m.id]
             w == r.written + 1
             c == m.body[1]
  <2>1. Handle("chunk") /\ UNCHANGED <<part, final>>
    BY <1>3 DEF HandleChunk
  <2>2. m.id \in Transfers /\ c \in STRING
    <3>1. toRecv[1].body[1] \in STRING
      BY <2>1, HandleIs, ChunkIs
    <3> QED
      BY <2>1, <3>1, HandleIs
  <2>3. r \in Receivers
    BY <1>0, <1>3, <2>2 DEF HandleChunk
  <2>4. /\ r.inode \in Inodes /\ r.written \in Nat /\ w \in Nat
        /\ r.hash \in Seq(STRING \cup {Hole})
        /\ Append(r.hash, c) \in Seq(STRING \cup {Hole})
    BY <2>2, <2>3 DEF Receivers
  <2>5. /\ data' = [data EXCEPT ![r.inode] = Put(data[r.inode], r.written, c)]
        /\ \/ /\ AckAt(m.id, w)
              /\ recvs' = [recvs EXCEPT ![m.id] = [r EXCEPT !.written = w, !.lastAck = w,
                                                    !.hash = Append(@, c)]]
           \/ /\ UNCHANGED toSend
              /\ recvs' = [recvs EXCEPT ![m.id] = [r EXCEPT !.written = w,
                                                    !.hash = Append(@, c)]]
    BY <1>0, <1>3, <2>4 DEF HandleChunk
  <2> HIDE DEF r, w, c, m
  <2>6. /\ [r EXCEPT !.written = w, !.lastAck = w, !.hash = Append(@, c)] \in Receivers
        /\ [r EXCEPT !.written = w, !.hash = Append(@, c)] \in Receivers
    BY <2>3, <2>4 DEF Receivers
  <2>7. recvs' \in [Transfers -> Receivers \cup {Nothing}]
    BY <1>0, <2>2, <2>5, <2>6
  <2>8. Put(data[r.inode], r.written, c) \in Seq(STRING \cup {Hole})
    BY <1>0, <2>2, <2>4, PutType
  <2>9. data' \in [Inodes -> Seq(STRING \cup {Hole})]
    BY <1>0, <2>4, <2>5, <2>8
  <2>10. toSend' \in Seq(ToViewer)
    BY <2>2, <2>4, <2>5, AckAtType DEF TypeOK
  <2> QED
    BY <1>0, <1>a, <2>1, <2>7, <2>9, <2>10
<1>4. CASE IgnoreComplete \/ RejectComplete \/ AcceptComplete
  <2> DEFINE n == NameOf[Head(toRecv).id]
  <2>1. Handle("complete") /\ UNCHANGED <<toSend, data>>
        /\ recvs' = [recvs EXCEPT ![Head(toRecv).id] = Nothing]
    BY <1>4 DEF IgnoreComplete, RejectComplete, AcceptComplete, Complete
  <2>2. n \in Names
    BY <2>1, HandleIs
  <2>3. /\ \/ UNCHANGED part
           \/ part' = [part EXCEPT ![n] = Nothing]
        /\ \/ UNCHANGED final
           \/ final' = [final EXCEPT ![n] = part[n]]
    BY <1>4 DEF IgnoreComplete, RejectComplete, AcceptComplete
  <2> HIDE DEF n
  <2>4. /\ part' \in [Names -> Inodes \cup {Nothing}]
        /\ final' \in [Names -> Inodes \cup {Nothing}]
    BY <1>0, <2>2, <2>3
  <2>5. recvs' \in [Transfers -> Receivers \cup {Nothing}]
    BY <1>0, <2>1
  <2> QED
    BY <1>0, <1>a, <2>1, <2>4, <2>5 DEF TypeOK
<1>5. CASE HandleCancel
  <2>1. /\ Handle("cancel") /\ UNCHANGED <<toSend, part, final, data>>
        /\ recvs' = [recvs EXCEPT ![Head(toRecv).id] = Nothing]
    BY <1>5 DEF HandleCancel, diskVars
  <2>2. recvs' \in [Transfers -> Receivers \cup {Nothing}]
    BY <1>0, <2>1
  <2>3. toSend' \in Seq(ToViewer)
    BY <2>1 DEF TypeOK
  <2> QED
    BY <1>0, <1>a, <2>1, <2>2, <2>3
<1>6. ASSUME NEW t \in Transfers, CancelReceive(t) PROVE TypeOK'
  <2>1. Message("cancel", t, 0, << >>) \in ToViewer
    <3>1. 0 \in Nat
      OBVIOUS
    <3> QED
      BY <3>1, MessageType
  <2>2. toSend' \in Seq(ToViewer)
    BY <1>6, <2>1, ShipIs DEF CancelReceive, TypeOK
  <2>3. recvs' \in [Transfers -> Receivers \cup {Nothing}]
    BY <1>0, <1>6 DEF CancelReceive
  <2> QED
    BY <1>6, <2>2, <2>3 DEF CancelReceive, TypeOK, diskVars
<1> QED
  BY <1>1, <1>2, <1>3, <1>4, <1>5, <1>6 DEF Host

\* What faults leave is what was there, or a part of it, or nothing.
LEMMA FaultType ==
  ASSUME TypeOK, LinkLost \/ LinkBack \/ ViewerRestarts \/ HostRestarts
  PROVE  TypeOK'
<1>1. Idle \in Senders
  BY DEF Idle, Senders
<1>2. << >> \in Seq(ToHost) /\ << >> \in Seq(ToViewer)
  OBVIOUS
<1>3. /\ \A q \in Prefixes(toRecv) : q \in Seq(ToHost)
      /\ \A q \in Prefixes(toSend) : q \in Seq(ToViewer)
  BY PrefixKeeps DEF TypeOK
<1>4. \A kind : Fault(kind) => faults' \in Seq(Faults) /\ up' = FALSE
                                /\ UNCHANGED <<part, final, data, offered>>
  BY DEF Fault, TypeOK, diskVars
<1>5. CASE LinkLost
  BY <1>3, <1>4, <1>5 DEF LinkLost, TypeOK
<1>6. CASE LinkBack
  BY <1>6 DEF LinkBack, TypeOK, diskVars
<1>7. CASE ViewerRestarts
  BY <1>1, <1>2, <1>3, <1>4, <1>7 DEF ViewerRestarts, TypeOK
<1>8. CASE HostRestarts
  BY <1>2, <1>3, <1>4, <1>8 DEF HostRestarts, TypeOK
<1> QED
  BY <1>5, <1>6, <1>7, <1>8

LEMMA TypeStep ==
  ASSUME TypeOK, [Next]_vars
  PROVE  TypeOK'
<1>1. CASE UNCHANGED vars
  BY <1>1 DEF vars, diskVars, TypeOK
<1> QED
  BY <1>1, ViewerType, HostType, FaultType DEF Next

\* Type correctness of the transfer (send_loop, FileTransferManager, the .part).
THEOREM TypeCorrect == Spec => []TypeOK
  BY TypeInit, TypeStep, PTL DEF Spec


-----------------------------------------------------------------------------
(* What the actions of the viewer make of a sender, field by field.         *)

\* A step changes the sender of t only, and that is what is left unsaid below.
Only(t) == \A u \in Transfers \ {t} : sender'[u] = sender[u]

LEMMA BeginIs ==
  ASSUME TypeOK, NEW t \in Transfers, Begin(t)
  PROVE  /\ sender[t].phase = "offered" /\ sender[t].started
         /\ sender'[t].phase = "sending" /\ sender'[t].next = sender[t].acked
         /\ sender'[t].content = sender[t].content
         /\ sender'[t].acked = sender[t].acked /\ sender'[t].started = sender[t].started
         /\ Only(t)
         /\ UNCHANGED <<toRecv, toSend, recvs, part, final, data, up, faults, offered>>
<1> DEFINE s == sender[t]
           x == [s EXCEPT !.phase = "sending", !.next = s.acked]
<1>1. s \in Senders /\ sender \in [Transfers -> Senders]
  BY DEF TypeOK
<1>2. /\ s.phase = "offered" /\ s.started
      /\ sender' = [sender EXCEPT ![t] = x]
      /\ UNCHANGED <<toRecv, toSend, recvs, part, final, data, up, faults, offered>>
  BY <1>1 DEF Begin, diskVars
<1>3. /\ x.phase = "sending" /\ x.next = s.acked /\ x.content = s.content
      /\ x.acked = s.acked /\ x.started = s.started
  BY <1>1 DEF Senders
<1> HIDE DEF x
<1> QED
  BY <1>1, <1>2, <1>3 DEF Only

LEMMA SendChunkIs ==
  ASSUME TypeOK, NEW t \in Transfers, SendChunk(t)
  PROVE  /\ sender[t].phase = "sending" /\ WindowOpen(sender[t])
         /\ sender[t].next < Len(sender[t].content)
         /\ toRecv' = Ship(toRecv, Message("chunk", t, sender[t].next,
                                           <<sender[t].content[sender[t].next + 1]>>))
         /\ sender[t].content[sender[t].next + 1] \in STRING
         /\ sender'[t].phase = "sending" /\ sender'[t].next = sender[t].next + 1
         /\ sender'[t].content = sender[t].content
         /\ sender'[t].acked = sender[t].acked /\ sender'[t].started = sender[t].started
         /\ Only(t)
         /\ UNCHANGED <<toSend, recvs, part, final, data, up, faults, offered>>
<1> DEFINE s == sender[t]
           x == [s EXCEPT !.next = s.next + 1]
<1>1. s \in Senders /\ sender \in [Transfers -> Senders]
  BY DEF TypeOK
<1>2. /\ s.phase = "sending" /\ WindowOpen(s) /\ s.next < Len(s.content)
      /\ sender' = [sender EXCEPT ![t] = x]
      /\ toRecv' = Ship(toRecv, Message("chunk", t, s.next, <<s.content[s.next + 1]>>))
      /\ UNCHANGED <<toSend, recvs, part, final, data, up, faults, offered>>
  BY <1>1 DEF SendChunk, diskVars
<1>3. /\ x.phase = s.phase /\ x.next = s.next + 1 /\ x.content = s.content
      /\ x.acked = s.acked /\ x.started = s.started
  BY <1>1 DEF Senders
<1>4. s.content[s.next + 1] \in STRING
  BY <1>1, <1>2 DEF Senders
<1> HIDE DEF x
<1> QED
  BY <1>1, <1>2, <1>3, <1>4 DEF Only

LEMMA ConcludeIs ==
  ASSUME TypeOK, NEW t \in Transfers, Conclude(t)
  PROVE  /\ sender[t].phase = "sending" /\ AllAcked(sender[t])
         /\ toRecv' = Ship(toRecv, Message("complete", t, 0, sender[t].content))
         /\ sender'[t].phase = "completed" /\ sender'[t].next = sender[t].next
         /\ sender'[t].content = sender[t].content
         /\ sender'[t].acked = sender[t].acked /\ sender'[t].started = sender[t].started
         /\ Only(t)
         /\ UNCHANGED <<toSend, recvs, part, final, data, up, faults, offered>>
<1> DEFINE s == sender[t]
           x == [s EXCEPT !.phase = "completed"]
<1>1. s \in Senders /\ sender \in [Transfers -> Senders]
  BY DEF TypeOK
<1>2. /\ s.phase = "sending" /\ AllAcked(s)
      /\ sender' = [sender EXCEPT ![t] = x]
      /\ toRecv' = Ship(toRecv, Message("complete", t, 0, s.content))
      /\ UNCHANGED <<toSend, recvs, part, final, data, up, faults, offered>>
  BY <1>1 DEF Conclude, diskVars
<1>3. /\ x.phase = "completed" /\ x.next = s.next /\ x.content = s.content
      /\ x.acked = s.acked /\ x.started = s.started
  BY <1>1 DEF Senders
<1> HIDE DEF x
<1> QED
  BY <1>1, <1>2, <1>3 DEF Only

LEMMA GiveUpIs ==
  ASSUME TypeOK, NEW t \in Transfers, GiveUp(t)
  PROVE  /\ sender[t].phase # "idle"
         /\ sender'[t].phase = "stopped" /\ sender'[t].next = sender[t].next
         /\ sender'[t].content = sender[t].content
         /\ sender'[t].acked = sender[t].acked /\ sender'[t].started = sender[t].started
         /\ Only(t)
         /\ UNCHANGED <<toRecv, toSend, recvs, part, final, data, up, faults, offered>>
<1> DEFINE s == sender[t]
           x == [s EXCEPT !.phase = "stopped"]
<1>1. s \in Senders /\ sender \in [Transfers -> Senders]
  BY DEF TypeOK
<1>2. /\ s.phase # "idle"
      /\ sender' = [sender EXCEPT ![t] = x]
      /\ UNCHANGED <<toRecv, toSend, recvs, part, final, data, up, faults, offered>>
  BY <1>1 DEF GiveUp, diskVars
<1>3. /\ x.phase = "stopped" /\ x.next = s.next /\ x.content = s.content
      /\ x.acked = s.acked /\ x.started = s.started
  BY <1>1 DEF Senders
<1> HIDE DEF x
<1> QED
  BY <1>1, <1>2, <1>3 DEF Only

LEMMA CancelSendIs ==
  ASSUME TypeOK, NEW t \in Transfers, CancelSend(t)
  PROVE  /\ sender[t].phase # "idle"
         /\ toRecv' = Ship(toRecv, Message("cancel", t, 0, << >>))
         /\ sender'[t].phase = sender[t].phase /\ sender'[t].next = sender[t].next
         /\ sender'[t].content = sender[t].content
         /\ sender'[t].acked = sender[t].acked /\ sender'[t].started = sender[t].started
         /\ Only(t)
         /\ UNCHANGED <<toSend, recvs, part, final, data, up, faults, offered>>
<1> DEFINE s == sender[t]
           x == [s EXCEPT !.cancel = TRUE]
<1>1. s \in Senders /\ sender \in [Transfers -> Senders]
  BY DEF TypeOK
<1>2. /\ s.phase # "idle"
      /\ sender' = [sender EXCEPT ![t] = x]
      /\ toRecv' = Ship(toRecv, Message("cancel", t, 0, << >>))
      /\ UNCHANGED <<toSend, recvs, part, final, data, up, faults, offered>>
  BY <1>1 DEF CancelSend, Known, diskVars
<1>3. /\ x.phase = s.phase /\ x.next = s.next /\ x.content = s.content
      /\ x.acked = s.acked /\ x.started = s.started
  BY <1>1 DEF Senders
<1> HIDE DEF x
<1> QED
  BY <1>1, <1>2, <1>3 DEF Only

\* An ack is taken in, or a cancel, or either is for nobody.
LEMMA HandleAckIs ==
  ASSUME TypeOK, HandleAck
  PROVE  LET m == Head(toSend) IN
         /\ m \in ToViewer /\ m = toSend[1] /\ 1 \in DOMAIN toSend /\ m.id \in Transfers
         /\ \A k \in DOMAIN toSend' :
              k + 1 \in DOMAIN toSend /\ 1 < k + 1 /\ toSend'[k] = toSend[k + 1]
         /\ Only(m.id)
         /\ sender'[m.id].phase = sender[m.id].phase /\ sender'[m.id].next = sender[m.id].next
         /\ sender'[m.id].content = sender[m.id].content
         /\ \/ /\ m.kind = "ack" /\ sender[m.id].phase # "idle"
               /\ sender'[m.id].acked = m.at /\ sender'[m.id].started
            \/ /\ sender'[m.id].acked = sender[m.id].acked
               /\ sender'[m.id].started = sender[m.id].started
         /\ UNCHANGED <<toRecv, recvs, part, final, data, up, faults, offered>>
<1> DEFINE m == Head(toSend)
           s == sender[m.id]
           x == [s EXCEPT !.acked = m.at, !.started = TRUE]
           y == [s EXCEPT !.cancel = TRUE]
<1>1. sender \in [Transfers -> Senders] /\ toSend \in Seq(ToViewer) /\ toSend # << >>
  BY DEF TypeOK, HandleAck
<1>2. /\ m \in ToViewer /\ m = toSend[1] /\ 1 \in DOMAIN toSend
      /\ \A k \in DOMAIN toSend' :
              k + 1 \in DOMAIN toSend /\ 1 < k + 1 /\ toSend'[k] = toSend[k + 1]
  BY <1>1, TailIs DEF HandleAck
<1>3. m.id \in Transfers /\ m.at \in Nat
  BY <1>2 DEF ToViewer
<1>4. s \in Senders
  BY <1>1, <1>3
<1>5. /\ \/ sender' = sender
         \/ m.kind = "ack" /\ s.phase # "idle" /\ sender' = [sender EXCEPT ![m.id] = x]
         \/ sender' = [sender EXCEPT ![m.id] = y]
      /\ UNCHANGED <<toRecv, recvs, part, final, data, up, faults, offered>>
  BY <1>1, <1>3 DEF HandleAck, Known, diskVars
<1>6. /\ x.phase = s.phase /\ x.next = s.next /\ x.content = s.content
      /\ x.acked = m.at /\ x.started
      /\ y.phase = s.phase /\ y.next = s.next /\ y.content = s.content
      /\ y.acked = s.acked /\ y.started = s.started
  BY <1>3, <1>4 DEF Senders
<1> HIDE DEF x, y, m
<1>7. /\ Only(m.id)
      /\ \/ sender' = sender
         \/ m.kind = "ack" /\ s.phase # "idle" /\ sender'[m.id] = x
         \/ sender'[m.id] = y
  BY <1>1, <1>3, <1>5 DEF Only
<1>8. /\ sender'[m.id].phase = sender[m.id].phase /\ sender'[m.id].next = sender[m.id].next
      /\ sender'[m.id].content = sender[m.id].content
      /\ \/ /\ m.kind = "ack" /\ sender[m.id].phase # "idle"
            /\ sender'[m.id].acked = m.at /\ sender'[m.id].started
         \/ /\ sender'[m.id].acked = sender[m.id].acked
            /\ sender'[m.id].started = sender[m.id].started
  BY <1>6, <1>7
<1> QED
  BY <1>2, <1>3, <1>5, <1>7, <1>8 DEF m


-----------------------------------------------------------------------------
(* The files.                                                               *)

\* The .part of a name is where its receiver wrote last, whoever else writes.
LEMMA ApartInit == Init => Apart
  BY DEF Init, Apart

LEMMA ApartStep ==
  ASSUME TypeOK, Apart, [Next]_vars
  PROVE  Apart'
<1>0. part \in [Names -> Inodes \cup {Nothing}] /\ final \in [Names -> Inodes \cup {Nothing}]
  BY DEF TypeOK
<1>1. CASE HandleOffer
  <2> DEFINE n == NameOf[Head(toRecv).id]
  <2>1. n \in Names
    BY <1>1, HandleIs DEF HandleOffer
  <2>2. PICK i \in Inodes : /\ IF part[n] = Nothing THEN Fresh(i) ELSE i = part[n]
                            /\ part' = [part EXCEPT ![n] = i]
                            /\ UNCHANGED final
    BY <1>1 DEF HandleOffer
  <2> HIDE DEF n
  <2>3. CASE part[n] = Nothing
    <3>1. \A m \in Names : i # part[m] /\ i # final[m]
      BY <2>2, <2>3 DEF Fresh
    <3> QED
      BY <1>0, <2>1, <2>2, <3>1 DEF Apart
  <2>4. CASE part[n] # Nothing
    <3>1. part' = part
      BY <1>0, <2>1, <2>2, <2>4
    <3> QED
      BY <2>2, <3>1 DEF Apart
  <2> QED
    BY <2>3, <2>4
<1>2. CASE RejectComplete \/ AcceptComplete
  <2> DEFINE n == NameOf[Head(toRecv).id]
  <2>1. n \in Names
    BY <1>2, HandleIs DEF RejectComplete, AcceptComplete, Complete
  <2>2. \/ UNCHANGED <<part, final>>
        \/ part' = [part EXCEPT ![n] = Nothing] /\ UNCHANGED final
        \/ /\ part[n] # Nothing
           /\ part' = [part EXCEPT ![n] = Nothing] /\ final' = [final EXCEPT ![n] = part[n]]
    BY <1>2 DEF RejectComplete, AcceptComplete
  <2> HIDE DEF n
  <2> QED
    BY <1>0, <2>1, <2>2 DEF Apart
<1>3. CASE ~(HandleOffer \/ RejectComplete \/ AcceptComplete)
  <2>1. UNCHANGED <<part, final>>
    BY <1>3 DEF Next, Viewer, Host, Offer, Begin, SendChunk, Conclude, GiveUp, CancelSend,
         HandleAck, RefuseOffer, HandleChunk, DropChunk, IgnoreComplete, HandleCancel,
         CancelReceive, LinkLost, LinkBack, ViewerRestarts, HostRestarts, Fault, vars, diskVars
  <2> QED
    BY <2>1 DEF Apart
<1> QED
  BY <1>1, <1>2, <1>3

LEMMA GenuineInit == Init => Genuine
  BY DEF Init, Genuine, Idle

LEMMA GenuineStep ==
  ASSUME TypeOK, Genuine, [Next]_vars
  PROVE  Genuine'
<1>0. /\ sender \in [Transfers -> Senders] /\ toRecv \in Seq(ToHost)
      /\ offered \in [Names -> SUBSET Contents]
  BY DEF TypeOK
\* A step that offers nothing new, leaves the contents, and adds one message at most.
<1>a. ASSUME UNCHANGED offered,
             \A t \in Transfers : sender'[t].phase # "idle" =>
               sender[t].phase # "idle" /\ sender'[t].content = sender[t].content,
             NEW m, m.kind = "complete" => m.body \in offered[NameOf[m.id]],
             \A k \in DOMAIN toRecv' : \/ toRecv'[k] = m
                                       \/ \E j \in DOMAIN toRecv : toRecv'[k] = toRecv[j]
      PROVE  Genuine'
  BY <1>a DEF Genuine
<1>1. ASSUME NEW t \in Transfers, NEW c \in Contents, Offer(t, c) PROVE Genuine'
  <2> DEFINE m == Message("offer", t, Len(c), << >>)
  <2>1. /\ toRecv' = Ship(toRecv, m)
        /\ sender' = [sender EXCEPT ![t] = [Idle EXCEPT !.phase = "offered", !.content = c]]
        /\ offered' = [offered EXCEPT ![NameOf[t]] = @ \cup {c}]
    BY <1>1 DEF Offer
  <2>2. m \in ToHost /\ m.kind = "offer"
    <3>1. Len(c) \in Nat /\ << >> \in Seq(STRING)
      OBVIOUS
    <3>2. m \in ToHost
      BY <3>1, MessageType
    <3> QED
      BY <3>2 DEF Message
  <2> HIDE DEF m
  <2>3. \A k \in DOMAIN toRecv' : \/ toRecv'[k] = m
                                  \/ k \in DOMAIN toRecv /\ toRecv'[k] = toRecv[k]
    BY <1>0, <2>1, <2>2, ShipIs
  <2>4. \A n \in Names : offered[n] \subseteq offered'[n]
    BY <1>0, <2>1
  <2>5. \A k \in DOMAIN toRecv : NameOf[toRecv[k].id] \in Names
    <3>1. \A k \in DOMAIN toRecv : toRecv[k] \in ToHost
      BY <1>0
    <3> QED
      BY <3>1 DEF ToHost
  <2>6. \A u \in Transfers : sender'[u].phase # "idle" =>
            sender'[u].content \in offered'[NameOf[u]]
    <3>1. sender'[t].content = c /\ c \in offered'[NameOf[t]]
      BY <1>0, <2>1 DEF Idle
    <3>2. \A u \in Transfers \ {t} : sender'[u] = sender[u]
      BY <1>0, <2>1
    <3> QED
      BY <2>4, <3>1, <3>2 DEF Genuine
  <2>7. \A k \in DOMAIN toRecv' : toRecv'[k].kind = "complete" =>
            toRecv'[k].body \in offered'[NameOf[toRecv'[k].id]]
    BY <2>2, <2>3, <2>4, <2>5 DEF Genuine
  <2> QED
    BY <2>6, <2>7 DEF Genuine
<1>2. ASSUME NEW t \in Transfers, Begin(t) \/ GiveUp(t) PROVE Genuine'
  <2>1. /\ UNCHANGED <<toRecv, offered>>
        /\ sender[t].phase # "idle"
        /\ sender'[t].content = sender[t].content
        /\ \A u \in Transfers \ {t} : sender'[u] = sender[u]
    BY <1>2, BeginIs, GiveUpIs DEF Only
  <2> QED
    BY <2>1 DEF Genuine
<1>3. ASSUME NEW t \in Transfers, SendChunk(t) \/ Conclude(t) \/ CancelSend(t) PROVE Genuine'
  <2>1. /\ UNCHANGED offered
        /\ sender[t].phase # "idle"
        /\ sender'[t].content = sender[t].content
        /\ \A u \in Transfers \ {t} : sender'[u] = sender[u]
    BY <1>3, SendChunkIs, ConcludeIs, CancelSendIs DEF Only
  <2>2. \E m : /\ m.kind = "complete" => m.body = sender[t].content /\ m.id = t
               /\ toRecv' = Ship(toRecv, m)
    BY <1>3 DEF SendChunk, Conclude, CancelSend, Message
  <2>3. PICK m : /\ m.kind = "complete" => m.body = sender[t].content /\ m.id = t
                 /\ toRecv' = Ship(toRecv, m)
    BY <2>2
  <2>4. \A k \in DOMAIN toRecv' : \/ toRecv'[k] = m
                                  \/ \E j \in DOMAIN toRecv : toRecv'[k] = toRecv[j]
    BY <1>0, <2>3 DEF Ship
  <2>5. m.kind = "complete" => m.body \in offered[NameOf[m.id]]
    BY <2>1, <2>3 DEF Genuine
  <2> QED
    BY <1>a, <2>1, <2>4, <2>5
<1>4. CASE HandleAck
  <2>1. /\ UNCHANGED <<toRecv, offered>>
        /\ \A t \in Transfers : /\ sender'[t].phase = sender[t].phase
                                /\ sender'[t].content = sender[t].content
    BY <1>4, HandleAckIs DEF Only
  <2> QED
    BY <2>1 DEF Genuine
<1>5. ASSUME NEW kind, Handle(kind) PROVE Genuine'
  <2>1. /\ \A k \in DOMAIN toRecv' : k + 1 \in DOMAIN toRecv /\ toRecv'[k] = toRecv[k + 1]
        /\ UNCHANGED <<sender, offered>>
    BY <1>5, HandleIs
  <2> QED
    BY <2>1 DEF Genuine
<1>6. CASE LinkLost \/ ViewerRestarts \/ HostRestarts
  <2>1. UNCHANGED offered /\ (UNCHANGED sender \/ sender' = [t \in Transfers |-> Idle])
    BY <1>6 DEF LinkLost, ViewerRestarts, HostRestarts, Fault
  <2>2. toRecv' \in Prefixes(toRecv) \/ toRecv' = << >>
    BY <1>6 DEF LinkLost, ViewerRestarts, HostRestarts
  <2>3. \A k \in DOMAIN toRecv' : k \in DOMAIN toRecv /\ toRecv'[k] = toRecv[k]
    BY <1>0, <2>2, PrefixKeeps
  <2> QED
    BY <2>1, <2>3 DEF Genuine, Idle
<1>7. CASE (\E t \in Transfers : CancelReceive(t)) \/ LinkBack \/ UNCHANGED vars
  <2>1. UNCHANGED <<toRecv, sender, offered>>
    BY <1>7 DEF CancelReceive, LinkBack, vars
  <2> QED
    BY <2>1 DEF Genuine
<1> QED
  BY <1>1, <1>2, <1>3, <1>4, <1>5, <1>6, <1>7
     DEF Next, Viewer, Host, HandleOffer, RefuseOffer, HandleChunk, DropChunk, IgnoreComplete,
         RejectComplete, AcceptComplete, Complete, HandleCancel


-----------------------------------------------------------------------------
(* What the host does to a receiver and to the files, part by part.         *)

\* A chunk that fits is written at the cursor, and hashed.
LEMMA ChunkTaken ==
  ASSUME TypeOK, HandleChunk
  PROVE  LET m == Head(toRecv)
             r == recvs[m.id]
             c == m.body[1]
         IN /\ m.id \in Transfers /\ r # Nothing /\ r \in Receivers /\ m.at = r.written
            /\ m = toRecv[1] /\ m.kind = "chunk" /\ 1 \in DOMAIN toRecv
            /\ c \in STRING
            /\ data' = [data EXCEPT ![r.inode] = Put(data[r.inode], r.written, c)]
            /\ recvs'[m.id] \in Receivers /\ recvs'[m.id].inode = r.inode
            /\ recvs'[m.id].written = r.written + 1
            /\ recvs'[m.id].hash = Append(r.hash, c) /\ recvs'[m.id].size = r.size
            /\ \A u \in Transfers \ {m.id} : recvs'[u] = recvs[u]
            /\ AckAt(m.id, r.written + 1) \/ UNCHANGED toSend
            /\ UNCHANGED <<part, final, sender, up, faults, offered>>
<1> DEFINE m == Head(toRecv)
           r == recvs[m.id]
           w == r.written + 1
           c == m.body[1]
           x == [r EXCEPT !.written = w, !.lastAck = w, !.hash = Append(r.hash, c)]
           y == [r EXCEPT !.written = w, !.hash = Append(r.hash, c)]
<1>0. /\ recvs \in [Transfers -> Receivers \cup {Nothing}]
      /\ data \in [Inodes -> Seq(STRING \cup {Hole})]
  BY DEF TypeOK
<1>1. Handle("chunk") /\ r # Nothing /\ m.at = r.written /\ UNCHANGED <<part, final>>
  BY DEF HandleChunk
<1>2. m.id \in Transfers /\ c \in STRING /\ m = toRecv[1] /\ m.kind = "chunk" /\ 1 \in DOMAIN toRecv
  <2>1. toRecv[1].body[1] \in STRING
    BY <1>1, HandleIs, ChunkIs
  <2> QED
    BY <1>1, <2>1, HandleIs
<1>3. r \in Receivers
  BY <1>0, <1>1, <1>2
<1>4. /\ r.inode \in Inodes /\ w \in Nat /\ r.hash \in Seq(STRING \cup {Hole})
      /\ Append(r.hash, c) \in Seq(STRING \cup {Hole})
  BY <1>2, <1>3 DEF Receivers
<1>5. /\ data' = [data EXCEPT ![r.inode] = Put(data[r.inode], r.written, c)]
      /\ \/ AckAt(m.id, w) /\ recvs' = [recvs EXCEPT ![m.id] = x]
         \/ UNCHANGED toSend /\ recvs' = [recvs EXCEPT ![m.id] = y]
  BY <1>0, <1>4 DEF HandleChunk
<1>6. /\ x \in Receivers /\ x.inode = r.inode /\ x.written = w /\ x.size = r.size
      /\ x.hash = Append(r.hash, c)
      /\ y \in Receivers /\ y.inode = r.inode /\ y.written = w /\ y.size = r.size
      /\ y.hash = Append(r.hash, c)
  BY <1>3, <1>4 DEF Receivers
<1>7. UNCHANGED <<sender, up, faults, offered>>
  BY <1>1, HandleIs
<1> HIDE DEF x, y
<1>8. /\ recvs'[m.id] \in {x, y}
      /\ \A u \in Transfers \ {m.id} : recvs'[u] = recvs[u]
  BY <1>0, <1>2, <1>5
<1>9. AckAt(m.id, w) \/ UNCHANGED toSend
  BY <1>5
<1>10. /\ recvs'[m.id] \in Receivers /\ recvs'[m.id].inode = r.inode /\ recvs'[m.id].written = w
       /\ recvs'[m.id].hash = Append(r.hash, c) /\ recvs'[m.id].size = r.size
  BY <1>6, <1>8
<1> QED
  BY <1>1, <1>2, <1>3, <1>5, <1>7, <1>8, <1>9, <1>10

\* A completion ends the receiver of its transfer, and moves the .part, or drops it,
\* or leaves it.
LEMMA Completed ==
  ASSUME TypeOK, IgnoreComplete \/ RejectComplete \/ AcceptComplete
  PROVE  LET m == Head(toRecv)
             n == NameOf[m.id]
         IN /\ m.id \in Transfers /\ n \in Names /\ Handle("complete")
            /\ m = toRecv[1] /\ m.kind = "complete" /\ 1 \in DOMAIN toRecv
            /\ recvs' = [recvs EXCEPT ![m.id] = Nothing]
            /\ \/ UNCHANGED <<part, final>>
               \/ /\ recvs[m.id] # Nothing /\ ~Verified(recvs[m.id], m)
                  /\ part' = [part EXCEPT ![n] = Nothing]
                  /\ UNCHANGED final
               \/ /\ recvs[m.id] # Nothing /\ Verified(recvs[m.id], m)
                  /\ part[n] # Nothing
                  /\ part' = [part EXCEPT ![n] = Nothing]
                  /\ final' = [final EXCEPT ![n] = part[n]]
            /\ UNCHANGED <<toSend, data, sender, up, faults, offered>>
<1> DEFINE m == Head(toRecv)
<1>1. /\ Handle("complete") /\ UNCHANGED <<toSend, data>>
      /\ recvs' = [recvs EXCEPT ![m.id] = Nothing]
  BY DEF IgnoreComplete, RejectComplete, AcceptComplete, Complete
<1>2. /\ m.id \in Transfers /\ NameOf[m.id] \in Names /\ m = toRecv[1] /\ m.kind = "complete"
      /\ 1 \in DOMAIN toRecv
      /\ UNCHANGED <<sender, up, faults, offered>>
  BY <1>1, HandleIs
<1>3. \/ UNCHANGED <<part, final>>
      \/ /\ recvs[m.id] # Nothing /\ ~Verified(recvs[m.id], m)
         /\ part' = [part EXCEPT ![NameOf[m.id]] = Nothing]
         /\ UNCHANGED final
      \/ /\ recvs[m.id] # Nothing /\ Verified(recvs[m.id], m)
         /\ part[NameOf[m.id]] # Nothing
         /\ part' = [part EXCEPT ![NameOf[m.id]] = Nothing]
         /\ final' = [final EXCEPT ![NameOf[m.id]] = part[NameOf[m.id]]]
  BY DEF IgnoreComplete, RejectComplete, AcceptComplete
<1> QED
  BY <1>1, <1>2, <1>3

\* Everything else that touches a receiver takes it away.
LEMMA TakenAway ==
  ASSUME TypeOK, [Next]_vars, ~HandleOffer, ~HandleChunk
  PROVE  /\ \A t \in Transfers : recvs'[t] # Nothing => recvs'[t] = recvs[t]
         /\ UNCHANGED data
<1>0. recvs \in [Transfers -> Receivers \cup {Nothing}]
  BY DEF TypeOK
<1>1. /\ \/ UNCHANGED recvs
         \/ \E t : recvs' = [recvs EXCEPT ![t] = Nothing]
         \/ recvs' = [t \in Transfers |-> Nothing]
      /\ UNCHANGED data
  BY DEF Next, Viewer, Host, Offer, Begin, SendChunk, Conclude, GiveUp, CancelSend,
         HandleAck, RefuseOffer, DropChunk, IgnoreComplete, RejectComplete, AcceptComplete,
         Complete, HandleCancel, CancelReceive, LinkLost, LinkBack, ViewerRestarts,
         HostRestarts, Fault, vars, diskVars
<1> QED
  BY <1>0, <1>1

LEMMA PartStays ==
  ASSUME [Next]_vars, ~HandleOffer, ~RejectComplete, ~AcceptComplete
  PROVE  UNCHANGED <<part, final>>
  BY DEF Next, Viewer, Host, Offer, Begin, SendChunk, Conclude, GiveUp, CancelSend,
         HandleAck, RefuseOffer, HandleChunk, DropChunk, IgnoreComplete, HandleCancel,
         CancelReceive, LinkLost, LinkBack, ViewerRestarts, HostRestarts, Fault, vars, diskVars

-----------------------------------------------------------------------------
(* The digest and the disk.                                                 *)

LEMMA AttachedInit == Init => Attached
  BY DEF Init, Attached

LEMMA AttachedStep ==
  ASSUME OneIdPerName, "read" \notin Failing, TypeOK, Apart, Attached, [Next]_vars
  PROVE  Attached'
<1>0. /\ recvs \in [Transfers -> Receivers \cup {Nothing}]
      /\ part \in [Names -> Inodes \cup {Nothing}]
      /\ data \in [Inodes -> Seq(STRING \cup {Hole})]
  BY DEF TypeOK
<1>1. CASE HandleOffer
  <2> DEFINE m == Head(toRecv)
             n == NameOf[m.id]
             held(i) == IF part[n] = Nothing THEN << >> ELSE data[i]
             kept(i, resume) == SubSeq(held(i), 1, resume)
  <2>1. m.id \in Transfers /\ n \in Names
    BY <1>1, HandleIs DEF HandleOffer
  <2>2. PICK i \in Inodes, h \in Seq(STRING \cup {Hole}), d \in Seq(STRING \cup {Hole}),
             resume \in Nat :
             /\ IF part[n] = Nothing THEN Fresh(i) ELSE i = part[n]
             /\ held(i) \in Seq(STRING \cup {Hole})
             /\ kept(i, resume) \in Seq(STRING \cup {Hole})
             /\ resume <= Len(held(i)) /\ Len(kept(i, resume)) = resume
             /\ h \in Hashed(kept(i, resume)) /\ d \in Cut(held(i), kept(i, resume))
             /\ recvs' = [recvs EXCEPT ![m.id] = [inode |-> i, written |-> resume,
                            size |-> m.at, lastAck |-> resume, hash |-> h]]
             /\ data' = [data EXCEPT ![i] = d]
             /\ part' = [part EXCEPT ![n] = i]
    BY <1>1, TakenUp, ZenonT(60)
  <2>3. h = kept(i, resume) /\ d \in {held(i), kept(i, resume)}
    BY <2>2 DEF Hashed, Cut
  <2>4. IsPrefix(h, d) /\ Len(h) = resume
    <3> HIDE DEF held
    <3>1. Len(h) <= Len(d) /\ \A k \in 1 .. Len(h) : h[k] = d[k]
      BY <2>2, <2>3
    <3> QED
      BY <2>2, <2>3, <3>1, PrefixIs
  <2> HIDE DEF m, held, kept
  <2>5. ASSUME NEW u \in Transfers, recvs'[u] # Nothing
        PROVE  /\ part'[NameOf[u]] = recvs'[u].inode
               /\ recvs'[u].written = Len(recvs'[u].hash)
               /\ IsPrefix(recvs'[u].hash, data'[recvs'[u].inode])
    <3>1. CASE u = m.id
      BY <1>0, <2>1, <2>2, <2>4, <3>1
    <3>2. CASE u # m.id
      <4>1. recvs'[u] = recvs[u] /\ NameOf[u] # n /\ NameOf[u] \in Names
        BY <1>0, <2>1, <2>2, <3>2 DEF OneIdPerName
      <4>2. recvs[u].inode = part[NameOf[u]] /\ recvs[u].inode \in Inodes
        BY <1>0, <2>5, <4>1 DEF Attached, Receivers
      <4>3. recvs[u].inode # i
        <5>1. CASE part[n] = Nothing
          BY <2>2, <2>5, <4>1, <5>1 DEF Fresh
        <5>2. CASE part[n] # Nothing
          BY <2>1, <2>2, <4>1, <4>2, <5>2 DEF Apart
        <5> QED
          BY <5>1, <5>2
      <4> QED
        BY <1>0, <2>1, <2>2, <2>5, <4>1, <4>2, <4>3 DEF Attached
    <3> QED
      BY <3>1, <3>2
  <2> QED
    BY <2>5 DEF Attached
<1>2. CASE HandleChunk
  <2> DEFINE m == Head(toRecv)
             r == recvs[m.id]
             c == m.body[1]
  <2>1. /\ m.id \in Transfers /\ r # Nothing /\ r \in Receivers /\ c \in STRING
        /\ data' = [data EXCEPT ![r.inode] = Put(data[r.inode], r.written, c)]
        /\ recvs'[m.id].inode = r.inode /\ recvs'[m.id].written = r.written + 1
        /\ recvs'[m.id].hash = Append(r.hash, c)
        /\ \A u \in Transfers \ {m.id} : recvs'[u] = recvs[u]
        /\ UNCHANGED part
    BY <1>2, ChunkTaken
  <2> HIDE DEF m, c
  <2>2. /\ r.inode \in Inodes /\ r.written \in Nat /\ r.hash \in Seq(STRING \cup {Hole})
        /\ data[r.inode] \in Seq(STRING \cup {Hole})
    BY <1>0, <2>1 DEF Receivers
  <2>3. /\ part[NameOf[m.id]] = r.inode /\ r.written = Len(r.hash)
        /\ Len(r.hash) <= Len(data[r.inode])
        /\ \A k \in 1 .. Len(r.hash) : r.hash[k] = data[r.inode][k]
    BY <2>1, <2>2, PrefixIs DEF Attached
  <2> DEFINE d == Put(data[r.inode], r.written, c)
             h == Append(r.hash, c)
  <2>4. /\ d \in Seq(STRING \cup {Hole}) /\ r.written + 1 <= Len(d)
        /\ d[r.written + 1] = c
        /\ \A k \in 1 .. r.written : d[k] = data[r.inode][k]
    <3> DEFINE f == data[r.inode]
               w == r.written
               S == STRING \cup {Hole}
    <3>1. f \in Seq(S) /\ w \in Nat /\ w <= Len(f) /\ c \in S
      BY <2>1, <2>2, <2>3
    <3> HIDE DEF f, w, S
    <3>2. /\ Put(f, w, c) \in Seq(S) /\ w + 1 <= Len(Put(f, w, c))
          /\ Put(f, w, c)[w + 1] = c
          /\ \A k \in 1 .. w : Put(f, w, c)[k] = f[k]
      BY <3>1, PutIs
    <3> QED
      BY <3>2 DEF f, w, S
  <2>5. h \in Seq(STRING \cup {Hole}) /\ Len(h) = r.written + 1
        /\ h[r.written + 1] = c /\ \A k \in 1 .. r.written : h[k] = r.hash[k]
    BY <2>1, <2>2, <2>3
  <2>6. IsPrefix(h, d)
    <3> HIDE DEF h, d
    <3>1. \A k \in 1 .. Len(h) : k = r.written + 1 \/ k \in 1 .. r.written
      BY <2>2, <2>5
    <3>2. Len(h) <= Len(d) /\ \A k \in 1 .. Len(h) : h[k] = d[k]
      BY <2>2, <2>3, <2>4, <2>5, <3>1
    <3> QED
      BY <2>4, <2>5, <3>2, PrefixIs
  <2>7. data'[r.inode] = d
    BY <1>0, <2>1, <2>2
  <2> HIDE DEF h, d
  <2>8. ASSUME NEW u \in Transfers, recvs'[u] # Nothing
        PROVE  /\ part'[NameOf[u]] = recvs'[u].inode
               /\ recvs'[u].written = Len(recvs'[u].hash)
               /\ IsPrefix(recvs'[u].hash, data'[recvs'[u].inode])
    <3>1. CASE u = m.id
      BY <2>1, <2>3, <2>5, <2>6, <2>7, <3>1 DEF h
    <3>2. CASE u # m.id
      <4>1. recvs'[u] = recvs[u] /\ NameOf[u] # NameOf[m.id] /\ NameOf[u] \in Names
            /\ NameOf[m.id] \in Names
        BY <2>1, <3>2 DEF OneIdPerName
      <4>2. recvs[u].inode = part[NameOf[u]] /\ recvs[u].inode \in Inodes
        BY <1>0, <2>8, <4>1 DEF Attached, Receivers
      <4>3. recvs[u].inode # r.inode
        BY <2>2, <2>3, <4>1, <4>2 DEF Apart
      <4>4. data'[recvs[u].inode] = data[recvs[u].inode]
        BY <1>0, <2>1, <4>2, <4>3
      <4> QED
        BY <2>1, <2>8, <4>1, <4>2, <4>4 DEF Attached
    <3> QED
      BY <3>1, <3>2
  <2> QED
    BY <2>8 DEF Attached
<1>3. CASE RejectComplete \/ AcceptComplete
  <2>1. UNCHANGED data /\ \A t \in Transfers : recvs'[t] # Nothing =>
             recvs'[t] = recvs[t] /\ part'[NameOf[t]] = part[NameOf[t]]
    <3> DEFINE i == Head(toRecv).id
    <3>1. /\ i \in Transfers /\ recvs' = [recvs EXCEPT ![i] = Nothing] /\ UNCHANGED data
          /\ UNCHANGED part \/ part' = [part EXCEPT ![NameOf[i]] = Nothing]
      BY <1>3, Completed
    <3> HIDE DEF i
    <3> QED
      BY <1>0, <3>1 DEF OneIdPerName
  <2> QED
    BY <2>1 DEF Attached
<1>4. CASE ~(HandleOffer \/ HandleChunk \/ RejectComplete \/ AcceptComplete)
  BY <1>4, TakenAway, PartStays DEF Attached
<1> QED
  BY <1>1, <1>2, <1>3, <1>4


\* The digest a receiver computes is that of what its .part holds (on_offer's re-hash,
\* on_chunk), where no two transfers share a .part, and reading one back never fails.
THEOREM DigestIsOfTheDisk ==
  ASSUME OneIdPerName, "read" \notin Failing
  PROVE  Spec => []ReceiverMatchesDisk
<1>1. Init => TypeOK /\ Apart /\ Attached
  BY TypeInit, ApartInit, AttachedInit
<1>2. TypeOK /\ Apart /\ Attached /\ [Next]_vars => (TypeOK /\ Apart /\ Attached)'
  BY TypeStep, ApartStep, AttachedStep
<1>3. Attached => ReceiverMatchesDisk
  BY DEF Attached, ReceiverMatchesDisk
<1> QED
  BY <1>1, <1>2, <1>3, PTL DEF Spec

-----------------------------------------------------------------------------
(* What is delivered.                                                       *)

\* The .part an offer takes up, and the one a receiver writes to, is nobody else's.
LEMMA Elsewhere ==
  ASSUME OneIdPerName, TypeOK, Apart, Attached,
         NEW n \in Names, NEW i \in Inodes,
         IF part[n] = Nothing THEN Fresh(i) ELSE i = part[n]
  PROVE  /\ \A u \in Transfers : recvs[u] # Nothing /\ NameOf[u] # n => recvs[u].inode # i
         /\ \A x \in Names : final[x] # i
         /\ \A x \in Names \ {n} : part[x] # i
<1>1. CASE part[n] = Nothing
  BY <1>1 DEF Fresh
<1>2. CASE part[n] # Nothing
  BY <1>2 DEF Apart, Attached
<1> QED
  BY <1>1, <1>2

\* No step writes to a file that was delivered.
LEMMA FilesStay ==
  ASSUME OneIdPerName, TypeOK, Apart, Attached, [Next]_vars
  PROVE  \A x \in Names : final[x] # Nothing => data'[final[x]] = data[final[x]]
<1>0. /\ data \in [Inodes -> Seq(STRING \cup {Hole})]
      /\ final \in [Names -> Inodes \cup {Nothing}]
  BY DEF TypeOK
<1>1. CASE HandleOffer
  <2> DEFINE n == NameOf[Head(toRecv).id]
  <2>1. PICK i \in Inodes, d \in Seq(STRING \cup {Hole}) :
             /\ IF part[n] = Nothing THEN Fresh(i) ELSE i = part[n]
             /\ data' = [data EXCEPT ![i] = d]
    BY <1>1, TakenUp
  <2>2. n \in Names
    BY <1>1, HandleIs DEF HandleOffer
  <2> HIDE DEF n
  <2>3. \A x \in Names : final[x] # i
    BY <2>1, <2>2, Elsewhere
  <2> QED
    BY <1>0, <2>1, <2>3
<1>2. CASE HandleChunk
  <2> DEFINE m == Head(toRecv)
             i == recvs[m.id].inode
  <2>1. /\ m.id \in Transfers /\ recvs[m.id] # Nothing /\ recvs[m.id] \in Receivers
        /\ \E d : data' = [data EXCEPT ![i] = d]
    BY <1>2, ChunkTaken
  <2> HIDE DEF m
  <2>2. i \in Inodes /\ i = part[NameOf[m.id]] /\ NameOf[m.id] \in Names
    BY <2>1 DEF Attached, Receivers
  <2> HIDE DEF i
  <2>3. \A x \in Names : final[x] # i
    BY <2>2, Elsewhere
  <2> QED
    BY <1>0, <2>1, <2>3
<1>3. CASE ~(HandleOffer \/ HandleChunk)
  BY <1>3, TakenAway
<1> QED
  BY <1>1, <1>2, <1>3

LEMMA ExactInit == Init => Exact
  BY DEF Init, Exact

LEMMA ExactStep ==
  ASSUME OneIdPerName, "read" \notin Failing, "truncate" \notin Failing,
         TypeOK, Apart, Genuine, Attached, Exact, [Next]_vars
  PROVE  Exact'
<1>0. /\ recvs \in [Transfers -> Receivers \cup {Nothing}]
      /\ part \in [Names -> Inodes \cup {Nothing}]
      /\ final \in [Names -> Inodes \cup {Nothing}]
      /\ data \in [Inodes -> Seq(STRING \cup {Hole})]
      /\ offered \in [Names -> SUBSET Contents]
  BY DEF TypeOK
<1>1. ASSUME NEW u \in Transfers, recvs'[u] # Nothing
      PROVE  data'[recvs'[u].inode] = recvs'[u].hash
  <2>1. CASE HandleOffer
    <3> DEFINE m == Head(toRecv)
               n == NameOf[m.id]
               held(i) == IF part[n] = Nothing THEN << >> ELSE data[i]
               kept(i, resume) == SubSeq(held(i), 1, resume)
    <3>1. m.id \in Transfers /\ n \in Names
      BY <2>1, HandleIs DEF HandleOffer
    <3>a. PICK i \in Inodes, h \in Seq(STRING \cup {Hole}), d \in Seq(STRING \cup {Hole}),
               resume \in Nat :
               /\ IF part[n] = Nothing THEN Fresh(i) ELSE i = part[n]
               /\ h \in Hashed(kept(i, resume)) /\ d \in Cut(held(i), kept(i, resume))
               /\ recvs' = [recvs EXCEPT ![m.id] = [inode |-> i, written |-> resume,
                              size |-> m.at, lastAck |-> resume, hash |-> h]]
               /\ data' = [data EXCEPT ![i] = d]
      BY <2>1, TakenUp, ZenonT(60)
    <3> HIDE DEF m, n, kept, held
    <3>2. h = d
      BY <3>a DEF Hashed, Cut
    <3>3. CASE u = m.id
      BY <1>0, <3>1, <3>2, <3>a, <3>3
    <3>4. CASE u # m.id
      <4>1. recvs'[u] = recvs[u] /\ NameOf[u] # n
        BY <1>0, <3>1, <3>a, <3>4 DEF OneIdPerName, n
      <4>2. recvs[u].inode # i /\ recvs[u].inode \in Inodes
        BY <1>0, <1>1, <3>1, <3>a, <4>1, Elsewhere DEF Receivers
      <4> QED
        BY <1>0, <1>1, <3>a, <4>1, <4>2 DEF Exact
    <3> QED
      BY <3>3, <3>4
  <2>2. CASE HandleChunk
    <3> DEFINE m == Head(toRecv)
               r == recvs[m.id]
               c == m.body[1]
    <3>1. /\ m.id \in Transfers /\ r # Nothing /\ r \in Receivers /\ c \in STRING
          /\ data' = [data EXCEPT ![r.inode] = Put(data[r.inode], r.written, c)]
          /\ recvs'[m.id].inode = r.inode /\ recvs'[m.id].hash = Append(r.hash, c)
          /\ \A v \in Transfers \ {m.id} : recvs'[v] = recvs[v]
      BY <2>2, ChunkTaken
    <3> HIDE DEF m, c
    <3>2. /\ r.inode \in Inodes /\ r.inode = part[NameOf[m.id]] /\ NameOf[m.id] \in Names
          /\ r.hash \in Seq(STRING \cup {Hole}) /\ data[r.inode] = r.hash
          /\ r.written = Len(r.hash)
      BY <3>1 DEF Attached, Receivers, Exact
    <3>3. Put(r.hash, Len(r.hash), c) = Append(r.hash, c)
      <4>1. c \in STRING \cup {Hole}
        BY <3>1
      <4> QED
        BY <3>2, <4>1, PutAtEnd
    <3>4. CASE u = m.id
      BY <1>0, <3>1, <3>2, <3>3, <3>4
    <3>5. CASE u # m.id
      <4>1. recvs'[u] = recvs[u] /\ NameOf[u] # NameOf[m.id]
        BY <3>1, <3>5 DEF OneIdPerName
      <4>2. recvs[u].inode # r.inode /\ recvs[u].inode \in Inodes
        BY <1>0, <1>1, <3>2, <4>1, Elsewhere DEF Receivers
      <4> QED
        BY <1>0, <1>1, <3>1, <4>1, <4>2 DEF Exact
    <3> QED
      BY <3>4, <3>5
  <2>3. CASE ~(HandleOffer \/ HandleChunk)
    BY <1>1, <2>3, TakenAway DEF Exact
  <2> QED
    BY <2>1, <2>2, <2>3
<1>2. ASSUME NEW x \in Names, final'[x] # Nothing
      PROVE  data'[final'[x]] \in offered'[x]
  <2>1. offered[x] \subseteq offered'[x]
    <3>1. \/ UNCHANGED offered
          \/ \E t \in Transfers, c \in Contents :
                offered' = [offered EXCEPT ![NameOf[t]] = @ \cup {c}]
      BY DEF Next, Viewer, Host, Offer, Begin, SendChunk, Conclude, GiveUp, CancelSend,
             HandleAck, HandleOffer, RefuseOffer, HandleChunk, DropChunk, IgnoreComplete,
             RejectComplete, AcceptComplete, Complete, HandleCancel, CancelReceive, Handle,
             LinkLost, LinkBack, ViewerRestarts, HostRestarts, Fault, vars
    <3> QED
      BY <1>0, <3>1
  <2>2. CASE final'[x] = final[x]
    BY <1>2, <2>1, <2>2, FilesStay DEF Exact
  <2>3. CASE final'[x] # final[x]
    <3> DEFINE m == Head(toRecv)
               n == NameOf[m.id]
    <3>1. /\ AcceptComplete
          /\ m.id \in Transfers /\ n \in Names /\ m = toRecv[1] /\ m.kind = "complete"
          /\ 1 \in DOMAIN toRecv
          /\ recvs[m.id] # Nothing /\ Verified(recvs[m.id], m)
          /\ final' = [final EXCEPT ![n] = part[n]]
          /\ UNCHANGED data
      <4>1. RejectComplete \/ AcceptComplete
        BY <2>3, PartStays DEF HandleOffer
      <4> QED
        BY <2>3, <4>1, Completed DEF RejectComplete, AcceptComplete
    <3>2. m.body \in offered[n]
      BY <3>1 DEF Genuine
    <3>3. data[part[n]] = m.body
      BY <3>1 DEF Attached, Exact, Verified
    <3> HIDE DEF m, n
    <3> QED
      BY <1>0, <2>1, <2>3, <3>1, <3>2, <3>3
  <2> QED
    BY <2>2, <2>3
<1> QED
  BY <1>1, <1>2 DEF Exact


-----------------------------------------------------------------------------
(* The protocol implements the copying of whole files.                      *)

\* Only a completion that verifies gives a file its name.
LEMMA FinalStays ==
  ASSUME [Next]_vars, ~AcceptComplete
  PROVE  UNCHANGED final
<1>1. CASE HandleOffer \/ RejectComplete
  BY <1>1 DEF HandleOffer, RejectComplete
<1>2. CASE ~(HandleOffer \/ RejectComplete)
  BY <1>2, PartStays
<1> QED
  BY <1>1, <1>2

LEMMA CopyStep ==
  ASSUME OneIdPerName, TypeOK, Apart, Genuine, Attached, Exact, [Next]_vars
  PROVE  [Copy!CopyNext]_(Copy!copyVars)
<1>0. /\ final \in [Names -> Inodes \cup {Nothing}]
      /\ offered \in [Names -> SUBSET Contents]
  BY DEF TypeOK
<1>1. ASSUME UNCHANGED final PROVE UNCHANGED Files
  <2>1. \A x \in Names : (IF final'[x] = Nothing THEN Nothing ELSE data'[final'[x]])
                           = (IF final[x] = Nothing THEN Nothing ELSE data[final[x]])
    BY <1>1, FilesStay
  <2> QED
    BY <2>1 DEF Files
<1>2. ASSUME NEW t \in Transfers, NEW c \in Contents, Offer(t, c)
      PROVE  Copy!OfferFile(NameOf[t], c)
  <2>1. UNCHANGED final /\ offered' = [offered EXCEPT ![NameOf[t]] = @ \cup {c}]
    BY <1>2 DEF Offer, diskVars
  <2> QED
    BY <1>1, <2>1 DEF Copy!OfferFile
<1>3. ASSUME AcceptComplete, final' # final
      PROVE  \E n \in Names : Copy!Deliver(n)
  <2> DEFINE m == Head(toRecv)
             n == NameOf[m.id]
  <2>1. /\ m.id \in Transfers /\ n \in Names /\ m = toRecv[1] /\ m.kind = "complete"
        /\ 1 \in DOMAIN toRecv
        /\ recvs[m.id] # Nothing /\ Verified(recvs[m.id], m)
        /\ part[n] # Nothing /\ final' = [final EXCEPT ![n] = part[n]]
        /\ UNCHANGED <<data, offered>>
    BY <1>3, Completed
  <2>2. m.body \in offered[n]
    BY <2>1 DEF Genuine
  <2>3. data[part[n]] = m.body
    BY <2>1 DEF Attached, Exact, Verified
  <2> DEFINE b == m.body
  <2>4. \A x \in Names : (IF final'[x] = Nothing THEN Nothing ELSE data'[final'[x]])
                           = IF x = n THEN b
                             ELSE IF final[x] = Nothing THEN Nothing ELSE data[final[x]]
    BY <1>0, <2>1, <2>3
  <2> HIDE DEF m, n, b
  <2>5. Files' = [Files EXCEPT ![n] = b]
    <3>1. Files' = [x \in Names |-> IF x = n THEN b
                      ELSE IF final[x] = Nothing THEN Nothing ELSE data[final[x]]]
      BY <2>4 DEF Files
    <3>2. [Files EXCEPT ![n] = b] = [x \in Names |-> IF x = n THEN b
                      ELSE IF final[x] = Nothing THEN Nothing ELSE data[final[x]]]
      BY <2>1 DEF Files
    <3> QED
      BY <3>1, <3>2
  <2>6. b \in offered[n]
    BY <2>2 DEF b
  <2> QED
    BY <2>1, <2>5, <2>6 DEF Copy!Deliver
<1>4. ASSUME ~\E t \in Transfers, c \in Contents : Offer(t, c)
      PROVE  UNCHANGED offered
  BY <1>4 DEF Next, Viewer, Host, Begin, SendChunk, Conclude, GiveUp, CancelSend,
         HandleAck, HandleOffer, RefuseOffer, HandleChunk, DropChunk, IgnoreComplete,
         RejectComplete, AcceptComplete, Complete, HandleCancel, CancelReceive, Handle,
         LinkLost, LinkBack, ViewerRestarts, HostRestarts, Fault, vars
<1>5. CASE \E t \in Transfers, c \in Contents : Offer(t, c)
  BY <1>2, <1>5 DEF Copy!CopyNext
<1>6. CASE ~\E t \in Transfers, c \in Contents : Offer(t, c)
  <2>1. UNCHANGED final \/ \E n \in Names : Copy!Deliver(n)
    BY <1>3, FinalStays
  <2> QED
    BY <1>1, <1>4, <1>6, <2>1 DEF Copy!CopyNext, Copy!copyVars
<1> QED
  BY <1>5, <1>6

\* Whatever is lost, restarted, cancelled or resumed, what appears under a name is the
\* whole of a file offered under it, and is replaced only by another one (the .part, and
\* the digest in on_complete), where no two transfers share a .part, and re-reading and
\* cutting one do not fail unnoticed.
THEOREM WholeFilesOnly ==
  ASSUME OneIdPerName, "read" \notin Failing, "truncate" \notin Failing
  PROVE  Spec => CopiesWholeFiles
<1> DEFINE Inv == TypeOK /\ Apart /\ Genuine /\ Attached /\ Exact
<1>1. Init => Inv
  BY TypeInit, ApartInit, GenuineInit, AttachedInit, ExactInit
<1>2. Inv /\ [Next]_vars => Inv'
  BY TypeStep, ApartStep, GenuineStep, AttachedStep, ExactStep
<1>3. Inv /\ [Next]_vars => [Copy!CopyNext]_(Copy!copyVars)
  BY CopyStep
<1>4. Init => Copy!CopyInit
  <2>1. ASSUME Init PROVE Files = [n \in Names |-> Nothing]
    BY <2>1 DEF Init, Files
  <2> QED
    BY <2>1 DEF Init, Copy!CopyInit
<1> QED
  BY <1>1, <1>2, <1>3, <1>4, PTL DEF Spec, CopiesWholeFiles, Copy!CopySpec


-----------------------------------------------------------------------------
(* The first life of the viewer: steps that leave a transfer as it is.      *)

\* What is said of t is in five fields of its sender, its receiver, the files of its
\* name and its messages.
SenderStays(t) ==
  /\ sender'[t].phase = sender[t].phase /\ sender'[t].content = sender[t].content
  /\ sender'[t].next = sender[t].next /\ sender'[t].acked = sender[t].acked
  /\ sender'[t].started = sender[t].started

FilesStayOf(t) ==
  LET n == NameOf[t] IN
  /\ part'[n] = part[n] /\ final'[n] = final[n]
  /\ part[n] # Nothing => data'[part[n]] = data[part[n]]
  /\ final[n] # Nothing => data'[final[n]] = data[final[n]]

\* What p holds of t is in q as well, `by` places further on.
Shifted(p, q, t, by) ==
  /\ DOMAIN p \subseteq Nat
  /\ \A k \in DOMAIN p :
        p[k].id = t /\ p[k].kind # "cancel" => k + by \in DOMAIN q /\ p[k] = q[k + by]

LEMMA ShiftedOf ==
  ASSUME NEW p, NEW q, NEW t, NEW by \in Nat, Shifted(p, q, t, by),
         NEW kind, kind # "cancel"
  PROVE  \A k \in Of(p, t, kind) : k \in Nat /\ k + by \in Of(q, t, kind) /\ p[k] = q[k + by]
  BY DEF Shifted, Of

\* Nothing is new to t: it goes on as it was.
LEMMA QuietStep ==
  ASSUME TypeOK, NEW t \in Transfers, Life(t), NEW a \in Nat, NEW b \in Nat,
         SenderStays(t), FilesStayOf(t), recvs'[t] \in {recvs[t], Nothing},
         Shifted(toRecv', toRecv, t, a), Shifted(toSend', toSend, t, b)
  PROVE  Life(t)'
<1>1. /\ \A k \in Chunks(t)' : k \in Nat /\ k + a \in Chunks(t) /\ toRecv'[k] = toRecv[k + a]
      /\ \A k \in Completes(t)' : k + a \in Completes(t) /\ toRecv'[k] = toRecv[k + a]
      /\ \A k \in Offers(t)' : k \in Nat /\ k + a \in Offers(t) /\ toRecv'[k] = toRecv[k + a]
      /\ \A k \in Acks(t)' : k \in Nat /\ k + b \in Acks(t) /\ toSend'[k] = toSend[k + b]
  BY ShiftedOf DEF Chunks, Completes, Offers, Acks
<1>2. Unseen(t) => Unseen(t)'
  BY <1>1 DEF Unseen, SenderStays, FilesStayOf
<1>3. Introduced(t)'
  <2>1. Offers(t)' # {} => Offers(t) # {}
    BY <1>1
  <2>2. Offers(t) = {} => Offers(t)' = {}
    BY <1>1
  <2>3. \A k \in Offers(t)' : toRecv'[k].at = Len(sender'[t].content)
    BY <1>1 DEF Life, Introduced, SenderStays
  <2>4. \A j, k \in Offers(t)' : j = k
    <3>1. \A j, k \in Offers(t)' : j + a = k + a
      BY <1>1 DEF Life, Introduced
    <3> QED
      BY <1>1, <3>1
  <2> QED
    BY <1>2, <2>1, <2>2, <2>3, <2>4 DEF Life, Introduced, SenderStays
<1>4. OnDisk(t)'
  <2> DEFINE n == NameOf[t]
  <2>1. part'[n] # Nothing =>
           final'[n] = Nothing /\ IsPrefix(data'[part'[n]], sender'[t].content)
    BY DEF Life, OnDisk, SenderStays, FilesStayOf
  <2>2. final'[n] # Nothing => recvs'[t] = Nothing /\ data'[final'[n]] = sender'[t].content
    BY DEF Life, OnDisk, SenderStays, FilesStayOf
  <2>3. ASSUME recvs'[t] # Nothing
        PROVE  /\ recvs'[t] = recvs[t] /\ part'[n] = part[n]
               /\ part[n] = recvs[t].inode /\ part[n] # Nothing
               /\ recvs[t].hash = data[part[n]] /\ data'[part[n]] = data[part[n]]
               /\ recvs[t].written = Len(recvs[t].hash)
               /\ recvs[t].size = Len(sender[t].content)
               /\ sender'[t].content = sender[t].content
    <3>1. recvs'[t] = recvs[t] /\ recvs[t] # Nothing
      BY <2>3
    <3>2. recvs[t] \in Receivers
      BY <3>1 DEF TypeOK
    <3>3. recvs[t].inode # Nothing
      BY <3>2 DEF Receivers
    <3> QED
      BY <3>1, <3>3 DEF Life, OnDisk, SenderStays, FilesStayOf
  <2> QED
    BY <2>1, <2>2, <2>3 DEF OnDisk
<1>5. Acked(t)'
  <2>1. \A l : Holds(t, l) => Holds(t, l)'
    BY DEF Holds, FilesStayOf
  <2>2. \A j, k \in Acks(t)' : j < k => j + b < k + b
    BY <1>1
  <2> QED
    BY <1>1, <2>1, <2>2 DEF Life, Acked, SenderStays
<1>6. InWindow(t)'
  <2>1. \A j, k \in Chunks(t)' : j < k => j + a < k + a
    BY <1>1
  <2>2. \A j, k \in Chunks(t)' : j < k => toRecv'[j].at < toRecv'[k].at
    BY <1>1, <2>1 DEF Life, InWindow
  <2>3. ASSUME NEW k \in Chunks(t)'
        PROVE  /\ sender'[t].acked <= toRecv'[k].at /\ toRecv'[k].at < sender'[t].next
               /\ toRecv'[k].at < Len(sender'[t].content)
               /\ toRecv'[k].body[1] = sender'[t].content[toRecv'[k].at + 1]
               /\ \A j \in Acks(t)' : toSend'[j].at <= toRecv'[k].at
    BY <1>1 DEF Life, InWindow, SenderStays
  <2>4. sender'[t].acked <= sender'[t].next /\ sender'[t].next <= sender'[t].acked + Window
    BY DEF Life, InWindow, SenderStays
  <2> QED
    BY <2>2, <2>3, <2>4 DEF InWindow
<1>7. Started(t)'
  BY <1>1 DEF Life, Started, SenderStays
<1> QED
  BY <1>3, <1>4, <1>5, <1>6, <1>7 DEF Life


-----------------------------------------------------------------------------
(* The first life of the viewer: its own steps.                             *)

\* What a shipped message adds to the messages of t.
LEMMA ToRecvOf ==
  ASSUME TypeOK, NEW m \in ToHost, toRecv' = Ship(toRecv, m), NEW t
  PROVE  LET New(k, kind) == /\ toRecv'[k] = m /\ m.id = t /\ m.kind = kind
                             /\ k = Len(toRecv) + 1 /\ \A j \in DOMAIN toRecv : j < k
             Old(k) == toRecv'[k] = toRecv[k]
         IN /\ \A k \in Chunks(t)' : (k \in Chunks(t) /\ Old(k)) \/ New(k, "chunk")
            /\ \A k \in Completes(t)' : (k \in Completes(t) /\ Old(k)) \/ New(k, "complete")
            /\ \A k \in Offers(t)' : (k \in Offers(t) /\ Old(k)) \/ New(k, "offer")
            /\ DOMAIN toRecv' \subseteq Nat
            /\ m.id # t \/ m.kind = "cancel" => Shifted(toRecv', toRecv, t, 0)
<1>1. toRecv \in Seq(ToHost)
  BY DEF TypeOK
<1>2. toRecv' = Append(toRecv, m) \/ toRecv' = toRecv
  BY DEF Ship
<1>3. /\ DOMAIN toRecv' \subseteq Nat
      /\ \A k \in DOMAIN toRecv' :
            \/ k \in DOMAIN toRecv /\ toRecv'[k] = toRecv[k]
            \/ /\ toRecv'[k] = m /\ k = Len(toRecv) + 1
               /\ \A j \in DOMAIN toRecv : j < k
  BY <1>1, <1>2
<1>4. m.id # t \/ m.kind = "cancel" => Shifted(toRecv', toRecv, t, 0)
  <2>1. \A k \in DOMAIN toRecv' : k + 0 = k
    BY <1>3
  <2> QED
    BY <1>3, <2>1 DEF Shifted
<1> QED
  BY <1>3, <1>4 DEF Chunks, Completes, Offers, Of

LEMMA ToSendOf ==
  ASSUME TypeOK, NEW m \in ToViewer, toSend' = Ship(toSend, m), NEW t
  PROVE  /\ \A k \in Acks(t)' :  \/ k \in Acks(t) /\ toSend'[k] = toSend[k]
                                 \/ /\ toSend'[k] = m /\ m.id = t /\ m.kind = "ack"
                                    /\ \A j \in DOMAIN toSend : j < k
                                    /\ k = Len(toSend) + 1
         /\ DOMAIN toSend' \subseteq Nat
         /\ m.id # t \/ m.kind = "cancel" => Shifted(toSend', toSend, t, 0)
<1>1. toSend \in Seq(ToViewer)
  BY DEF TypeOK
<1>2. toSend' = Append(toSend, m) \/ toSend' = toSend
  BY DEF Ship
<1>3. /\ DOMAIN toSend' \subseteq Nat
      /\ \A k \in DOMAIN toSend' :
            \/ k \in DOMAIN toSend /\ toSend'[k] = toSend[k]
            \/ /\ toSend'[k] = m /\ k = Len(toSend) + 1
               /\ \A j \in DOMAIN toSend : j < k
  BY <1>1, <1>2
<1>4. m.id # t \/ m.kind = "cancel" => Shifted(toSend', toSend, t, 0)
  <2>1. \A k \in DOMAIN toSend' : k + 0 = k
    BY <1>3
  <2> QED
    BY <1>3, <2>1 DEF Shifted
<1> QED
  BY <1>3, <1>4 DEF Acks, Of

\* A queue that stays, and one that loses its end or its head.
LEMMA QueueOf ==
  ASSUME NEW S, NEW q \in Seq(S), NEW t, NEW p
  PROVE  /\ p = q \/ p = << >> \/ p \in Prefixes(q) => Shifted(p, q, t, 0)
         /\ q # << >> /\ p = Tail(q) => Shifted(p, q, t, 1)
<1>1. ASSUME p = q \/ p = << >> \/ p \in Prefixes(q) PROVE Shifted(p, q, t, 0)
  <2>1. /\ p \in Seq(S)
        /\ \A k \in DOMAIN p : k \in DOMAIN q /\ p[k] = q[k]
    <3>1. CASE p \in Prefixes(q)
      <4>1. PICK l \in 0 .. Len(q) : p = SubSeq(q, 1, l)
        BY <3>1 DEF Prefixes
      <4> QED
        BY <4>1
    <3>2. CASE p = q
      BY <3>2
    <3>3. CASE p = << >>
      BY <3>3
    <3> QED
      BY <1>1, <3>1, <3>2, <3>3
  <2>2. \A k \in DOMAIN p : k \in Nat /\ k + 0 = k
    BY <2>1
  <2> QED
    BY <2>1, <2>2 DEF Shifted
<1>2. ASSUME q # << >>, p = Tail(q) PROVE Shifted(p, q, t, 1)
  <2>1. /\ p \in Seq(S)
        /\ \A k \in DOMAIN p : k + 1 \in DOMAIN q /\ p[k] = q[k + 1]
    BY <1>2, TailIs
  <2>2. DOMAIN p \subseteq Nat
    BY <2>1
  <2> QED
    BY <2>1, <2>2 DEF Shifted
<1> QED
  BY <1>1, <1>2

\* The numbers of t are numbers.
LEMMA NumbersOf ==
  ASSUME TypeOK, NEW t \in Transfers
  PROVE  /\ sender[t].next \in Nat /\ sender[t].acked \in Nat
         /\ sender[t].content \in Seq(STRING)
         /\ Len(sender[t].content) \in Nat
         /\ \A kind : \A k \in Of(toRecv, t, kind) : k \in Nat /\ toRecv[k].at \in Nat
         /\ \A kind : \A k \in Of(toSend, t, kind) : k \in Nat /\ toSend[k].at \in Nat
<1>1. sender[t] \in Senders /\ toRecv \in Seq(ToHost) /\ toSend \in Seq(ToViewer)
  BY DEF TypeOK
<1>2. /\ \A k \in DOMAIN toRecv : k \in Nat /\ toRecv[k] \in ToHost
      /\ \A k \in DOMAIN toSend : k \in Nat /\ toSend[k] \in ToViewer
  BY <1>1
<1>3. /\ \A m \in ToHost : m.at \in Nat
      /\ \A m \in ToViewer : m.at \in Nat
  BY DEF ToHost, ToViewer
<1>4. /\ sender[t].next \in Nat /\ sender[t].acked \in Nat
      /\ sender[t].content \in Seq(STRING)
  BY <1>1 DEF Senders
<1> QED
  BY <1>2, <1>3, <1>4 DEF Of

\* Once its sending thread is under way, or a message of the host is, its offer is gone.
LEMMA OfferGone ==
  ASSUME NEW t \in Transfers, Life(t),
         sender[t].started \/ Acks(t) # {} \/ Chunks(t) # {} \/ Completes(t) # {}
  PROVE  Offers(t) = {} /\ sender[t].phase # "idle"
  BY DEF Life, Introduced, Unseen

LEMMA OfferLife ==
  ASSUME TypeOK, NEW t \in Transfers, NEW c \in Contents, Life(t), Offer(t, c)
  PROVE  Life(t)'
<1> DEFINE m == Message("offer", t, Len(c), << >>)
<1>0. c \in Seq(STRING) /\ Len(c) \in Nat /\ << >> \in Seq(STRING)
  OBVIOUS
<1>1. m \in ToHost
  BY <1>0, MessageType
<1>2. m.id = t /\ m.kind = "offer" /\ m.at = Len(c)
  BY DEF Message
<1>3. /\ sender[t].phase = "idle"
      /\ sender' = [sender EXCEPT ![t] = [Idle EXCEPT !.phase = "offered", !.content = c]]
      /\ toRecv' = Ship(toRecv, m)
      /\ UNCHANGED <<toSend, recvs, part, final, data>>
  BY DEF Offer, diskVars
<1>4. /\ sender'[t].phase = "offered" /\ sender'[t].content = c
      /\ sender'[t].next = 0 /\ sender'[t].acked = 0 /\ ~sender'[t].started
  BY <1>3 DEF TypeOK, Idle
<1>5. Unseen(t) /\ Offers(t) = {}
  BY <1>3 DEF Life, Introduced
<1> HIDE DEF m
<1>6. /\ Chunks(t)' = {} /\ Completes(t)' = {}
      /\ \A k \in Offers(t)' : toRecv'[k] = m /\ k = Len(toRecv) + 1
      /\ Acks(t)' = {}
  <2>1. /\ \A k \in Chunks(t)' : k \in Chunks(t)
        /\ \A k \in Completes(t)' : k \in Completes(t)
        /\ \A k \in Offers(t)' : k \in Offers(t) \/ (toRecv'[k] = m /\ k = Len(toRecv) + 1)
    <3>1. toRecv' = Ship(toRecv, m)
      BY <1>3
    <3> QED
      BY <1>1, <1>2, <3>1, ToRecvOf
  <2>2. Acks(t)' = Acks(t)
    BY <1>3 DEF Acks, Of
  <2> QED
    BY <1>5, <2>1, <2>2 DEF Unseen
<1>7. Unseen(t)'
  BY <1>3, <1>4, <1>5, <1>6 DEF Unseen
<1>8. Introduced(t)'
  <2>1. \A j, k \in Offers(t)' : j = k
    BY <1>6
  <2> QED
    BY <1>2, <1>4, <1>6, <1>7, <2>1 DEF Introduced
<1>9. OnDisk(t)' /\ Acked(t)' /\ InWindow(t)' /\ Started(t)'
  BY <1>0, <1>4, <1>6, <1>7 DEF OnDisk, Acked, InWindow, Started, Unseen
<1> QED
  BY <1>8, <1>9 DEF Life

LEMMA BeginLife ==
  ASSUME TypeOK, NEW t \in Transfers, Life(t), Begin(t)
  PROVE  Life(t)'
<1>1. /\ sender[t].phase = "offered" /\ sender[t].started
      /\ sender'[t].phase = "sending" /\ sender'[t].next = sender[t].acked
      /\ sender'[t].content = sender[t].content
      /\ sender'[t].acked = sender[t].acked /\ sender'[t].started
      /\ UNCHANGED <<toRecv, toSend, recvs, part, final, data>>
  BY BeginIs
<1>2. sender[t].next = 0 /\ sender[t].acked = 0
  BY <1>1, NumbersOf DEF Life, Started, InWindow
<1>4. UNCHANGED <<Chunks(t), Completes(t), Offers(t), Acks(t)>>
  BY <1>1 DEF Chunks, Completes, Offers, Acks, Of
<1>5. Introduced(t)'
  BY <1>1, <1>4, OfferGone DEF Introduced
<1>6. OnDisk(t)'
  BY <1>1 DEF Life, OnDisk
<1>7. Acked(t)'
  <2>1. \A l : Holds(t, l) => Holds(t, l)'
    BY <1>1 DEF Holds
  <2> QED
    BY <1>1, <1>2, <1>4, <2>1 DEF Life, Acked
<1>8. InWindow(t)'
  BY <1>1, <1>2, <1>4 DEF Life, InWindow
<1>9. Started(t)'
  BY <1>1, <1>4 DEF Life, Started
<1> QED
  BY <1>5, <1>6, <1>7, <1>8, <1>9 DEF Life

LEMMA GiveUpLife ==
  ASSUME TypeOK, NEW t \in Transfers, Life(t), GiveUp(t)
  PROVE  Life(t)'
<1>1. /\ sender[t].phase \in {"offered", "sending"}
      /\ sender'[t].phase = "stopped" /\ sender'[t].next = sender[t].next
      /\ sender'[t].content = sender[t].content
      /\ sender'[t].acked = sender[t].acked /\ sender'[t].started = sender[t].started
      /\ UNCHANGED <<toRecv, toSend, recvs, part, final, data>>
  BY GiveUpIs DEF GiveUp
<1>2. UNCHANGED <<Chunks(t), Completes(t), Offers(t), Acks(t)>>
  BY <1>1 DEF Chunks, Completes, Offers, Acks, Of
<1>3. Introduced(t)'
  BY <1>1, <1>2 DEF Life, Introduced, Unseen
<1>4. OnDisk(t)'
  BY <1>1 DEF Life, OnDisk
<1>5. Acked(t)'
  <2>1. \A l : Holds(t, l) => Holds(t, l)'
    BY <1>1 DEF Holds
  <2> QED
    BY <1>1, <1>2, <2>1 DEF Life, Acked
<1>6. InWindow(t)'
  BY <1>1, <1>2 DEF Life, InWindow
<1>7. Started(t)'
  BY <1>1, <1>2 DEF Life, Started
<1> QED
  BY <1>3, <1>4, <1>5, <1>6, <1>7 DEF Life


LEMMA SendChunkLife ==
  ASSUME TypeOK, NEW t \in Transfers, Life(t), SendChunk(t)
  PROVE  Life(t)'
<1> DEFINE at == sender[t].next
           c == sender[t].content[at + 1]
           m == Message("chunk", t, at, <<c>>)
<1>1. /\ sender[t].phase = "sending" /\ at < sender[t].acked + Window
      /\ at < Len(sender[t].content)
      /\ toRecv' = Ship(toRecv, m) /\ c \in STRING
      /\ sender'[t].phase = "sending" /\ sender'[t].next = at + 1
      /\ sender'[t].content = sender[t].content
      /\ sender'[t].acked = sender[t].acked /\ sender'[t].started = sender[t].started
      /\ UNCHANGED <<toSend, recvs, part, final, data>>
  BY SendChunkIs DEF WindowOpen
<1>2. at \in Nat /\ sender[t].acked \in Nat
  BY NumbersOf
<1>3. m \in ToHost
  BY <1>1, <1>2, MessageType
<1>4. m.id = t /\ m.kind = "chunk" /\ m.at = at /\ m.body[1] = c
  BY DEF Message
<1>5. toRecv' = Ship(toRecv, m)
  BY <1>1
<1> HIDE DEF m, at, c
<1>6. /\ \A k \in Chunks(t)' :
            \/ k \in Chunks(t) /\ toRecv'[k] = toRecv[k]
            \/ toRecv'[k] = m /\ \A j \in Chunks(t) : j < k
      /\ \A k \in Completes(t)' : k \in Completes(t)
      /\ \A k \in Offers(t)' : k \in Offers(t)
      /\ Chunks(t)' \subseteq Nat
  <2>1. /\ \A k \in Chunks(t)' :
            \/ k \in Chunks(t) /\ toRecv'[k] = toRecv[k]
            \/ toRecv'[k] = m /\ \A j \in DOMAIN toRecv : j < k
        /\ \A k \in Completes(t)' : k \in Completes(t) \/ m.kind = "complete"
        /\ \A k \in Offers(t)' : k \in Offers(t) \/ m.kind = "offer"
        /\ DOMAIN toRecv' \subseteq Nat
    BY <1>3, <1>5, ToRecvOf
  <2> QED
    BY <1>4, <2>1 DEF Chunks, Of
<1>7. Acks(t)' = Acks(t) /\ toSend' = toSend
  BY <1>1 DEF Acks, Of
<1>8. sender[t].started /\ Offers(t) = {} /\ Completes(t) = {}
  BY <1>1, OfferGone DEF Life, Started
<1>9. Introduced(t)'
  BY <1>1, <1>6, <1>8 DEF Introduced
<1>10. OnDisk(t)'
  BY <1>1 DEF Life, OnDisk
<1>11. Acked(t)'
  <2>1. \A l : Holds(t, l) => Holds(t, l)'
    BY <1>1 DEF Holds
  <2>2. \A k \in Acks(t) : toSend[k].at <= at => toSend[k].at <= at + 1
    BY <1>2, NumbersOf DEF Acks
  <2> QED
    BY <1>1, <1>7, <2>1, <2>2 DEF Life, Acked, at
<1>12. InWindow(t)'
  <2>1. sender'[t].acked <= sender'[t].next /\ sender'[t].next <= sender'[t].acked + Window
    BY <1>1, <1>2 DEF Life, InWindow, at
  <2>2. ASSUME NEW k \in Chunks(t)'
        PROVE  /\ sender'[t].acked <= toRecv'[k].at /\ toRecv'[k].at < sender'[t].next
               /\ toRecv'[k].at < Len(sender'[t].content)
               /\ toRecv'[k].body[1] = sender'[t].content[toRecv'[k].at + 1]
               /\ \A j \in Acks(t)' : toSend'[j].at <= toRecv'[k].at
    <3>1. CASE k \in Chunks(t) /\ toRecv'[k] = toRecv[k]
      <4>1. toRecv[k].at \in Nat
        BY <3>1, NumbersOf DEF Chunks
      <4>2. toRecv[k].at < at
        BY <3>1 DEF Life, InWindow, at
      <4>3. toRecv[k].at < at + 1
        BY <1>2, <4>1, <4>2
      <4> QED
        BY <1>1, <1>7, <3>1, <4>3 DEF Life, InWindow
    <3>2. CASE toRecv'[k] = m
      <4>1. at < at + 1 /\ sender[t].acked <= at
        BY <1>2 DEF Life, InWindow, at
      <4>2. \A j \in Acks(t) : toSend[j].at <= at
        BY DEF Life, Acked, at
      <4> QED
        BY <1>1, <1>4, <1>7, <3>2, <4>1, <4>2 DEF c
    <3> QED
      BY <1>6, <3>1, <3>2
  <2>3. ASSUME NEW j \in Chunks(t)', NEW k \in Chunks(t)', j < k
        PROVE  toRecv'[j].at < toRecv'[k].at
    <3>1. CASE k \in Chunks(t) /\ toRecv'[k] = toRecv[k]
      <4>1. j \in Chunks(t) /\ toRecv'[j] = toRecv[j]
        <5>1. ~(k < j)
          BY <1>6, <2>3
        <5> QED
          BY <1>6, <3>1, <5>1
      <4> QED
        BY <2>3, <3>1, <4>1 DEF Life, InWindow
    <3>2. CASE toRecv'[k] = m /\ \A i \in Chunks(t) : i < k
      <4>1. j \in Chunks(t) /\ toRecv'[j] = toRecv[j]
        <5>1. ASSUME ~(j \in Chunks(t) /\ toRecv'[j] = toRecv[j]) PROVE FALSE
          <6>1. j \in DOMAIN toRecv' /\ k \in DOMAIN toRecv'
            BY DEF Chunks, Of
          <6>2. j = Len(toRecv) + 1
            BY <1>3, <1>5, <5>1, ToRecvOf
          <6>3. toRecv \in Seq(ToHost) /\ toRecv' \in Seq(ToHost)
            BY <1>3, <1>5, ShipIs DEF TypeOK
          <6>4. k <= Len(toRecv) + 1
            BY <1>5, <6>1, <6>3 DEF Ship
          <6> QED
            BY <2>3, <6>1, <6>2, <6>3, <6>4
        <5> QED
          BY <5>1
      <4>2. toRecv[j].at < at
        BY <4>1 DEF Life, InWindow, at
      <4> QED
        BY <1>4, <3>2, <4>1, <4>2
    <3> QED
      BY <1>6, <3>1, <3>2
  <2> QED
    BY <2>1, <2>2, <2>3 DEF InWindow
<1>13. Started(t)'
  BY <1>1, <1>6, <1>8 DEF Started
<1> QED
  BY <1>9, <1>10, <1>11, <1>12, <1>13 DEF Life


LEMMA ConcludeLife ==
  ASSUME TypeOK, NEW t \in Transfers, Life(t), Conclude(t)
  PROVE  Life(t)'
<1> DEFINE m == Message("complete", t, 0, sender[t].content)
<1>1. /\ sender[t].phase = "sending" /\ Len(sender[t].content) <= sender[t].acked
      /\ sender'[t].phase = "completed" /\ sender'[t].next = sender[t].next
      /\ sender'[t].content = sender[t].content
      /\ sender'[t].acked = sender[t].acked /\ sender'[t].started = sender[t].started
      /\ UNCHANGED <<toSend, recvs, part, final, data>>
  BY ConcludeIs, NumbersOf DEF AllAcked
<1>2. toRecv' = Ship(toRecv, m)
  BY ConcludeIs
<1>3. m \in ToHost
  <2>1. 0 \in Nat /\ sender[t].content \in Seq(STRING)
    BY NumbersOf
  <2> QED
    BY <2>1, MessageType
<1>4. m.id = t /\ m.kind = "complete" /\ m.body = sender[t].content
  BY DEF Message
<1> HIDE DEF m
<1>5. /\ \A k \in Chunks(t)' : k \in Chunks(t) /\ toRecv'[k] = toRecv[k]
      /\ \A k \in Completes(t)' : k \in Completes(t) \/ toRecv'[k] = m
      /\ \A k \in Offers(t)' : k \in Offers(t)
  <2>1. /\ \A k \in Chunks(t)' : (k \in Chunks(t) /\ toRecv'[k] = toRecv[k]) \/ m.kind = "chunk"
        /\ \A k \in Completes(t)' : k \in Completes(t) \/ toRecv'[k] = m
        /\ \A k \in Offers(t)' : k \in Offers(t) \/ m.kind = "offer"
    BY <1>2, <1>3, ToRecvOf
  <2> QED
    BY <1>4, <2>1
<1>6. Acks(t)' = Acks(t) /\ toSend' = toSend
  BY <1>1 DEF Acks, Of
<1>7. sender[t].started /\ Offers(t) = {} /\ Completes(t) = {}
  BY <1>1, OfferGone DEF Life, Started
<1>8. Introduced(t)'
  BY <1>1, <1>5, <1>7 DEF Introduced
<1>9. OnDisk(t)'
  BY <1>1 DEF Life, OnDisk
<1>10. Acked(t)'
  <2>1. \A l : Holds(t, l) => Holds(t, l)'
    BY <1>1 DEF Holds
  <2> QED
    BY <1>1, <1>6, <2>1 DEF Life, Acked
<1>11. InWindow(t)'
  BY <1>1, <1>5, <1>6 DEF Life, InWindow
<1>12. Started(t)'
  BY <1>1, <1>4, <1>5, <1>7 DEF Started
<1> QED
  BY <1>8, <1>9, <1>10, <1>11, <1>12 DEF Life

\* An ack opens the window as far as the host has come.
LEMMA AckLife ==
  ASSUME TypeOK, HandleAck, NEW t \in Transfers, t = Head(toSend).id, Life(t)
  PROVE  Life(t)'
<1> DEFINE m == Head(toSend)
<1>1. /\ m = toSend[1] /\ 1 \in DOMAIN toSend /\ m.id = t
      /\ \A k \in DOMAIN toSend' :
            k + 1 \in DOMAIN toSend /\ 1 < k + 1 /\ toSend'[k] = toSend[k + 1]
      /\ sender'[t].phase = sender[t].phase /\ sender'[t].next = sender[t].next
      /\ sender'[t].content = sender[t].content
      /\ \/ /\ m.kind = "ack" /\ sender[t].phase # "idle"
            /\ sender'[t].acked = m.at /\ sender'[t].started
         \/ /\ sender'[t].acked = sender[t].acked
            /\ sender'[t].started = sender[t].started
      /\ UNCHANGED <<toRecv, recvs, part, final, data>>
  BY HandleAckIs
<1>2. CASE m.kind # "ack" \/ sender[t].phase = "idle"
           \/ ~(sender'[t].acked = m.at /\ sender'[t].started)
  <2>1. SenderStays(t) /\ FilesStayOf(t) /\ recvs'[t] = recvs[t]
    BY <1>1, <1>2 DEF SenderStays, FilesStayOf
  <2>2. Shifted(toRecv', toRecv, t, 0)
    BY <1>1, QueueOf DEF TypeOK
  <2>3. Shifted(toSend', toSend, t, 1)
    BY QueueOf DEF TypeOK, HandleAck
  <2> QED
    BY <2>1, <2>2, <2>3, QuietStep
<1>3. CASE m.kind = "ack" /\ sender[t].phase # "idle"
           /\ sender'[t].acked = m.at /\ sender'[t].started
  <2> DEFINE at == m.at
  <2>1. 1 \in Acks(t) /\ toSend[1].at = at
    BY <1>1, <1>3 DEF Acks, Of
  <2>2. \A k \in Acks(t)' : /\ k \in Nat /\ k + 1 \in Acks(t)
                            /\ 1 < k + 1 /\ toSend'[k] = toSend[k + 1]
    <3>1. toSend' \in Seq(ToViewer)
      BY TypeStep DEF TypeOK, HandleAck, Next, Viewer
    <3>2. DOMAIN toSend' \subseteq Nat
      BY <3>1
    <3> QED
      BY <1>1, <3>2 DEF Acks, Of
  <2>3. /\ Chunks(t)' = Chunks(t) /\ Completes(t)' = Completes(t) /\ Offers(t)' = Offers(t)
        /\ toRecv' = toRecv
    BY <1>1 DEF Chunks, Completes, Offers, Of
  <2>4. /\ at \in Nat /\ sender[t].acked \in Nat /\ sender[t].next \in Nat
    BY <2>1, NumbersOf DEF Acks
  <2>5. sender[t].acked <= at /\ at <= sender[t].next /\ Holds(t, at)
    BY <2>1 DEF Life, Acked
  <2>6. Offers(t) = {}
    BY <2>1, OfferGone
  <2> HIDE DEF at
  <2>7. sender'[t].acked = at
    BY <1>3 DEF at
  <2>8. Introduced(t)'
    BY <1>1, <1>3, <2>3, <2>6 DEF Introduced
  <2>9. OnDisk(t)'
    BY <1>1 DEF Life, OnDisk
  <2>10. Acked(t)'
    <3>1. \A l : Holds(t, l) => Holds(t, l)'
      BY <1>1 DEF Holds
    <3>2. \A k \in Acks(t)' : at <= toSend'[k].at
      BY <2>1, <2>2 DEF Life, Acked
    <3>3. \A j, k \in Acks(t)' : j < k => j + 1 < k + 1
      BY <2>2
    <3>4. ASSUME NEW j \in Acks(t)', NEW k \in Acks(t)', j < k
          PROVE  toSend'[j].at <= toSend'[k].at
      <4>1. j + 1 < k + 1 /\ j + 1 \in Acks(t) /\ k + 1 \in Acks(t)
        BY <2>2, <3>3, <3>4
      <4>2. toSend[j + 1].at <= toSend[k + 1].at
        BY <4>1 DEF Life, Acked
      <4> QED
        BY <2>2, <4>2
    <3>5. \A k \in Acks(t)' : Holds(t, toSend'[k].at) /\ toSend'[k].at <= sender[t].next
      BY <2>2 DEF Life, Acked
    <3> QED
      BY <1>1, <2>5, <2>7, <3>1, <3>2, <3>4, <3>5 DEF Acked
  <2>11. InWindow(t)'
    <3>1. sender'[t].acked <= sender'[t].next /\ sender'[t].next <= sender'[t].acked + Window
      BY <1>1, <2>4, <2>5, <2>7 DEF Life, InWindow
    <3>2. ASSUME NEW k \in Chunks(t)
          PROVE  /\ at <= toRecv[k].at /\ toRecv[k].at < sender[t].next
                 /\ toRecv[k].at < Len(sender[t].content)
                 /\ toRecv[k].body[1] = sender[t].content[toRecv[k].at + 1]
                 /\ \A j \in Acks(t)' : toSend'[j].at <= toRecv[k].at
      BY <2>1, <2>2 DEF Life, InWindow
    <3> QED
      BY <1>1, <2>3, <2>7, <3>1, <3>2 DEF Life, InWindow
  <2>12. Started(t)'
    <3>1. sender[t].phase = "completed" => Len(sender[t].content) <= at
      BY <2>4, <2>5, NumbersOf DEF Life, Started
    <3> QED
      BY <1>1, <1>3, <2>3, <2>7, <3>1 DEF Life, Started
  <2> QED
    BY <2>8, <2>9, <2>10, <2>11, <2>12 DEF Life
<1> QED
  BY <1>1, <1>2, <1>3


-----------------------------------------------------------------------------
(* The first life of the viewer: the steps of the host.                     *)

\* What the ack of a step adds to the acks of t.
LEMMA AckOf ==
  ASSUME TypeOK, NEW t \in Transfers, NEW at \in Nat, AckAt(t, at)
  PROVE  /\ \A k \in Acks(t)' : \/ k \in Acks(t) /\ toSend'[k] = toSend[k]
                                \/ /\ toSend'[k].at = at
                                   /\ \A j \in DOMAIN toSend : j < k
                                   /\ k = Len(toSend) + 1
         /\ DOMAIN toSend' \subseteq Nat
         /\ \A u : u # t => Shifted(toSend', toSend, u, 0)
<1> DEFINE m == Message("ack", t, at, << >>)
<1>1. m \in ToViewer /\ toSend' = Ship(toSend, m)
  BY MessageType DEF AckAt
<1>2. m.at = at /\ m.id = t
  BY DEF Message
<1> HIDE DEF m
<1>3. \A k \in Acks(t)' :  \/ k \in Acks(t) /\ toSend'[k] = toSend[k]
                           \/ /\ toSend'[k] = m
                              /\ \A j \in DOMAIN toSend : j < k
                              /\ k = Len(toSend) + 1
  BY <1>1, ToSendOf
<1>4. DOMAIN toSend' \subseteq Nat /\ \A u : u # t => Shifted(toSend', toSend, u, 0)
  BY <1>1, <1>2, ToSendOf
<1> QED
  BY <1>2, <1>3, <1>4

\* What taking a message from the queue leaves of t.
LEMMA HandledOf ==
  ASSUME TypeOK, NEW kind, Handle(kind), NEW t
  PROVE  /\ \A k \in Chunks(t)' : k \in Nat /\ k + 1 \in Chunks(t) /\ 1 < k + 1
                                  /\ toRecv'[k] = toRecv[k + 1]
         /\ \A k \in Completes(t)' : k + 1 \in Completes(t) /\ toRecv'[k] = toRecv[k + 1]
         /\ \A k \in Offers(t)' : k \in Nat /\ k + 1 \in Offers(t) /\ 1 < k + 1
         /\ Shifted(toRecv', toRecv, t, 1)
<1>1. /\ toRecv' \in Seq(ToHost)
      /\ \A k \in DOMAIN toRecv' :
            k + 1 \in DOMAIN toRecv /\ 1 < k + 1 /\ toRecv'[k] = toRecv[k + 1]
  BY HandleIs
<1>2. DOMAIN toRecv' \subseteq Nat
  BY <1>1
<1> QED
  BY <1>1, <1>2 DEF Chunks, Completes, Offers, Of, Shifted

LEMMA TakenUpLife ==
  ASSUME TypeOK, HandleOffer, NEW t \in Transfers, t = Head(toRecv).id, Life(t)
  PROVE  Life(t)'
<1> DEFINE m == Head(toRecv)
           n == NameOf[m.id]
           held(i) == IF part[n] = Nothing THEN << >> ELSE data[i]
           kept(i, resume) == SubSeq(held(i), 1, resume)
<1>0. Handle("offer")
  BY DEF HandleOffer
<1>1. /\ m = toRecv[1] /\ 1 \in DOMAIN toRecv /\ m.kind = "offer" /\ n \in Names
      /\ m.at \in Nat
      /\ UNCHANGED sender /\ m.id = t
  BY <1>0, HandleIs
<1>2. 1 \in Offers(t) /\ m.at = Len(sender[t].content)
  BY <1>1 DEF Offers, Of, Life, Introduced
<1>3. Unseen(t) /\ sender[t].phase # "idle"
  BY <1>2 DEF Life, Introduced
<1>4. PICK i \in Inodes, h \in Seq(STRING \cup {Hole}), d \in Seq(STRING \cup {Hole}),
           resume \in Nat :
           /\ kept(i, resume) \in Seq(STRING \cup {Hole})
           /\ resume <= Len(held(i)) /\ Len(kept(i, resume)) = resume
           /\ h \in Hashed(kept(i, resume)) /\ d \in Cut(held(i), kept(i, resume))
           /\ recvs' = [recvs EXCEPT ![m.id] = [inode |-> i, written |-> resume,
                          size |-> m.at, lastAck |-> resume, hash |-> h]]
           /\ data' = [data EXCEPT ![i] = d]
           /\ part' = [part EXCEPT ![n] = i]
           /\ AckAt(m.id, resume)
           /\ UNCHANGED final
  BY TakenUp, ZenonT(60)
<1>5. held(i) = << >> /\ resume = 0 /\ kept(i, resume) = << >>
  <2>1. held(i) = << >>
    BY <1>1, <1>3 DEF Unseen
  <2>2. resume = 0
    BY <1>4, <2>1
  <2> HIDE DEF kept
  <2>3. kept(i, resume) = << >>
    BY <1>4, <2>2
  <2> QED
    BY <2>1, <2>2, <2>3
<1>6. h = << >> /\ d = << >>
  <2> DEFINE E == kept(i, resume)
  <2>0. E = << >>
    BY <1>5
  <2>1. h \in Prefixes(E) \/ h = E
    BY <1>4 DEF Hashed
  <2>2. d = E
    BY <1>4, <1>5 DEF Cut
  <2> HIDE DEF E
  <2>3. ASSUME h \in Prefixes(E) PROVE h = << >>
    <3>1. PICK l \in 0 .. Len(E) : h = SubSeq(E, 1, l)
      BY <2>3 DEF Prefixes
    <3>2. l = 0 /\ Len(h) = 0
      BY <2>0, <3>1
    <3> QED
      BY <3>2
  <2> QED
    BY <2>0, <2>1, <2>2, <2>3
<1> HIDE DEF kept, held, m, n
<1>7. /\ part'[n] = i /\ i # Nothing /\ data'[i] = << >> /\ final'[n] = Nothing
      /\ recvs'[t] = [inode |-> i, written |-> 0, size |-> m.at, lastAck |-> 0,
                      hash |-> << >>]
  BY <1>1, <1>3, <1>4, <1>5, <1>6 DEF TypeOK, Unseen, n
<1>8. /\ Chunks(t)' = {} /\ Completes(t)' = {} /\ Offers(t)' = {}
  <2>1. /\ \A k \in Chunks(t)' : k + 1 \in Chunks(t)
        /\ \A k \in Completes(t)' : k + 1 \in Completes(t)
        /\ \A k \in Offers(t)' : k \in Nat /\ k + 1 \in Offers(t) /\ 1 < k + 1
    BY <1>0, HandledOf
  <2>2. \A k \in Offers(t)' : k + 1 = 1
    BY <1>2, <2>1 DEF Life, Introduced
  <2>3. \A k \in Offers(t)' : FALSE
    BY <2>1, <2>2
  <2> QED
    BY <1>3, <2>1, <2>3 DEF Unseen
<1>9. \A k \in Acks(t)' : toSend'[k].at = 0
  <2>1. AckAt(t, 0) /\ 0 \in Nat
    BY <1>1, <1>4, <1>5
  <2>2. \A k \in Acks(t)' : k \in Acks(t) \/ toSend'[k].at = 0
    BY <2>1, AckOf
  <2> QED
    BY <1>3, <2>2 DEF Unseen
<1>10. Introduced(t)'
  BY <1>1, <1>3, <1>8 DEF Introduced
<1>11. OnDisk(t)'
  <2>1. IsPrefix(<< >>, sender[t].content)
    <3>1. << >> \in Seq(STRING) /\ sender[t].content \in Seq(STRING)
      BY NumbersOf
    <3>2. Len(<< >>) <= Len(sender[t].content) /\ \A k \in 1 .. Len(<< >>) : FALSE
      BY <3>1
    <3> QED
      BY <3>1, <3>2, PrefixIs
  <2> QED
    BY <1>1, <1>2, <1>7, <2>1 DEF OnDisk, n
<1>12. Acked(t)'
  <2>1. ~sender'[t].started /\ sender'[t].acked = 0
    BY <1>1, <1>3 DEF Unseen, Life, Started
  <2>2. 0 <= sender'[t].next /\ sender'[t].next \in Nat
    BY <1>1, NumbersOf
  <2>3. part'[n] # Nothing /\ 0 <= Len(data'[part'[n]])
    BY <1>7
  <2> QED
    BY <1>1, <1>9, <2>1, <2>2, <2>3 DEF Acked, Holds, n
<1>13. InWindow(t)' /\ Started(t)'
  BY <1>1, <1>8 DEF Life, InWindow, Started
<1> QED
  BY <1>10, <1>11, <1>12, <1>13 DEF Life


LEMMA ChunkLife ==
  ASSUME TypeOK, HandleChunk, NEW t \in Transfers, t = Head(toRecv).id, Life(t)
  PROVE  Life(t)'
<1> DEFINE m == Head(toRecv)
           r == recvs[m.id]
           c == m.body[1]
           n == NameOf[t]
           at == r.written
           file == r.hash
           content == sender[t].content
<1>0. Handle("chunk")
  BY DEF HandleChunk
<1>1. /\ m.id = t /\ r # Nothing /\ r \in Receivers /\ m.at = at
      /\ m = toRecv[1] /\ m.kind = "chunk" /\ 1 \in DOMAIN toRecv
      /\ c \in STRING
      /\ data' = [data EXCEPT ![r.inode] = Put(data[r.inode], at, c)]
      /\ recvs'[t] \in Receivers /\ recvs'[t].inode = r.inode
      /\ recvs'[t].written = at + 1
      /\ recvs'[t].hash = Append(file, c) /\ recvs'[t].size = r.size
      /\ UNCHANGED <<part, final, sender>>
  BY ChunkTaken
<1>2. AckAt(t, at + 1) \/ UNCHANGED toSend
  BY ChunkTaken
<1>3. 1 \in Chunks(t) /\ toRecv[1].at = at /\ toRecv[1].body[1] = c
  BY <1>1 DEF Chunks, Of
<1>4. /\ part[n] = r.inode /\ r.inode \in Inodes /\ r.inode # Nothing
      /\ data[r.inode] = file /\ at = Len(file)
      /\ r.size = Len(content) /\ final[n] = Nothing
      /\ IsPrefix(file, content)
  BY <1>1 DEF Life, OnDisk, Receivers
<1>5. /\ at < Len(content) /\ c = content[at + 1] /\ at < sender[t].next
      /\ sender[t].acked <= at /\ \A j \in Acks(t) : toSend[j].at <= at
  BY <1>3 DEF Life, InWindow
<1>6. /\ at \in Nat /\ file \in Seq(STRING \cup {Hole}) /\ content \in Seq(STRING)
      /\ sender[t].next \in Nat /\ sender[t].acked \in Nat
  BY <1>1, NumbersOf DEF Receivers
<1> HIDE DEF r, c, at, file, content
<1>7. Put(file, at, c) = Append(file, c)
  <2>1. c \in STRING \cup {Hole}
    BY <1>1
  <2> QED
    BY <1>4, <1>6, <2>1, PutAtEnd
<1>8. IsPrefix(Append(file, c), content)
  <2> DEFINE S == STRING \cup {Hole}
             f == Append(file, c)
  <2>1. file \in Seq(S) /\ content \in Seq(S) /\ c \in S /\ f \in Seq(S)
    BY <1>1, <1>6
  <2>2. Len(f) = at + 1 /\ f[at + 1] = c /\ \A k \in 1 .. at : f[k] = file[k]
    BY <1>4, <1>6, <2>1
  <2> HIDE DEF S, f
  <2>3. \A k \in 1 .. at : file[k] = content[k]
    BY <1>4, <1>6, <2>1, PrefixIs, SMTT(60)
  <2>4. \A k \in 1 .. at + 1 : k = at + 1 \/ k \in 1 .. at
    BY <1>6
  <2>5. Len(content) \in Nat
    BY <2>1
  <2>6. Len(f) <= Len(content) /\ \A k \in 1 .. Len(f) : f[k] = content[k]
    BY <1>5, <1>6, <2>2, <2>3, <2>4, <2>5
  <2>7. IsPrefix(f, content)
    BY <2>1, <2>6, PrefixIs
  <2> QED
    BY <2>7 DEF f
<1>9. /\ part'[n] = r.inode /\ final'[n] = Nothing
      /\ data'[r.inode] = Append(file, c)
      /\ Len(Append(file, c)) = at + 1
  BY <1>1, <1>4, <1>6, <1>7 DEF TypeOK
<1>10. /\ \A k \in Chunks(t)' : k \in Nat /\ k + 1 \in Chunks(t) /\ 1 < k + 1
                                /\ toRecv'[k] = toRecv[k + 1]
       /\ \A k \in Completes(t)' : k + 1 \in Completes(t) /\ toRecv'[k] = toRecv[k + 1]
       /\ \A k \in Offers(t)' : k + 1 \in Offers(t)
  BY <1>0, HandledOf
<1>11. /\ \A k \in Acks(t)' : \/ k \in Acks(t) /\ toSend'[k] = toSend[k]
                              \/ /\ toSend'[k].at = at + 1
                                 /\ \A j \in Acks(t) : j < k
                                 /\ k = Len(toSend) + 1
       /\ Acks(t)' \subseteq Nat
  <2>1. CASE AckAt(t, at + 1)
    <3>1. at + 1 \in Nat
      BY <1>6
    <3>2. /\ \A k \in Acks(t)' :  \/ k \in Acks(t) /\ toSend'[k] = toSend[k]
                                  \/ /\ toSend'[k].at = at + 1
                                     /\ \A j \in DOMAIN toSend : j < k
                                     /\ k = Len(toSend) + 1
          /\ DOMAIN toSend' \subseteq Nat
      BY <2>1, <3>1, AckOf
    <3> QED
      BY <3>2 DEF Acks, Of
  <2>2. CASE UNCHANGED toSend
    <3>1. Acks(t)' = Acks(t)
      BY <2>2 DEF Acks, Of
    <3> QED
      BY <2>2, <3>1, NumbersOf DEF Acks
  <2> QED
    BY <1>2, <2>1, <2>2
<1>12. Offers(t) = {} /\ sender[t].phase # "idle"
  BY <1>3, OfferGone
<1>13. Introduced(t)'
  BY <1>1, <1>10, <1>12 DEF Introduced
<1>14. OnDisk(t)'
  BY <1>1, <1>4, <1>8, <1>9 DEF OnDisk, content, n
<1>15. Acked(t)'
  <2>1. Len(data'[part'[n]]) = at + 1 /\ part'[n] # Nothing /\ sender[t].acked <= at + 1
    BY <1>4, <1>5, <1>6, <1>9
  <2>2. ASSUME NEW k \in Acks(t)'
        PROVE  /\ toSend'[k].at <= at + 1
               /\ sender[t].acked <= toSend'[k].at /\ toSend'[k].at <= sender[t].next
    <3>1. CASE k \in Acks(t) /\ toSend'[k] = toSend[k]
      <4>1. toSend[k].at \in Nat /\ toSend[k].at <= at
        BY <1>5, <3>1, NumbersOf DEF Acks
      <4>2. toSend[k].at <= at + 1
        BY <1>6, <4>1
      <4> QED
        BY <3>1, <4>2 DEF Life, Acked
    <3>2. CASE toSend'[k].at = at + 1
      BY <1>5, <1>6, <3>2
    <3> QED
      BY <1>11, <3>1, <3>2
  <2>3. ASSUME NEW j \in Acks(t)', NEW k \in Acks(t)', j < k
        PROVE  toSend'[j].at <= toSend'[k].at
    <3>1. CASE j \in Acks(t) /\ toSend'[j] = toSend[j]
      <4>1. CASE k \in Acks(t) /\ toSend'[k] = toSend[k]
        BY <2>3, <3>1, <4>1 DEF Life, Acked
      <4>2. CASE toSend'[k].at = at + 1
        <5>1. toSend[j].at \in Nat /\ toSend[j].at <= at
          BY <1>5, <3>1, NumbersOf DEF Acks
        <5> QED
          BY <1>6, <3>1, <4>2, <5>1
      <4> QED
        BY <1>11, <4>1, <4>2
    <3>2. CASE toSend'[j].at = at + 1 /\ (\A i \in Acks(t) : i < j) /\ j = Len(toSend) + 1
      <4>1. CASE k \in Acks(t)
        BY <1>11, <2>3, <3>2, <4>1
      <4>2. CASE k = Len(toSend) + 1
        BY <1>11, <2>3, <3>2, <4>2
      <4> QED
        BY <1>11, <4>1, <4>2
    <3> QED
      BY <1>11, <3>1, <3>2
  <2> QED
    BY <1>1, <2>1, <2>2, <2>3 DEF Acked, Holds, n
<1>16. InWindow(t)'
  <2>1. ASSUME NEW k \in Chunks(t)', NEW j \in Acks(t)'
        PROVE  toSend'[j].at <= toRecv'[k].at
    <3>1. k + 1 \in Chunks(t) /\ 1 < k + 1 /\ toRecv'[k] = toRecv[k + 1]
      BY <1>10
    <3>2. at < toRecv[k + 1].at /\ toRecv[k + 1].at \in Nat
      BY <1>3, <3>1, NumbersOf DEF Life, InWindow, Chunks
    <3>3. CASE j \in Acks(t) /\ toSend'[j] = toSend[j]
      BY <3>1, <3>3 DEF Life, InWindow
    <3>4. CASE toSend'[j].at = at + 1
      BY <1>6, <3>1, <3>2, <3>4
    <3> QED
      BY <1>11, <3>3, <3>4
  <2>2. \A j, k \in Chunks(t)' : j < k => j + 1 < k + 1
    BY <1>10
  <2>3. ASSUME NEW j \in Chunks(t)', NEW k \in Chunks(t)', j < k
        PROVE  toRecv'[j].at < toRecv'[k].at
    <3>1. /\ j + 1 < k + 1 /\ j + 1 \in Chunks(t) /\ k + 1 \in Chunks(t)
          /\ toRecv'[j] = toRecv[j + 1] /\ toRecv'[k] = toRecv[k + 1]
      BY <1>10, <2>2, <2>3
    <3> QED
      BY <3>1 DEF Life, InWindow
  <2>4. ASSUME NEW k \in Chunks(t)'
        PROVE  /\ sender'[t].acked <= toRecv'[k].at /\ toRecv'[k].at < sender'[t].next
               /\ toRecv'[k].at < Len(sender'[t].content)
               /\ toRecv'[k].body[1] = sender'[t].content[toRecv'[k].at + 1]
    BY <1>1, <1>10 DEF Life, InWindow
  <2> QED
    BY <1>1, <2>1, <2>3, <2>4 DEF Life, InWindow
<1>17. Started(t)'
  BY <1>1, <1>10 DEF Life, Started
<1> QED
  BY <1>13, <1>14, <1>15, <1>16, <1>17 DEF Life


LEMMA PrefixWhole ==
  ASSUME NEW S, NEW s \in Seq(S), NEW t \in Seq(S), IsPrefix(s, t), Len(t) <= Len(s)
  PROVE  s = t
<1>1. Len(s) <= Len(t) /\ \A k \in 1 .. Len(s) : s[k] = t[k]
  BY PrefixIs
<1>2. Len(s) = Len(t)
  BY <1>1
<1> QED
  BY <1>1, <1>2

\* What is acked to the end is on disk to the end.
LEMMA AllOnDisk ==
  ASSUME TypeOK, NEW t \in Transfers, Life(t), sender[t].phase = "completed"
  PROVE  LET n == NameOf[t] IN
         \/ final[n] # Nothing /\ data[final[n]] = sender[t].content
         \/ part[n] # Nothing /\ data[part[n]] = sender[t].content
<1> DEFINE n == NameOf[t]
           content == sender[t].content
           S == STRING \cup {Hole}
<1>1. /\ Len(content) <= sender[t].acked /\ Holds(t, sender[t].acked)
  BY DEF Life, Started, Acked
<1>2. CASE final[n] # Nothing
  BY <1>2 DEF Life, OnDisk
<1>3. CASE final[n] = Nothing
  <2> DEFINE file == data[part[n]]
  <2>1. part[n] # Nothing /\ sender[t].acked <= Len(file) /\ IsPrefix(file, content)
    BY <1>1, <1>3 DEF Holds, Life, OnDisk
  <2>2. part[n] \in Inodes
    BY <2>1 DEF TypeOK
  <2>3. file \in Seq(S) /\ content \in Seq(S) /\ sender[t].acked \in Nat
    BY <2>2, NumbersOf DEF TypeOK
  <2> HIDE DEF file, content, S
  <2>4. Len(content) <= Len(file)
    BY <1>1, <2>1, <2>3
  <2>5. file = content
    BY <2>1, <2>3, <2>4, PrefixWhole
  <2> QED
    BY <2>1, <2>5 DEF file, content
<1> QED
  BY <1>2, <1>3

LEMMA CompleteLife ==
  ASSUME TypeOK, IgnoreComplete \/ RejectComplete \/ AcceptComplete,
         NEW t \in Transfers, t = Head(toRecv).id, Life(t)
  PROVE  Life(t)'
<1> DEFINE m == Head(toRecv)
           n == NameOf[m.id]
<1>1. /\ n \in Names /\ Handle("complete") /\ m.id = t
      /\ m = toRecv[1] /\ m.kind = "complete" /\ 1 \in DOMAIN toRecv
      /\ recvs' = [recvs EXCEPT ![m.id] = Nothing]
      /\ UNCHANGED <<toSend, data, sender>>
  BY Completed
<1>2. \/ UNCHANGED <<part, final>>
      \/ recvs[m.id] # Nothing /\ ~Verified(recvs[m.id], m)
      \/ /\ recvs[m.id] # Nothing /\ part[n] # Nothing
         /\ part' = [part EXCEPT ![n] = Nothing]
         /\ final' = [final EXCEPT ![n] = part[n]]
  BY Completed
<1>3. 1 \in Completes(t)
  BY <1>1 DEF Completes, Of
<1>4. sender[t].phase = "completed" /\ m.body = sender[t].content
  BY <1>1, <1>3 DEF Life, Started
<1>5. recvs'[t] = Nothing
  BY <1>1 DEF TypeOK
<1>6. Shifted(toRecv', toRecv, t, 1) /\ Shifted(toSend', toSend, t, 0)
  <2>1. Shifted(toRecv', toRecv, t, 1)
    BY <1>1, HandledOf
  <2>2. toSend \in Seq(ToViewer) /\ toSend' = toSend
    BY <1>1 DEF TypeOK
  <2> QED
    BY <2>1, <2>2, QueueOf
<1>7. CASE UNCHANGED <<part, final>>
  <2>1. SenderStays(t) /\ FilesStayOf(t)
    BY <1>1, <1>7 DEF SenderStays, FilesStayOf
  <2>2. recvs'[t] \in {recvs[t], Nothing}
    BY <1>5
  <2> QED
    BY <1>6, <2>1, <2>2, QuietStep
<1>8. ASSUME recvs[t] # Nothing
      PROVE  /\ part[n] # Nothing /\ part[n] \in Inodes /\ final[n] = Nothing
             /\ data[part[n]] = sender[t].content
             /\ Verified(recvs[t], m)
  <2>1. recvs[t] \in Receivers
    BY <1>8 DEF TypeOK
  <2>2. /\ part[n] = recvs[t].inode /\ recvs[t].inode \in Inodes
        /\ recvs[t].hash = data[part[n]] /\ recvs[t].written = Len(recvs[t].hash)
        /\ recvs[t].size = Len(sender[t].content)
    BY <1>1, <1>8, <2>1 DEF Life, OnDisk, Receivers
  <2>3. part[n] # Nothing /\ final[n] = Nothing
    BY <1>1, <2>2 DEF Life, OnDisk
  <2>4. data[part[n]] = sender[t].content
    BY <1>1, <1>4, <2>3, AllOnDisk
  <2> QED
    BY <1>4, <2>2, <2>3, <2>4 DEF Verified
<1>9. CASE /\ recvs[t] # Nothing
           /\ part' = [part EXCEPT ![n] = Nothing]
           /\ final' = [final EXCEPT ![n] = part[n]]
  <2>1. part'[n] = Nothing /\ final'[n] = part[n] /\ data' = data /\ n = NameOf[t]
    BY <1>1, <1>9 DEF TypeOK
  <2>2. /\ \A k \in Chunks(t)' : k \in Nat /\ k + 1 \in Chunks(t)
                                 /\ toRecv'[k] = toRecv[k + 1]
        /\ \A k \in Completes(t)' : k + 1 \in Completes(t) /\ toRecv'[k] = toRecv[k + 1]
        /\ \A k \in Offers(t)' : k + 1 \in Offers(t)
    BY <1>1, HandledOf
  <2>3. Acks(t)' = Acks(t) /\ toSend' = toSend
    BY <1>1 DEF Acks, Of
  <2>4. Introduced(t)'
    <3>1. Offers(t) = {}
      BY <1>3, OfferGone
    <3> QED
      BY <1>1, <1>4, <2>2, <3>1 DEF Introduced
  <2>5. OnDisk(t)'
    BY <1>1, <1>5, <1>8, <1>9, <2>1 DEF OnDisk
  <2>6. Acked(t)'
    <3>1. \A l : Holds(t, l) => l <= Len(data[part[n]])
      BY <1>8, <1>9, <2>1 DEF Holds
    <3>2. final'[n] # Nothing /\ data'[final'[n]] = data[part[n]]
      BY <1>8, <1>9, <2>1
    <3>3. \A k \in Acks(t) : toSend[k].at <= Len(data[part[n]])
      BY <3>1 DEF Life, Acked
    <3>4. sender[t].started => sender[t].acked <= Len(data[part[n]])
      BY <3>1 DEF Life, Acked
    <3> QED
      BY <1>1, <2>1, <2>3, <3>2, <3>3, <3>4 DEF Life, Acked, Holds
  <2>7. InWindow(t)'
    <3>1. \A j, k \in Chunks(t)' : j < k => j + 1 < k + 1
      BY <2>2
    <3>2. ASSUME NEW j \in Chunks(t)', NEW k \in Chunks(t)', j < k
          PROVE  toRecv'[j].at < toRecv'[k].at
      <4>1. /\ j + 1 < k + 1 /\ j + 1 \in Chunks(t) /\ k + 1 \in Chunks(t)
            /\ toRecv'[j] = toRecv[j + 1] /\ toRecv'[k] = toRecv[k + 1]
        BY <2>2, <3>1, <3>2
      <4> QED
        BY <4>1 DEF Life, InWindow
    <3> QED
      BY <1>1, <2>2, <2>3, <3>2 DEF Life, InWindow
  <2>8. Started(t)'
    BY <1>1, <2>2 DEF Life, Started
  <2> QED
    BY <2>4, <2>5, <2>6, <2>7, <2>8 DEF Life
<1> QED
  BY <1>1, <1>2, <1>7, <1>8, <1>9


-----------------------------------------------------------------------------
(* The first life of the viewer: every step.                                *)

LEMMA LivesInit == Init => Lives
<1> SUFFICES ASSUME Init, NEW t \in Transfers PROVE Life(t)
  BY DEF Lives
<1>1. /\ sender[t].phase = "idle" /\ sender[t].next = 0 /\ sender[t].acked = 0
      /\ ~sender[t].started
      /\ recvs[t] = Nothing /\ part[NameOf[t]] = Nothing /\ final[NameOf[t]] = Nothing
      /\ toRecv = << >> /\ toSend = << >>
  BY DEF Init, Idle
<1>2. Chunks(t) = {} /\ Completes(t) = {} /\ Offers(t) = {} /\ Acks(t) = {}
  BY <1>1 DEF Chunks, Completes, Offers, Acks, Of
<1> QED
  BY <1>1, <1>2 DEF Life, Introduced, Unseen, OnDisk, Acked, InWindow, Started

\* A life that is the first now was the first before.
LEMMA FirstLifeStep ==
  ASSUME TypeOK, [Next]_vars, FirstLife'
  PROVE  FirstLife /\ ~ViewerRestarts
<1>1. \/ UNCHANGED faults
      \/ \E kind : faults' = Append(faults, kind) /\ (ViewerRestarts => kind = "viewer")
  <2>1. CASE LinkLost \/ ViewerRestarts \/ HostRestarts
    <3>1. ASSUME ViewerRestarts PROVE faults' = Append(faults, "viewer")
      BY <3>1 DEF ViewerRestarts, Fault
    <3>2. \E kind : faults' = Append(faults, kind)
      BY <2>1 DEF LinkLost, ViewerRestarts, HostRestarts, Fault
    <3> QED
      BY <3>1, <3>2
  <2>2. CASE ~(LinkLost \/ ViewerRestarts \/ HostRestarts)
    BY <2>2 DEF Next, Viewer, Host, Offer, Begin, SendChunk, Conclude, GiveUp, CancelSend,
         HandleAck, HandleOffer, RefuseOffer, HandleChunk, DropChunk, IgnoreComplete,
         RejectComplete, AcceptComplete, Complete, HandleCancel, CancelReceive, Handle,
         LinkBack, vars
  <2> QED
    BY <2>1, <2>2
<1>2. faults \in Seq(Faults)
  BY DEF TypeOK
<1>3. CASE UNCHANGED faults /\ ~ViewerRestarts
  BY <1>3 DEF FirstLife
<1>4. ASSUME NEW kind, faults' = Append(faults, kind), ViewerRestarts => kind = "viewer"
      PROVE  FirstLife /\ ~ViewerRestarts
  <2>1. /\ \A k \in DOMAIN faults : k \in DOMAIN faults' /\ faults'[k] = faults[k]
        /\ Len(faults) + 1 \in DOMAIN faults' /\ faults'[Len(faults) + 1] = kind
    BY <1>2, <1>4
  <2> QED
    BY <1>4, <2>1 DEF FirstLife, ToSet
<1>5. ~(ViewerRestarts /\ UNCHANGED faults)
  <2>1. ASSUME ViewerRestarts PROVE faults' # faults
    <3>1. faults' = Append(faults, "viewer")
      BY <2>1 DEF ViewerRestarts, Fault
    <3> QED
      BY <1>2, <3>1
  <2> QED
    BY <2>1
<1> QED
  BY <1>1, <1>3, <1>4, <1>5

\* The viewer's own steps.
LEMMA ViewerLives ==
  ASSUME TypeOK, \A t \in Transfers : Life(t), Viewer
  PROVE  \A t \in Transfers : Life(t)'
<1>0. toRecv \in Seq(ToHost) /\ toSend \in Seq(ToViewer) /\ << >> \in Seq(STRING) /\ 0 \in Nat
  BY DEF TypeOK
\* A step of t does not touch another transfer.
<1>a. ASSUME NEW t \in Transfers, NEW u \in Transfers, u # t, Only(t),
             UNCHANGED <<toSend, recvs, part, final, data>>,
             toRecv' = toRecv \/ \E m \in ToHost : m.id = t /\ toRecv' = Ship(toRecv, m)
      PROVE  Life(u)'
  <2>1. SenderStays(u) /\ FilesStayOf(u) /\ recvs'[u] \in {recvs[u], Nothing}
    BY <1>a DEF SenderStays, FilesStayOf, Only
  <2>2. Shifted(toSend', toSend, u, 0)
    BY <1>0, <1>a, QueueOf
  <2>3. Shifted(toRecv', toRecv, u, 0)
    <3>1. CASE toRecv' = toRecv
      BY <1>0, <3>1, QueueOf
    <3>2. ASSUME NEW m \in ToHost, m.id = t, toRecv' = Ship(toRecv, m)
          PROVE  Shifted(toRecv', toRecv, u, 0)
      BY <1>a, <3>2, ToRecvOf
    <3> QED
      BY <1>a, <3>1, <3>2
  <2>4. 0 \in Nat
    BY <1>0
  <2> QED
    BY <2>1, <2>2, <2>3, <2>4, QuietStep
<1>1. ASSUME NEW t \in Transfers, NEW c \in Contents, Offer(t, c)
      PROVE  \A u \in Transfers : Life(u)'
  <2>1. Message("offer", t, Len(c), << >>) \in ToHost
    <3>1. Len(c) \in Nat /\ << >> \in Seq(STRING)
      OBVIOUS
    <3> QED
      BY <3>1, MessageType
  <2>2. Only(t)
    BY <1>1 DEF Offer, Only, TypeOK
  <2>3. /\ \E m \in ToHost : m.id = t /\ toRecv' = Ship(toRecv, m)
        /\ UNCHANGED <<toSend, recvs, part, final, data>>
    BY <1>1, <2>1 DEF Offer, Message, diskVars
  <2>4. Life(t)'
    BY <1>1, OfferLife
  <2> QED
    BY <1>a, <2>2, <2>3, <2>4
<1>2. ASSUME NEW t \in Transfers, Begin(t) PROVE \A u \in Transfers : Life(u)'
  <2>1. Only(t) /\ UNCHANGED <<toRecv, toSend, recvs, part, final, data>>
    BY <1>2, BeginIs
  <2>2. Life(t)'
    BY <1>2, BeginLife
  <2> QED
    BY <1>a, <2>1, <2>2
<1>3. ASSUME NEW t \in Transfers, SendChunk(t) PROVE \A u \in Transfers : Life(u)'
  <2> DEFINE m == Message("chunk", t, sender[t].next, <<sender[t].content[sender[t].next + 1]>>)
  <2>1. /\ Only(t) /\ UNCHANGED <<toSend, recvs, part, final, data>>
        /\ toRecv' = Ship(toRecv, m)
        /\ sender[t].content[sender[t].next + 1] \in STRING
    BY <1>3, SendChunkIs
  <2>2. sender[t].next \in Nat
    BY NumbersOf
  <2>3. m \in ToHost
    BY <2>1, <2>2, MessageType
  <2>4. m.id = t
    BY DEF Message
  <2> HIDE DEF m
  <2>5. Life(t)'
    BY <1>3, SendChunkLife
  <2> QED
    BY <1>a, <2>1, <2>3, <2>4, <2>5
<1>4. ASSUME NEW t \in Transfers, Conclude(t) PROVE \A u \in Transfers : Life(u)'
  <2> DEFINE m == Message("complete", t, 0, sender[t].content)
  <2>1. /\ Only(t) /\ UNCHANGED <<toSend, recvs, part, final, data>>
        /\ toRecv' = Ship(toRecv, m)
    BY <1>4, ConcludeIs
  <2>2. sender[t].content \in Seq(STRING)
    BY NumbersOf
  <2>3. m \in ToHost
    BY <1>0, <2>2, MessageType
  <2>4. m.id = t
    BY DEF Message
  <2> HIDE DEF m
  <2>5. Life(t)'
    BY <1>4, ConcludeLife
  <2> QED
    BY <1>a, <2>1, <2>3, <2>4, <2>5
<1>5. ASSUME NEW t \in Transfers, GiveUp(t) PROVE \A u \in Transfers : Life(u)'
  <2>1. Only(t) /\ UNCHANGED <<toRecv, toSend, recvs, part, final, data>>
    BY <1>5, GiveUpIs
  <2>2. Life(t)'
    BY <1>5, GiveUpLife
  <2> QED
    BY <1>a, <2>1, <2>2
<1>6. ASSUME NEW t \in Transfers, CancelSend(t) PROVE \A u \in Transfers : Life(u)'
  <2> DEFINE m == Message("cancel", t, 0, << >>)
  <2>1. /\ Only(t) /\ UNCHANGED <<toSend, recvs, part, final, data>>
        /\ toRecv' = Ship(toRecv, m)
        /\ SenderStays(t)
    BY <1>6, CancelSendIs DEF SenderStays
  <2>2. m \in ToHost
    BY <1>0, MessageType
  <2>3. m.id = t /\ m.kind = "cancel"
    BY DEF Message
  <2> HIDE DEF m
  <2>4. Shifted(toRecv', toRecv, t, 0)
    BY <2>1, <2>2, <2>3, ToRecvOf
  <2>5. Shifted(toSend', toSend, t, 0)
    BY <1>0, <2>1, QueueOf
  <2>6. FilesStayOf(t) /\ recvs'[t] \in {recvs[t], Nothing}
    BY <2>1 DEF FilesStayOf
  <2>7. Life(t)'
    BY <1>0, <2>1, <2>4, <2>5, <2>6, QuietStep
  <2> QED
    BY <1>a, <2>1, <2>2, <2>3, <2>7
<1>7. ASSUME HandleAck PROVE \A u \in Transfers : Life(u)'
  <2>0. PICK t \in Transfers : t = Head(toSend).id
    BY <1>7, HandleAckIs
  <2>1. Only(t) /\ UNCHANGED <<toRecv, recvs, part, final, data>>
    BY <1>7, <2>0, HandleAckIs DEF Only
  <2>2. Life(t)'
    BY <1>7, <2>0, AckLife
  <2>3. ASSUME NEW u \in Transfers, u # t PROVE Life(u)'
    <3>1. SenderStays(u) /\ FilesStayOf(u) /\ recvs'[u] \in {recvs[u], Nothing}
      BY <2>1, <2>3 DEF SenderStays, FilesStayOf, Only
    <3>2. Shifted(toRecv', toRecv, u, 0)
      BY <1>0, <2>1, QueueOf
    <3>3. Shifted(toSend', toSend, u, 1)
      BY <1>0, <1>7, QueueOf DEF HandleAck
    <3>4. Life(u) /\ TypeOK /\ 0 \in Nat /\ 1 \in Nat
      OBVIOUS
    <3> QED
      BY <3>1, <3>2, <3>3, <3>4, QuietStep
  <2> QED
    BY <2>2, <2>3
<1> QED
  BY <1>1, <1>2, <1>3, <1>4, <1>5, <1>6, <1>7 DEF Viewer


\* The host takes up the messages of one transfer at a time.
LEMMA HostLives ==
  ASSUME OneIdPerName, TypeOK, Apart, Attached, \A t \in Transfers : Life(t), Host
  PROVE  \A t \in Transfers : Life(t)'
<1>0. /\ toRecv \in Seq(ToHost) /\ toSend \in Seq(ToViewer)
      /\ recvs \in [Transfers -> Receivers \cup {Nothing}]
      /\ part \in [Names -> Inodes \cup {Nothing}]
      /\ final \in [Names -> Inodes \cup {Nothing}]
      /\ data \in [Inodes -> Seq(STRING \cup {Hole})]
  BY DEF TypeOK
\* What does not touch the files of u, nor sets up a receiver for it, is nothing to u.
<1>a. ASSUME NEW u \in Transfers, FilesStayOf(u), recvs'[u] \in {recvs[u], Nothing},
             NEW kind, Handle(kind), Shifted(toSend', toSend, u, 0)
      PROVE  Life(u)'
  <2>1. Shifted(toRecv', toRecv, u, 1)
    BY <1>a, HandledOf
  <2>2. SenderStays(u)
    BY <1>a, HandleIs DEF SenderStays
  <2>3. Life(u) /\ 0 \in Nat /\ 1 \in Nat
    OBVIOUS
  <2> QED
    BY <1>a, <2>1, <2>2, <2>3, QuietStep
<1>1. ASSUME HandleOffer PROVE \A u \in Transfers : Life(u)'
  <2>1. PICK t \in Transfers : t = Head(toRecv).id
    BY <1>1, HandleIs DEF HandleOffer
  <2> DEFINE n == NameOf[t]
  <2>2. PICK i \in Inodes, d \in Seq(STRING \cup {Hole}), resume \in Nat :
           /\ IF part[n] = Nothing THEN Fresh(i) ELSE i = part[n]
           /\ \E r : recvs' = [recvs EXCEPT ![t] = r]
           /\ data' = [data EXCEPT ![i] = d]
           /\ part' = [part EXCEPT ![n] = i]
           /\ AckAt(t, resume)
           /\ UNCHANGED final
    <3>1. \E i \in Inodes, d \in Seq(STRING \cup {Hole}), resume \in Nat :
           /\ IF part[NameOf[Head(toRecv).id]] = Nothing THEN Fresh(i)
              ELSE i = part[NameOf[Head(toRecv).id]]
           /\ \E r : recvs' = [recvs EXCEPT ![Head(toRecv).id] = r]
           /\ data' = [data EXCEPT ![i] = d]
           /\ part' = [part EXCEPT ![NameOf[Head(toRecv).id]] = i]
           /\ AckAt(Head(toRecv).id, resume)
           /\ UNCHANGED final
      BY <1>1, TakenUp
    <3> QED
      BY <2>1, <3>1
  <2>3. n \in Names
    OBVIOUS
  <2> HIDE DEF n
  <2>4. Life(t)'
    BY <1>1, <2>1, TakenUpLife
  <2>5. ASSUME NEW u \in Transfers, u # t PROVE Life(u)'
    <3>1. NameOf[u] # n /\ NameOf[u] \in Names
      BY <2>5 DEF OneIdPerName, n
    <3>2. part[NameOf[u]] # i /\ final[NameOf[u]] # i
      BY <2>2, <2>3, <3>1, Elsewhere
    <3>3. FilesStayOf(u) /\ recvs'[u] \in {recvs[u], Nothing}
      BY <1>0, <2>2, <2>3, <2>5, <3>1, <3>2 DEF FilesStayOf
    <3>4. Shifted(toSend', toSend, u, 0)
      BY <2>2, <2>5, AckOf
    <3>5. Handle("offer")
      BY <1>1 DEF HandleOffer
    <3> QED
      BY <1>a, <3>3, <3>4, <3>5
  <2> QED
    BY <2>4, <2>5
<1>2. ASSUME HandleChunk PROVE \A u \in Transfers : Life(u)'
  <2>1. PICK t \in Transfers : t = Head(toRecv).id
    BY <1>2, HandleIs DEF HandleChunk
  <2>2. PICK i \in Inodes :
           /\ i = recvs[t].inode /\ recvs[t] # Nothing
           /\ \E d : data' = [data EXCEPT ![i] = d]
           /\ \A v \in Transfers \ {t} : recvs'[v] = recvs[v]
           /\ (\E at \in Nat : AckAt(t, at)) \/ UNCHANGED toSend
           /\ UNCHANGED <<part, final>>
    <3> DEFINE r == recvs[t]
    <3>1. /\ r # Nothing /\ r \in Receivers
          /\ \E d : data' = [data EXCEPT ![r.inode] = d]
          /\ \A v \in Transfers \ {t} : recvs'[v] = recvs[v]
          /\ AckAt(t, r.written + 1) \/ UNCHANGED toSend
          /\ UNCHANGED <<part, final>>
      BY <1>2, <2>1, ChunkTaken
    <3>2. r.inode \in Inodes /\ r.written + 1 \in Nat
      BY <3>1 DEF Receivers
    <3> QED
      BY <3>1, <3>2
  <2>3. part[NameOf[t]] = i /\ i # Nothing /\ NameOf[t] \in Names
    BY <2>2 DEF Attached
  <2>4. Life(t)'
    BY <1>2, <2>1, ChunkLife
  <2>5. ASSUME NEW u \in Transfers, u # t PROVE Life(u)'
    <3>1. NameOf[u] # NameOf[t] /\ NameOf[u] \in Names
      BY <2>5 DEF OneIdPerName
    <3>2. part[NameOf[u]] # i /\ final[NameOf[u]] # i
      BY <2>3, <3>1, Elsewhere
    <3>3. FilesStayOf(u) /\ recvs'[u] \in {recvs[u], Nothing}
      BY <1>0, <2>2, <2>5, <3>1, <3>2 DEF FilesStayOf
    <3>4. Shifted(toSend', toSend, u, 0)
      BY <1>0, <2>2, <2>5, AckOf, QueueOf
    <3>5. Handle("chunk")
      BY <1>2 DEF HandleChunk
    <3> QED
      BY <1>a, <3>3, <3>4, <3>5
  <2> QED
    BY <2>4, <2>5
<1>3. ASSUME IgnoreComplete \/ RejectComplete \/ AcceptComplete
      PROVE  \A u \in Transfers : Life(u)'
  <2>1. PICK t \in Transfers : t = Head(toRecv).id
    BY <1>3, Completed
  <2>2. /\ Handle("complete") /\ UNCHANGED <<toSend, data>>
        /\ recvs' = [recvs EXCEPT ![t] = Nothing]
        /\ UNCHANGED part \/ part' = [part EXCEPT ![NameOf[t]] = Nothing]
        /\ UNCHANGED final \/ final' = [final EXCEPT ![NameOf[t]] = part[NameOf[t]]]
    BY <1>3, <2>1, Completed
  <2>3. Life(t)'
    BY <1>3, <2>1, CompleteLife
  <2>4. ASSUME NEW u \in Transfers, u # t PROVE Life(u)'
    <3>1. NameOf[u] # NameOf[t] /\ NameOf[u] \in Names
      BY <2>4 DEF OneIdPerName
    <3>2. FilesStayOf(u) /\ recvs'[u] \in {recvs[u], Nothing}
      BY <1>0, <2>2, <2>4, <3>1 DEF FilesStayOf
    <3>3. Shifted(toSend', toSend, u, 0)
      BY <1>0, <2>2, QueueOf
    <3> QED
      BY <1>a, <2>2, <3>2, <3>3
  <2> QED
    BY <2>3, <2>4
<1>4. ASSUME RefuseOffer \/ DropChunk \/ HandleCancel PROVE \A u \in Transfers : Life(u)'
  <2> SUFFICES ASSUME NEW u \in Transfers PROVE Life(u)'
    OBVIOUS
  <2>1. UNCHANGED <<toSend, part, final, data>> /\ \E kind : Handle(kind)
    BY <1>4 DEF RefuseOffer, DropChunk, HandleCancel, diskVars
  <2>2. recvs'[u] \in {recvs[u], Nothing}
    BY <1>0, <1>4 DEF RefuseOffer, DropChunk, HandleCancel
  <2>3. FilesStayOf(u)
    BY <2>1 DEF FilesStayOf
  <2>4. Shifted(toSend', toSend, u, 0)
    BY <1>0, <2>1, QueueOf
  <2> QED
    BY <1>a, <2>1, <2>2, <2>3, <2>4
<1>5. ASSUME NEW t \in Transfers, CancelReceive(t) PROVE \A u \in Transfers : Life(u)'
  <2> SUFFICES ASSUME NEW u \in Transfers PROVE Life(u)'
    OBVIOUS
  <2> DEFINE m == Message("cancel", t, 0, << >>)
  <2>1. /\ UNCHANGED <<sender, toRecv, part, final, data>>
        /\ recvs' = [recvs EXCEPT ![t] = Nothing]
        /\ toSend' = Ship(toSend, m)
    BY <1>5 DEF CancelReceive, diskVars
  <2>2. 0 \in Nat
    OBVIOUS
  <2>3. m \in ToViewer
    BY <2>2, MessageType
  <2>4. m.kind = "cancel"
    BY DEF Message
  <2> HIDE DEF m
  <2>5. Shifted(toSend', toSend, u, 0)
    BY <2>1, <2>3, <2>4, ToSendOf
  <2>6. Shifted(toRecv', toRecv, u, 0)
    BY <1>0, <2>1, QueueOf
  <2>7. SenderStays(u) /\ FilesStayOf(u)
    BY <2>1 DEF SenderStays, FilesStayOf
  <2>8. recvs'[u] \in {recvs[u], Nothing}
    BY <1>0, <2>1
  <2>9. Life(u)
    OBVIOUS
  <2> QED
    BY <2>2, <2>5, <2>6, <2>7, <2>8, <2>9, QuietStep
<1> QED
  BY <1>1, <1>2, <1>3, <1>4, <1>5 DEF Host

LEMMA LivesStep ==
  ASSUME OneIdPerName, TypeOK, Apart, Attached, Lives, [Next]_vars
  PROVE  Lives'
<1> SUFFICES ASSUME FirstLife' PROVE \A t \in Transfers : Life(t)'
  BY DEF Lives
<1>1. FirstLife /\ ~ViewerRestarts
  BY FirstLifeStep
<1>2. \A t \in Transfers : Life(t)
  BY <1>1 DEF Lives
<1>3. CASE Viewer
  BY <1>2, <1>3, ViewerLives
<1>4. CASE Host
  BY <1>2, <1>4, HostLives
<1>5. CASE LinkLost \/ LinkBack \/ HostRestarts \/ UNCHANGED vars
  <2> SUFFICES ASSUME NEW t \in Transfers PROVE Life(t)'
    OBVIOUS
  <2>1. /\ UNCHANGED <<sender, part, final, data>>
        /\ UNCHANGED recvs \/ recvs' = [u \in Transfers |-> Nothing]
        /\ toRecv' = toRecv \/ toRecv' = << >> \/ toRecv' \in Prefixes(toRecv)
        /\ toSend' = toSend \/ toSend' = << >> \/ toSend' \in Prefixes(toSend)
    BY <1>5 DEF LinkLost, LinkBack, HostRestarts, Fault, vars, diskVars
  <2>2. toRecv \in Seq(ToHost) /\ toSend \in Seq(ToViewer)
    BY DEF TypeOK
  <2>3. Shifted(toRecv', toRecv, t, 0)
    BY <2>1, <2>2, QueueOf
  <2>4. Shifted(toSend', toSend, t, 0)
    BY <2>1, <2>2, QueueOf
  <2>5. SenderStays(t) /\ FilesStayOf(t) /\ recvs'[t] \in {recvs[t], Nothing}
    BY <2>1 DEF SenderStays, FilesStayOf
  <2>6. Life(t) /\ 0 \in Nat
    BY <1>2
  <2> QED
    BY <2>3, <2>4, <2>5, <2>6, QuietStep
<1> QED
  BY <1>1, <1>3, <1>4, <1>5 DEF Next


-----------------------------------------------------------------------------
(* What the two ends hold of each other.                                    *)

\* The chunks under way have different offsets, all of them in the window.
LEMMA WindowHolds ==
  ASSUME TypeOK, NEW t \in Transfers, Life(t)
  PROVE  Cardinality(Chunks(t)) <= Window
<1> DEFINE lo == sender[t].acked
           hi == sender[t].next - 1
           f == [k \in Chunks(t) |-> toRecv[k].at]
<1>1. lo \in Nat /\ hi \in Int /\ lo <= hi + 1 /\ hi - lo + 1 <= Window
  BY NumbersOf DEF Life, InWindow
<1>2. f \in [Chunks(t) -> lo .. hi]
  <2>1. ASSUME NEW k \in Chunks(t) PROVE toRecv[k].at \in lo .. hi
    <3>1. lo <= toRecv[k].at /\ toRecv[k].at < sender[t].next
      BY DEF Life, InWindow
    <3>2. toRecv[k].at \in Nat /\ sender[t].next \in Nat
      BY NumbersOf DEF Chunks
    <3> QED
      BY <1>1, <3>1, <3>2
  <2> HIDE DEF lo, hi
  <2> QED
    BY <2>1
<1>3. \A j, k \in Chunks(t) : f[j] = f[k] => j = k
  <2> SUFFICES ASSUME NEW j \in Chunks(t), NEW k \in Chunks(t), j # k PROVE f[j] # f[k]
    OBVIOUS
  <2>1. j \in Nat /\ k \in Nat /\ toRecv[j].at \in Nat /\ toRecv[k].at \in Nat
    BY NumbersOf DEF Chunks
  <2>2. j < k \/ k < j
    BY <2>1
  <2>3. toRecv[j].at < toRecv[k].at \/ toRecv[k].at < toRecv[j].at
    BY <2>2 DEF Life, InWindow
  <2> QED
    BY <2>1, <2>3
<1> HIDE DEF f
<1>4. f \in Injection(Chunks(t), lo .. hi)
  BY <1>2, <1>3 DEF Injection, IsInjective
<1>5. IsFiniteSet(lo .. hi) /\ Cardinality(lo .. hi) <= Window
  <2> HIDE DEF lo, hi
  <2>1. IsFiniteSet(lo .. hi)
        /\ Cardinality(lo .. hi) = IF lo > hi THEN 0 ELSE hi - lo + 1
    BY <1>1, FS_Interval
  <2> QED
    BY <1>1, <2>1
<1> HIDE DEF lo, hi
<1>6. IsFiniteSet(Chunks(t)) /\ Cardinality(Chunks(t)) <= Cardinality(lo .. hi)
  BY <1>4, <1>5, FS_Injection
<1>7. Cardinality(Chunks(t)) \in Nat /\ Cardinality(lo .. hi) \in Nat
  BY <1>5, <1>6, FS_CardinalityType
<1> QED
  BY <1>5, <1>6, <1>7

LEMMA EndsAgreeHolds ==
  ASSUME TypeOK, Attached, Lives
  PROVE  EndsAgree
<1>1. ReceiverMatchesDisk
  BY DEF Attached, ReceiverMatchesDisk
<1>2. ASSUME FirstLife PROVE CompletedIsHeld /\ FlightWithinWindow
  <2>1. \A t \in Transfers : Life(t)
    BY <1>2 DEF Lives
  <2>2. CompletedIsHeld
    BY <2>1, AllOnDisk DEF CompletedIsHeld
  <2>3. FlightWithinWindow
    <3> SUFFICES ASSUME NEW t \in Transfers
                 PROVE  Cardinality({k \in DOMAIN toRecv :
                            toRecv[k].kind = "chunk" /\ toRecv[k].id = t}) <= Window
      BY DEF FlightWithinWindow
    <3>1. {k \in DOMAIN toRecv : toRecv[k].kind = "chunk" /\ toRecv[k].id = t} = Chunks(t)
      BY DEF Chunks, Of
    <3> QED
      BY <2>1, <3>1, WindowHolds
  <2> QED
    BY <2>2, <2>3
<1> QED
  BY <1>1, <1>2 DEF EndsAgree, FirstLife

\* The digest is that of what is on disk; and for as long as the viewer lives, what it
\* reports as completed is held by the host, and no more than a window of chunks is under
\* way (the offsets acked by on_offer and on_chunk, and the window of send_loop), whatever
\* is lost with the channel, or by a host that restarts.
THEOREM EndsAgreeInvariant ==
  ASSUME OneIdPerName, "read" \notin Failing
  PROVE  Spec => []EndsAgree
<1> DEFINE Inv == TypeOK /\ Apart /\ Attached /\ Lives
<1>1. Init => Inv
  BY TypeInit, ApartInit, AttachedInit, LivesInit
<1>2. Inv /\ [Next]_vars => Inv'
  BY TypeStep, ApartStep, AttachedStep, LivesStep
<1>3. Inv => EndsAgree
  BY EndsAgreeHolds
<1> QED
  BY <1>1, <1>2, <1>3, PTL DEF Spec

=============================================================================
