------------------------------- MODULE FileCopy -------------------------------
(***************************************************************************)
(* What a file transfer promises (crates/session/src/filexfer.rs), without *)
(* the protocol: files are offered under a name, and a name in the         *)
(* download directory holds nothing, or the whole of a file that was       *)
(* offered under it.  A name's file is replaced at once, never written in  *)
(* place.                                                                  *)
(***************************************************************************)
CONSTANTS Names, Contents, Nothing

VARIABLES
    offered,   \* for every name, the contents offered under it so far
    files      \* for every name, what the download directory holds

copyVars == <<offered, files>>

CopyInit ==
    /\ offered = [n \in Names |-> {}]
    /\ files = [n \in Names |-> Nothing]

OfferFile(n, c) ==
    /\ offered' = [offered EXCEPT ![n] = @ \cup {c}]
    /\ UNCHANGED files

Deliver(n) ==
    /\ \E c \in offered[n] : files' = [files EXCEPT ![n] = c]
    /\ UNCHANGED offered

CopyNext ==
    \E n \in Names : Deliver(n) \/ \E c \in Contents : OfferFile(n, c)

CopySpec == CopyInit /\ [][CopyNext]_copyVars
=============================================================================
