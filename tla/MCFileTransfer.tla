---------------------------- MODULE MCFileTransfer ----------------------------
(***************************************************************************)
(* FileTransfer on two small instances, one beside the other.  In "window" *)
(* two files are sent at once, of any length.  In "resume" one file is     *)
(* sent again and again, edited meanwhile, over faults of link, processes  *)
(* and disks.                                                              *)
(***************************************************************************)
EXTENDS FileTransfer, TLC

CONSTANTS
    tx1, tx2,       \* transfer ids
    notes, photo,   \* file names
    Parts,          \* of "window", "resume"
    Windowed        \* what is offered in "window"

VARIABLE instance

TwoNames == (tx1 :> notes @@ tx2 :> photo)
SameName == (tx1 :> notes @@ tx2 :> notes)

Short    == <<"a", "b">>
Edited   == <<"a", "c", "b">>
TwoFiles == {Short, <<"c", "c">>}
Sizes    == {<< >>, Edited}
Versions == {Short, Edited}
Anything == Sizes \cup Versions

Resume == INSTANCE FileTransfer WITH
    Contents <- Versions, AckEvery <- 1, Failing <- {"open", "write", "rename"},
    Faults <- {"link", "viewer", "host"}, MaxFaults <- 2

MCInit == instance \in Parts /\ Init

MCNext ==
    /\ \/ instance = "window" /\ Next /\ \A n \in Names : offered'[n] \subseteq Windowed
       \/ instance = "resume" /\ Resume!Next /\ sender'[tx2] = sender[tx2]
    /\ UNCHANGED instance

MCSpec == MCInit /\ [][MCNext]_<<instance, vars>> /\ Fairness

-----------------------------------------------------------------------------

\* EveryTransferEnds, under the fairness of the first instance.
TransfersEnd ==
    \A t \in Transfers :
        instance = "window" /\ sender[t].phase = "offered"
            ~> sender[t].phase \in {"completed", "stopped"} \/ faults # << >>
=============================================================================
