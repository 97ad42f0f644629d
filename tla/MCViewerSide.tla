----------------------------- MODULE MCViewerSide -----------------------------
(* ViewerSide on small instances.                                           *)
EXTENDS ViewerSide, TLC

CONSTANTS
    alice, bob,    \* accounts
    old, new,      \* passwords
    thumb, index   \* fingers

\* The parts a behaviour is not of start in one state.
MCInit ==
    /\ SideInit
    /\ part # "page" => ~hidden /\ stored = None
    /\ part # "touch" => mode = "longpress"

MCSpec == MCInit /\ [][SideNext]_sideVars /\ SideFairness
=============================================================================
