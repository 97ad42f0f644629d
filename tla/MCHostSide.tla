------------------------------ MODULE MCHostSide ------------------------------
(* HostSide on small instances.                                             *)
EXTENDS HostSide, TLC

CONSTANTS
    alice, bob, carol, mallory,   \* attempts at pairing; mallory's code is another one
    shift, letter, left,          \* keys and a button
    desk, tv,                     \* displays
    hello, world                  \* texts

Codes == (alice :> "code" @@ bob :> "code" @@ carol :> "code" @@ mallory :> "other")

Monitors == {[o |-> 0, m |-> 1, d |-> 1], [o |-> 2, m |-> 1, d |-> 3]}

\* The parts a behaviour is not of start in one state.
MCInit ==
    /\ SideInit
    /\ part # "store" => ~reachable
    /\ part # "input" => backend = "uinput" /\ rect.o = 0

MCSpec == MCInit /\ [][SideNext]_sideVars /\ SideFairness
=============================================================================
