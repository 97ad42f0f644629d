--------------------------- MODULE MCAccountServer ---------------------------
(* AccountServer on a small instance.                                        *)
EXTENDS AccountServer, TLC

CONSTANTS alice, bob, desk, laptop
=============================================================================
