-------------------------- MODULE MCRendezvousClient --------------------------
(* RendezvousClient on small instances.                                     *)
EXTENDS RendezvousClient, TLC

CONSTANTS
    desk,         \* the host
    phone, pad,   \* viewers of its account
    ours          \* the account

OneViewer  == (desk :> ours @@ phone :> ours)
TwoViewers == (desk :> ours @@ phone :> ours @@ pad :> ours)
=============================================================================
