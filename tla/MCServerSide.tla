----------------------------- MODULE MCServerSide -----------------------------
(***************************************************************************)
(* What the rendezvous server does for the devices of an account, each on  *)
(* a small instance, one beside the other: the hub that relays their       *)
(* frames, and the relay's credential that a host renews.  A behaviour is  *)
(* one of `part`.                                                          *)
(***************************************************************************)
EXTENDS SignalingHub, TLC

CONSTANTS
    desk, phone,  \* devices of an account
    stray,        \* a device of another
    ours, theirs  \* accounts

VARIABLE part

WithStray == (desk :> ours @@ phone :> ours @@ stray :> theirs)

VARIABLES proc, token, auth, reminted, waited, up, cred, cache, session
credentialVars == <<proc, token, auth, reminted, waited, up, cred, cache, session>>

\* In half minutes, the values that main.rs, api.rs and config.rs have without a setting.
Credential == INSTANCE RelayCredential WITH
    Ttl <- 20, Margin <- 2, Settle <- 1, MinUp <- 20, Wait <- 4

-----------------------------------------------------------------------------

Relays(A) == part = "hub"        /\ A /\ UNCHANGED <<part, credentialVars>>
Renews(A) == part = "credential" /\ A /\ UNCHANGED <<part, hubVars>>

MCInit ==
    /\ part \in {"hub", "credential"}
    /\ HubInit /\ Credential!Init
    /\ part # "credential" => token = "good"

MCNext == Relays(HubNext) \/ Renews(Credential!Next)

mcVars == <<part, hubVars, credentialVars>>

\* Credential!FairSpec.
MCFairness ==
    /\ WF_mcVars(Renews(Credential!Tick)) /\ WF_mcVars(Renews(Credential!GiveUp))
    /\ WF_mcVars(Renews(Credential!SeeIdle)) /\ WF_mcVars(Renews(Credential!Refresh))

MCSpec == MCInit /\ [][MCNext]_mcVars /\ MCFairness

-----------------------------------------------------------------------------

\* BootSettles and RelayComesBack.
RelayIsRenewed ==
    /\ part = "credential" /\ proc = "fetching" ~> proc = "serving"
    /\ part = "credential" /\ Credential!Lapsed
          ~> session \/ (proc = "serving" /\ ~Credential!Lapsed)
=============================================================================
