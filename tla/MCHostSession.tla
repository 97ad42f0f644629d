---------------------------- MODULE MCHostSession ----------------------------
(* HostSession on small instances.                                          *)
EXTENDS HostSession, TLC

CONSTANTS
    alice, bob,   \* viewers: alice is within the access policy, bob is not
    shift         \* a key

TwoViewers == {alice, bob}
OnlyAlice  == {alice}
NoViewers  == {}

Plain(types)  == [type : types, key : {NoKey}]

InputTraffic    == [type : Inputs, key : Keys]
                   \cup Plain({"hello", "view_only_on", "view_only_off"})
PasswordTraffic == [type : {"press"}, key : Keys] \cup Plain(Hellos \cup {"keyframe", "other"})
SessionTraffic  == [type : {"press"}, key : Keys] \cup Plain({"hello", "select_display"})
=============================================================================
