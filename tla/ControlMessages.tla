---------------------------- MODULE ControlMessages ----------------------------
(***************************************************************************)
(* The viewer-to-host messages of the control channel                      *)
(* (crates/protocol/proto/rmd.proto), as far as run_host_core tells them   *)
(* apart.  A Hello is one of three kinds: one whose protocol version and   *)
(* codecs suit the host and whose password is right, one whose password is *)
(* wrong or missing, and one that is not compatible at all.                *)
(***************************************************************************)
CONSTANTS
    Keys,       \* keys and mouse buttons a viewer may press
    NoKey       \* stands for "no key" in the messages that carry none

Hellos      == {"hello", "hello_wrong_password", "hello_incompatible"}
Inputs      == {"press", "release"}
\* "other": pings, clipboard, zoom and file messages, which touch none of the
\* state modelled here, and the payloads the host ignores.
OtherTypes  == {"view_only_on", "view_only_off", "keyframe", "select_display", "other"}

Messages == [type : Inputs, key : Keys] \cup [type : Hellos \cup OtherTypes, key : {NoKey}]

NoMessage == [type |-> "none", key |-> NoKey]
=============================================================================
