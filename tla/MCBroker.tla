------------------------------ MODULE MCBroker ------------------------------
(* Broker on a small instance.                                              *)
EXTENDS Broker, TLC

CONSTANTS ann, ben   \* graphical sessions of two users
=============================================================================
