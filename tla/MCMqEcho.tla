------------------------------ MODULE MCMqEcho ------------------------------
(* Model checking of the message queue server and its clients. *)
EXTENDS MqEcho
=============================================================================
