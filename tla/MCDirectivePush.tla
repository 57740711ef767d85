---- MODULE MCDirectivePush ----
(* Instances of DirectivePush for TLC. *)
EXTENDS DirectivePush
=====
