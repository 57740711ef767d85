---- MODULE MCTargetStore ----
(* Instances of TargetStore for TLC; the cfgs give every constant.         *)
EXTENDS TargetStore
=====
