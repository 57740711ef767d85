---- MODULE MCUnmetMachine ----
(* Instances of UnmetMachine for TLC; the cfgs give every constant.        *)
EXTENDS UnmetMachine, TLC

ProcessSymmetry == Permutations(Processes)
=====
