-------------------------- MODULE MCConfigCommand --------------------------
(* ConfigCommand for TLC: workers are interchangeable, and so are devices.  *)
EXTENDS ConfigCommand, TLC

Symmetry == Permutations(Workers) \cup Permutations(Devices) \cup Permutations(Lines)
=============================================================================
