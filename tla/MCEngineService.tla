--------------------------- MODULE MCEngineService ---------------------------
(* Instances of the service for TLC; see the README for the bounds.        *)
EXTENDS StatusView, TLC

\* One preset is as good as another here; the watched symbol is not.
ModeSymmetry == Permutations(Modes)
=============================================================================
