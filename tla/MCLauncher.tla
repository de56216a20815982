----------------------------- MODULE MCLauncher -----------------------------
(* Launcher with jobs, workers and salts that may be exchanged.            *)
EXTENDS Launcher, TLC

\* Workers play different parts (OnDemand, Mortal): only jobs and salts move.
Symmetry == Permutations(Jobs) \cup Permutations(Salts)
=============================================================================
