----------------------------- MODULE MCIntentIntake -----------------------------
(* Instances of IntentIntake for TLC. *)
EXTENDS IntentIntake, TLC

Symmetry == Permutations(Keys) \cup Permutations(Listeners)
================================================================================
