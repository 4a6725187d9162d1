----------------------------- MODULE MCPrompts -----------------------------
(***************************************************************************)
(* A few turns that build their prompts at the same time while the prompt  *)
(* repository moves on.  They are interchangeable.                         *)
(***************************************************************************)
EXTENDS PromptRepository, TLC

Symmetry == Permutations(Requests)
=============================================================================
