----------------------------- MODULE MCFallback -----------------------------
(* Two sessions and two fallbacks: of two sessions at once, or of one session *)
(* that enters again.                                                         *)
EXTENDS Fallback
=============================================================================
