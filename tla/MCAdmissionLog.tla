-------------------------- MODULE MCAdmissionLog --------------------------
(* A small instance of AdmissionLog for TLC: a settlement between two        *)
(* parties, a starter grant, a dispute and its resolution, an override.      *)
EXTENDS AdmissionLog
CONSTANTS a, b, settle, settle2, grant, filed, upheld, order

KindOf == [e \in Events |-> CASE e = settle -> "clean" [] e = settle2 -> "unsigned"
                              [] e = grant -> "grant"
                              [] e = filed -> "filed" [] e = upheld -> "upheld"
                              [] OTHER -> "override"]
ConsumerOf == [e \in Events |-> IF KindOf[e] = "override" THEN None ELSE a]
SeederOf == [e \in Events |-> IF e = settle THEN b ELSE None]
CostOf == [e \in Events |-> IF e = grant THEN 2 ELSE IF e = settle THEN 1 ELSE 0]
=============================================================================
