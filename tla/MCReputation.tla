---------------------------- MODULE MCReputation ----------------------------
(* Three identities, one of which makes far more requests, and one that was   *)
(* never seen before, for TLC.                                               *)
EXTENDS Reputation
CONSTANTS a, b, c, d

\* math.Log(days+1)/math.Log(365) and math.Exp(-days/7), rounded down.
Bonus == <<11, 18, 23, 27, 30>>
Bonuses == [n \in 1 .. MaxTime |-> Bonus[n]]
Penalty == <<100, 86, 75, 65, 56, 48>>
Penalties == [n \in 0 .. MaxTime |-> Penalty[n + 1]]

Busy == [i \in Ids |-> IF i = a THEN 1 ELSE IF i = b THEN 2
                        ELSE IF i = c THEN 5 ELSE 0]
=============================================================================
