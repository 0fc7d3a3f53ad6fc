------------------------------ MODULE MCOAuth ------------------------------
(* Ann authorizes twice, the first time with two callbacks, and has two      *)
(* calls; bob only has a call.                                               *)
EXTENDS OAuth, TLC

CONSTANTS ann, bob, f1, f2, b1, b2, b3, c1, c2, c3

LastIsBobs == [t \in Flows \cup Callers |-> IF t = c3 THEN bob ELSE ann]
TwoOfF1    == [b \in Callbacks |-> IF b = b3 THEN f2 ELSE f1]

\* Ann's calls, and the callbacks of her first authorization, are alike.
Alike == Permutations({c1, c2}) \cup Permutations({b1, b2})
=============================================================================
