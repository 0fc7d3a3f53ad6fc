----------------------------- MODULE MCQQChannel -----------------------------
(* One user's turns and commands, and a second user who clicks on cards.     *)
EXTENDS QQChannel

CONSTANTS u1, u2, m1, m2, m3

MCUserOf == [m \in Msgs |-> u1]

\* A turn that may meet another turn or a command, and be stopped.
MCKindsOf == [m \in Msgs |->
    CASE m = m1 -> {"turn", "remember"}
      [] m = m2 -> {"turn", "new", "remember", "forget", "show"}
      [] OTHER  -> {"stop"}]
=============================================================================
