----------------------------- MODULE MCAgentTurn -----------------------------
(* Two conversations, one of an operator and one of another user. *)
EXTENDS AgentTurn, TLC

CONSTANTS owner, guest

\* The ways around the pause, where there is one.
MCStep == "pause" \notin event => \A r \in rows' : r.how # "around"

MCUserOf == [c \in Conv |-> IF c = "home" THEN owner ELSE guest]
=============================================================================
