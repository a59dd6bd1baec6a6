--------------------------- MODULE MCAgentEvents ---------------------------
(* AgentEvents on one agent and its subscriber: users prompt and cancel the agent, and *)
(* switch the session of the subscriber.                                               *)
EXTENDS AgentEvents

CONSTANTS child, parent

ChildAndParent == {<<child, parent>>}

ChildsTurns ==
  [a \in Agents |-> IF a = child THEN [prompts |-> 1, cancels |-> 1, switches |-> 0]
                    ELSE [prompts |-> 0, cancels |-> 0, switches |-> 1]]
=============================================================================
