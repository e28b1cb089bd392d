----------------------------- MODULE MCAgentPane -----------------------------
\* A small instance of AgentPane: two prompts through the adapter, an upload
\* through the converter, two viewers.
EXTENDS AgentPane

CONSTANTS adapter, converter, p1, p2, u1, v1, v2

ServedBy == [j \in Jobs |-> IF j = u1 THEN converter ELSE adapter]

Asked(js, n, f) == [jobs |-> js, inputs |-> n, faults |-> f]

\* Three jobs and a fault; two jobs and a viewer; a prompt, a viewer and a fault; one
\* prompt and two faults; viewers alone.
SmallLoads ==
  {Asked({p1, p2, u1}, 0, 1), Asked({p1, p2}, 1, 0), Asked({p1, u1}, 1, 0),
   Asked({p1}, 1, 1), Asked({p1}, 0, 2), Asked({}, 3, 1)}
=============================================================================
