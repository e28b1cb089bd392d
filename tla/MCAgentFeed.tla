----------------------------- MODULE MCAgentFeed -----------------------------
\* A small instance of AgentFeed: two clients, one of which may stop reading.
EXTENDS AgentFeed

CONSTANTS a1, quick, slow

FewRequests == [c \in Clients |-> IF c \in Slow THEN 1 ELSE 2]
=============================================================================
