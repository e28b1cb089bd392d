------------------------ MODULE MCConversationWatcher ------------------------
\* Small instances of ConversationWatcher: one agent with two main
\* conversations and a subagent's.
EXTENDS ConversationWatcher

CONSTANTS a1, f1, s1

OwnedByA1 == [f \in Files |-> a1]
=============================================================================
