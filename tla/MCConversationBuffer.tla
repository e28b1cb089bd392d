------------------------ MODULE MCConversationBuffer ------------------------
\* Small instance of ConversationBuffer: a filter of each kind, a ring and
\* channels that fill up after two events.
EXTENDS ConversationBuffer

MCEventTypes == {"user", "thinking"}

NoFilter == [types |-> {}, excludeThinking |-> FALSE, excludeProgress |-> FALSE]

MCFilters ==
  {NoFilter,
   [NoFilter EXCEPT !.excludeThinking = TRUE],
   [NoFilter EXCEPT !.types = {"thinking"}, !.excludeThinking = TRUE]}
=============================================================================
