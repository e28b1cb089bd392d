------------------------------ MODULE MCRegistry ------------------------------
\* Small instances of Registry: two sessions, one client goroutine.
EXTENDS Registry

CONSTANTS s1, s2, watcher, client

MCRequests == {ListSessions, ClientCommand} \cup {PaneInfo(s) : s \in Sessions}
MCReplies ==
  [kind : {"list", "pane", "ok", "error"}, sessions : SUBSET Sessions,
   attached : SUBSET Sessions]
=============================================================================
