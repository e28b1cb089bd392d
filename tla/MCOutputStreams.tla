--------------------------- MODULE MCOutputStreams ---------------------------
\* Small instances of OutputStreams.
EXTENDS OutputStreams, TLC

CONSTANTS c1, c2, s1, s2

\* The clients are alike.
ClientSymmetry == Permutations(Clients)

\* Nothing looks at whose a subscription was once its channel is closed.
WithoutClosed ==
  <<panes, pipe, astray, changes, current, held, handler, conn, closer, stop,
    [i \in DOMAIN streams |->
       [streams[i] EXCEPT !.subs = [k \in DOMAIN @ |-> IF @[k].open THEN @[k] ELSE 0]]]>>
=============================================================================
