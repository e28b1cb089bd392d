-------------------------- MODULE MCConverterServer --------------------------
\* Small instances of ConverterServer: one agent with two or three main
\* conversations.
EXTENDS ConverterServer, TLC

CONSTANTS a1, f1, f2, f3, c1, c2

OwnedByA1 == [f \in Files |-> a1]

\* The conversations are alike where all of them are there from the start.
FileSymmetry == Permutations(Files)
=============================================================================
