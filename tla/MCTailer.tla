------------------------------ MODULE MCTailer ------------------------------
\* A small instance of Tailer: the channel holds one line.
EXTENDS Tailer
=============================================================================
