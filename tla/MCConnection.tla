--------------------------- MODULE MCConnection ---------------------------
EXTENDS Connection, TLC

\* Connections and workers are interchangeable.
Symmetry == Permutations(Conn) \cup Permutations(Worker)
============================================================================
