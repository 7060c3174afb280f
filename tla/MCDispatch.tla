---------------------------- MODULE MCDispatch ----------------------------
EXTENDS Dispatch, TLC

\* Connections and workers are interchangeable.
Symmetry == Permutations(Conn) \cup Permutations(Worker)
============================================================================
