--------------------------- MODULE MCFayeSession ---------------------------
(* FayeSession with the symmetry its safety runs use: connections and readers *)
(* are interchangeable.                                                       *)
EXTENDS FayeSession, TLC

Symmetry == Permutations(Conn) \cup Permutations(Reader)
=============================================================================
