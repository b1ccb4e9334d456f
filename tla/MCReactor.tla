------------------------------ MODULE MCReactor ------------------------------
EXTENDS Reactor, TLC

Symmetry == Permutations(Conn)
=============================================================================
