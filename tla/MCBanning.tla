------------------------------ MODULE MCBanning ------------------------------
(***************************************************************************)
(* Model checking of Banning: clients are interchangeable, and so are tags.*)
(***************************************************************************)
EXTENDS Banning, TLC

Symmetry == Permutations(Client) \cup Permutations(Tag)
=============================================================================
