------------------------------ MODULE MCWebLinks ------------------------------
(* WebLinks for TLC. *)
EXTENDS WebLinks, TLC

CONSTANTS p1, p2, p3

TwoPages == {p1, p2}
ThreePages == {p1, p2, p3}
PageSymmetry == Permutations(Pages)
===============================================================================
