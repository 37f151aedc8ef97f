---------------------------- MODULE MCInspections ----------------------------
(* Inspections on small instances.  Requests are interchangeable, and so   *)
(* are items: no action and no safety property tells them apart.           *)
EXTENDS Inspections, TLC

Interchangeable == Permutations(Request) \cup Permutations(Item)
=============================================================================
