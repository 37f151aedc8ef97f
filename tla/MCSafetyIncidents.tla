-------------------------- MODULE MCSafetyIncidents --------------------------
(* SafetyIncidents on small instances.  Requests are interchangeable, and  *)
(* so are plans: no action and no safety property tells them apart.        *)
EXTENDS SafetyIncidents, TLC

Interchangeable == Permutations(Request) \cup Permutations(Plan)
=============================================================================
