------------------------------ MODULE MCReports ------------------------------
(* Reports for TLC: interchangeable workers and requests.                    *)
EXTENDS Reports, TLC

Interchangeable == Permutations(Workers) \cup Permutations(People)
==============================================================================
