------------------------- MODULE MCSitowiseFactory -------------------------
(* The factory with the small constants of the .cfg files. *)
EXTENDS SitowiseFactory, TLC

\* No definition names an account or a payment hash.
Interchangeable == Permutations(Accounts) \cup Permutations(Refs)
=============================================================================
