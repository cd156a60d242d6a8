--------------------------- MODULE MCSdnRedirect ---------------------------
(* Small instances of SdnRedirect: keys and clients are interchangeable. *)
EXTENDS SdnRedirect, TLC

Symmetry == Permutations(Keys) \cup Permutations(Clients)
=============================================================================
