------------------------- MODULE MCProviderCatalog --------------------------
(* Small instances of ProviderCatalog for TLC. *)
EXTENDS ProviderCatalog, TLC

\* URLs, keys and models are interchangeable.
Interchangeable == Permutations(Urls) \cup Permutations(Keys) \cup Permutations(Models)
=============================================================================
