--------------------------- MODULE MCContentStore ---------------------------
EXTENDS ContentStore, TLC

(* Contents, concurrent calls and media types are interchangeable. *)
Symmetry == Permutations(Hashes) \cup Permutations(Registrars)
            \cup Permutations(MediaTypes)
=============================================================================
