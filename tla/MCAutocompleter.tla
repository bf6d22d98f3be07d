--------------------------- MODULE MCAutocompleter ---------------------------
(* Autocompleter on small pages: the texts "", and two long enough to search for. *)
EXTENDS Autocompleter, TLC
CONSTANTS f1, f2, v0, v1, v2
MCValues == {v0, v1, v2}
MCShort == {v0}
Symmetry == Permutations({v1, v2}) \cup Permutations({f1, f2})
=============================================================================
