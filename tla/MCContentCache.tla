--------------------------- MODULE MCContentCache ---------------------------
(* A path of any name and the name of a font under which a payload was     *)
(* published, and two files for a cache of two units: a font, which enters *)
(* it whole or as the prefix of an asset and fits beside another of its    *)
(* size, and a native payload, which fills the cache and evicts.           *)
EXTENDS ContentCache, TLC

CONSTANTS notes, glyphs, payload, font

LengthOf == (payload :> 2) @@ (font :> 1)

\* A font is binary; the padding trimmed under an asset's name hides none.
OpaqueUnder == [p \in Paths |-> {font}]

ValidUnder == (notes :> {}) @@ (glyphs :> {font})

Symmetry == Permutations(Readers)
=============================================================================
