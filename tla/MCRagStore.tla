----------------------------- MODULE MCRagStore -----------------------------
(* RagStore with texts whose blanks fall inside, around and between windows. *)
EXTENDS RagStore

v == "visible"
s == "space"
n == "newline"

SomeTexts == {<<s, n>>, <<v>>, <<s, v, s, v, v>>, <<v, s, n, s, s, s, v, v>>}
SomeChunkings == {[size |-> 2, overlap |-> 0], [size |-> 3, overlap |-> 1]}

Symmetry == Permutations(Requests)
=============================================================================
