--------------------------- MODULE MCTextureCache ---------------------------
(* Instances of TextureCache for TLC.                                       *)
EXTENDS TextureCache, TLC

CONSTANTS w1, w2, oak, lit_oak, elf, hello, odd, even

\* Two pictures of one sprite, one of another, and a text; some share a chain.
ImageFn == [p \in Pictures \ Texts |-> CASE p \in {oak, lit_oak} -> oak [] OTHER -> p]
BucketFn == [p \in Pictures |-> IF p \in {oak, elf, hello} THEN odd ELSE even]

\* The workers run the same code.
WorkerSymmetry == Permutations(Workers)
=============================================================================
