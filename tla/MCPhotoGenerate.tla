-------------------------- MODULE MCPhotoGenerate --------------------------
(* Constant values for model checking PhotoGenerate. *)
EXTENDS PhotoGenerate, TLC

CONSTANTS r1, r2

\* One request of three chunks and one of a single chunk.
MCChunksThreeOne == r1 :> 3 @@ r2 :> 1

\* One request of two chunks and one of a single chunk.
MCChunksTwoOne == r1 :> 2 @@ r2 :> 1

=============================================================================
