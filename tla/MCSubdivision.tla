--------------------------- MODULE MCSubdivision ---------------------------
(* Small instances of the one-shot path for TLC.                            *)
EXTENDS Subdivision

\* Two chunks that can be halved and one at the single-page floor.
ThreeChunks == << <<1, 3>>, <<4, 5>>, <<6, 6>> >>
\* The second chunk has Index 1.0, which the right half of a right half also gets.
CollidingChunks == << <<1, 4>>, <<5, 5>> >>
=============================================================================
