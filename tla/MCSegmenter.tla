---------------------------- MODULE MCSegmenter ----------------------------
(* The segmenter for TLC.  Sources are interchangeable.                     *)
EXTENDS Segmenter

UrlSymmetry == Permutations(Urls)
=============================================================================
