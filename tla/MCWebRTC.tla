------------------------------ MODULE MCWebRTC ------------------------------
(* The WebRTC writer for TLC.  Sources, peers and codec types are          *)
(* interchangeable.                                                        *)
EXTENDS WebRTC

Symmetry == Permutations(Urls) \cup Permutations(Peers) \cup Permutations(Types)
=============================================================================
