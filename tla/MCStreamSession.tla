-------------------------- MODULE MCStreamSession --------------------------
(* Two requests, of one thread or of two. *)
EXTENDS StreamSession, TLC

CONSTANTS s1, s2, t1, t2

Symmetry == Permutations(Stream) \cup Permutations(Thread)
============================================================================
