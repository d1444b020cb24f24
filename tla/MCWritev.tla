------------------------------- MODULE MCWritev -------------------------------
(* Two tasks, vectors of one to three buffers, an empty one among them. *)
EXTENDS Writev, TLC

CONSTANTS t1, t2

MCVectors == {<<2>>, <<0, 1>>, <<2, 1>>, <<1, 0, 2>>, <<1, 2, 1>>}

Symmetric == Permutations({t1, t2})
===============================================================================
