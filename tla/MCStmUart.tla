----------------------------- MODULE MCStmUart -----------------------------
(* Commands told apart by token, digest, time of issue and sync generation. *)
EXTENDS StmUartSpec

Cmd(id, digest, issued, ttl, gen) ==
    [id |-> id, digest |-> digest, issued |-> issued, ttl |-> ttl, gen |-> gen]

OneCommand  == {Cmd(1, "a", 0, 1, 1)}
TwoTtls     == {Cmd(1, "a", 0, 2, 1), Cmd(2, "a", 0, 1, 1)}
ShortLived  == {Cmd(2, "a", 0, 1, 1)}
Conflicting == {Cmd(1, "a", 0, 1, 1), Cmd(1, "b", 0, 1, 1)}

BootSymmetry == Permutations(Boots)

SameOffset == [g \in Generations |-> 0]
=============================================================================
