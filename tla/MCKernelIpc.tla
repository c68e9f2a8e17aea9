---------------------------- MODULE MCKernelIpc -----------------------------
(* Instances of KernelIpc: the two demos of the boot, and larger setups.    *)
EXTENDS KernelIpc, SequencesExt

Client(caps, budget) == [kind |-> "client", caps |-> caps, budget |-> budget]
Server(budget) == [kind |-> "server", budget |-> budget]
Worker(iters, budget) == [kind |-> "worker", iters |-> iters, budget |-> budget]

Permutations4(a, b, c, d) ==
    {<<s[1], s[2], s[3], s[4]>> : s \in SetToSeqs({<<1, a>>, <<2, b>>, <<3, c>>, <<4, d>>})}

SmallSetups ==
    LET setup4 == {[use |-> "tasks", bodies |-> [i \in 1 .. 4 |-> s[i][2]], wakes |-> w] :
                     s \in Permutations4(Client(1, 1), Client(0, 2), Server(1), Server(2)),
                     w \in 0 .. 2}
    IN  {[use |-> "objects", bodies |-> <<>>, wakes |-> 0],
         [use |-> "words", bodies |-> <<>>, wakes |-> 0],
         [use |-> "tasks", bodies |-> <<Client(1, 9), Server(9)>>, wakes |-> 0],
         [use |-> "tasks", bodies |-> <<Server(9), Client(1, 9)>>, wakes |-> 2],
         [use |-> "tasks", bodies |-> <<Worker(5, 3), Worker(5, 9)>>, wakes |-> 0],
         [use |-> "tasks", bodies |-> <<Worker(3, 2), Client(1, 1), Worker(2, 1), Server(1)>>, wakes |-> 2],
         [use |-> "tasks", bodies |-> <<Client(1, 9), Client(0, 9), Server(9)>>, wakes |-> 2]}
        \cup setup4
=============================================================================
