------------------------------ MODULE MCIndexers ------------------------------
(* A small instance of Indexers: the staking service has two events, the others one. *)
EXTENDS IndexersInv, TLC

MCNumEvents == [staking |-> 2, unstaking |-> 1, reward |-> 1]
MCBlock == [staking |-> <<0, 1>>, unstaking |-> <<1>>, reward |-> <<0>>]
MCTx == [staking |-> <<1, 2>>, unstaking |-> <<1>>, reward |-> <<2>>]
MCValid == [staking |-> {1, 2}, unstaking |-> {1}, reward |-> {1}]

Slots == Permutations(TickId) \cup Permutations(JobId) \cup Permutations(RowId)
=============================================================================
