------------------------------- MODULE MCAuth -------------------------------
(* Small instances of Auth. *)
EXTENDS AuthInv, TLC

CONSTANTS u1, u2, e1, e2, e3

MCSeedEmail == [u \in Seeded |-> IF u = u1 THEN e1 ELSE e2]

Slots == Permutations(RequestId) \cup Permutations(SessionId)
SlotsAndUsers == Slots \cup Permutations(User)
=============================================================================
