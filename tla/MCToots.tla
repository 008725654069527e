------------------------------ MODULE MCToots ------------------------------
(* Toots with one or two users, each with one agent. *)
EXTENDS Toots, TLC

CONSTANTS p1, p2, t1, t2, f1, f2, o1, o2, alice, bob

MCNameOf == [p \in Agents |-> IF p = p2 THEN bob ELSE alice]

AllFaults == FaultKinds
NoFaults  == {}

(* Threads, files and addresses are interchangeable. *)
Sym == Permutations({t1, t2}) \cup Permutations({f1, f2}) \cup Permutations({o1, o2})
=============================================================================
