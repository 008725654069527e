----------------------------- MODULE MCPosting -----------------------------
(* One user with one agent. *)
EXTENDS Posting, TLC

CONSTANTS p1, t1, t2, f1, f2, o1, o2, alice, bob

MCNameOf == [p \in Agents |-> alice]
NoFaults == {}

(* A new toot's memory was zeroed, or full. *)
MCAnyCount == {0, 3}

Sym == Permutations({t1, t2}) \cup Permutations({o1, o2})
=============================================================================
