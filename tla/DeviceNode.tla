----------------------------- MODULE DeviceNode -----------------------------
(***************************************************************************)
(* What users see of the module: the nodes /dev/crmna_<name>.  Each agent  *)
(* has at most one node in its life, two agents of one user never at the   *)
(* same time, and a node that is seen can be opened until it goes.  It     *)
(* only goes while its agent lives: what an agent leaves behind stays.     *)
(***************************************************************************)
CONSTANTS
    Agents,  \* agent processes
    NameOf   \* NameOf[p]: the name of p's node

VARIABLES
    node,    \* node[p]: "none" yet, "shown", "served" to users, or "gone"
    living   \* the agents that have not ended

nodeVars == <<node, living>>

Visible(p) == node[p] \in {"shown", "served"}

Becomes(p, s) == node' = [node EXCEPT ![p] = s] /\ UNCHANGED living

Show(p) ==
    /\ node[p] = "none"
    /\ \A q \in Agents : NameOf[q] = NameOf[p] => ~Visible(q)
    /\ Becomes(p, "shown")

Serve(p) == node[p] = "shown" /\ Becomes(p, "served")

Remove(p) == Visible(p) /\ Becomes(p, "gone")

Refuse(p) == node[p] = "none" /\ Becomes(p, "gone")

(* An agent never ends between the two steps to a node that can be opened. *)
End(p) ==
    /\ node[p] # "shown"
    /\ living' = living \ {p}
    /\ node' = IF node[p] = "none" THEN [node EXCEPT ![p] = "gone"] ELSE node

Init == node = [p \in Agents |-> "none"] /\ living = Agents

Next == \E p \in living : Show(p) \/ Serve(p) \/ Remove(p) \/ Refuse(p) \/ End(p)

Spec == Init /\ [][Next]_nodeVars
=============================================================================
