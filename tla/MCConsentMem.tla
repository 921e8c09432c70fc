---------------------------- MODULE MCConsentMem ----------------------------
(* Two edges, so that a sweep must stay on its own; on e1 one agent asks for *)
(* one scope and a caller without an agent id asks for both.                 *)
EXTENDS ConsentMem, TLC

CONSTANTS e1, e2, a1, a2, s1, s2, c1, c2, r1, r2, r3

MCAsks == {[edge |-> e1, agent |-> a1, scopes |-> {s1}],
           [edge |-> e1, agent |-> NoAgent, scopes |-> {s1, s2}],
           [edge |-> e2, agent |-> a2, scopes |-> {s1}]}
MCNarrowed == {{s1}}

Symmetry == Permutations(Call) \cup Permutations(ReqId)
=============================================================================
