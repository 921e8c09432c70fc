---------------------- MODULE MCConsentDynamoReprompt -----------------------
(* One edge with two agents whose children ask for different scopes, and a   *)
(* caller that does not name its agent: three open keys, so requests both    *)
(* dedupe on a key and are swept across keys.                                *)
EXTENDS ConsentDynamoReprompt, TLC

CONSTANTS e1, a1, a2, s1, s2, c1, c2, r1, r2, r3

MCAsks == {[edge |-> e1, agent |-> a1, scopes |-> {s1}],
           [edge |-> e1, agent |-> NoAgent, scopes |-> {s1, s2}]}
MCNarrowed == {{s1}}

Symmetry == Permutations(Call) \cup Permutations(ReqId)
=============================================================================
