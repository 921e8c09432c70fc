-------------------------- MODULE MCOrganizations --------------------------
(* Instance of Organizations for TLC.                                        *)
EXTENDS Organizations, TLC

CONSTANTS o1, o2

Mix(ops, orgs, requests, faults) ==
  [ops |-> ops, orgs |-> orgs, requests |-> requests, faults |-> faults]

\* Requests of one behaviour come from one of these mixes: the longer ones
\* without faults, the faulty ones of two requests.
MCMixes ==
  { Mix({"disable", "enable", "remove"}, {o1}, 3, 0),
    Mix({"disable", "enable", "add", "remove"}, {o1}, 2, 1),
    Mix({"disable", "enable"}, {o1, o2}, 3, 0),
    Mix({"disable", "enable", "ban", "unban", "profile"}, {o1}, 3, 0),
    Mix({"create", "signup", "delete"}, {o1, o2}, 2, 0),
    Mix({"create", "signup", "delete"}, {o1}, 2, 1),
    Mix({"create", "delete"}, {o1}, 2, 2),
    Mix({"add", "delete"}, {o1}, 2, 2),
    Mix({"disable", "create"} \cup RewriteOp, {o1}, 2, 0),
    Mix({"disable"} \cup RewriteOp, {o1}, 3, 0),
    Mix({"remove", "add", "spawn"}, {o1}, 3, 0),
    Mix({"remove", "role"}, {o1}, 3, 0),
    Mix({"remove", "role", "add", "spawn"}, {o1}, 2, 1),
    Mix({"deleteUser", "add", "disable", "spawn"}, {o1, o2}, 2, 0),
    Mix({"deleteUser", "add", "disable", "spawn"}, {o1}, 2, 1) }

Sym == Permutations(Client) \cup Permutations(Account)
============================================================================
