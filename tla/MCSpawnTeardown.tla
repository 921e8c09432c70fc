-------------------------- MODULE MCSpawnTeardown --------------------------
(* The catalog that admits a spawn, and the teardown of what was spawned,    *)
(* for TLC.  They share no state, so a behaviour is about one of them:       *)
(* focus says which, and the other stays at rest.                            *)
EXTENDS MCTeardown, TemplateCatalog

CONSTANTS k1, k2, o1

VARIABLE focus

mcVars == <<focus, catalogVars, deletionVars>>

\* A type that may spawn both, one level down, and one that spawns the first
\* without a limit.
Deep == [children |-> {k1, k2}, consent |-> {k2}, maxDepth |-> 2]
Wide == [children |-> {k1}, consent |-> {}, maxDepth |-> 0]
MCBody == {[status |-> "active", policy |-> Wide],
           [status |-> "disabled", policy |-> NoPolicy]}
EmptyCatalog == [k \in AgentType |-> NoTemplate]
SeededCatalog == k1 :> [org |-> Global, status |-> "active", policy |-> Deep]
                 @@ k2 :> [org |-> o1, status |-> "active", policy |-> Deep]

MCInit ==
  /\ DeletionInit
  /\ \/ focus = "teardown" /\ CatalogInit(EmptyCatalog, 0, 0)
     \/ focus = "catalog"
          /\ \/ CatalogInit(EmptyCatalog, 3, 0)
             \/ CatalogInit(SeededCatalog, 2, 0)
             \/ CatalogInit(SeededCatalog, 0, 4)
             \/ CatalogInit(SeededCatalog, 1, 2)

MCNext ==
  \/ focus = "teardown" /\ DeletionNext /\ UNCHANGED <<focus, catalogVars>>
  \/ focus = "catalog" /\ CatalogNext
       /\ UNCHANGED <<focus, deletionVars>>

MCSpec == MCInit /\ [][MCNext]_mcVars

MCView == <<focus, catalogVars, View>>
============================================================================
