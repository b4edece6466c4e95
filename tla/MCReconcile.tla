----------------------------- MODULE MCReconcile -----------------------------
(***************************************************************************)
(* Constants for model checking Reconcile.                                 *)
(***************************************************************************)
EXTENDS Reconcile

\* Modules of different names or versions.
OwnDir == [k \in Keys |-> k]

\* One module with different configurations.
SharedDir == [k \in Keys |-> "module"]

AnyDesired == SUBSET Keys

\* A desired state holds a module name once.
OneAtMost == {{}} \cup {{k} : k \in Keys}
==============================================================================
