------------------------------ MODULE MCSampling ------------------------------
(***************************************************************************)
(* Constants for model checking Sampling: programs of the three kinds that *)
(* a sample treats differently.                                            *)
(***************************************************************************)
EXTENDS Sampling, TLC

\* A k3s server that has executed itself, a database and an idle large program.
MCPrograms == {[comm |-> "exe", argv |-> << <<"k3s", "server">> >>],
               [comm |-> "postgres", argv |-> << <<"other">> >>],
               [comm |-> "other", argv |-> << <<"other">> >>]}

MCRSS == [g \in MCPrograms |-> IF g.comm = "other" THEN 2 ELSE 1]

\* Bound: the host has things of one kind at a time, and its log directory changes
\* where that kind is pods.  The readings of one kind do not depend on those of
\* another.
OneKind ==
    \/ present \subseteq Pods
    \/ readable /\ \E kind \in {Procs, Ifaces} : present \subseteq kind
================================================================================
