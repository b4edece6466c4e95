--------------------------- MODULE MCControlPlane ---------------------------
(***************************************************************************)
(* Constants for model checking ControlPlane: the groups an operator may   *)
(* write, over one module name and one label key.                          *)
(***************************************************************************)
EXTENDS ControlPlane, TLC

CONSTANTS v1, v2, x, pkg

Select(value) == [k \in Keys |-> value]
List(spec) == [n \in Names |-> spec]
Shape(name, all, selector, spec) ==
    [name |-> name, all |-> all, selector |-> Select(selector), modules |-> List(spec)]

\* The built-in "all" group with and without a module, a group by selector
\* and one of explicit members.
MCShapes == {Shape(1, TRUE, Anything, NoSpec), Shape(2, FALSE, x, v1), Shape(3, FALSE, Anything, v2)}

\* Bound: requests that do not overlap are explored further, and with failing
\* calls; status reports matter to those that do.
Explored == IF overlapped THEN requests <= MaxRequests - 1 /\ failures = 0 ELSE reports = 0

\* Requests and machines are interchangeable.
Interchangeable == Permutations(Admins) \cup Permutations(Machines)
==============================================================================
