--------------------------- MODULE DesiredRegister ---------------------------
(***************************************************************************)
(* What the control plane promises an agent about its desired state,       *)
(* without streams, signals or connections: every machine has a register   *)
(* that is overwritten from time to time, the agent observes values the    *)
(* register really held, and it never observes an older one after a newer  *)
(* one.  It may skip values: only the latest matters to a reconciler.      *)
(*                                                                         *)
(* The register may lose values, but only the last ones, and only those    *)
(* that are not durable yet: it then holds the last durable value again,   *)
(* which an agent that has observed a lost one observes after it.          *)
(***************************************************************************)
EXTENDS Naturals, Sequences

CONSTANTS
    Machines,   \* machine ids
    Modules,    \* the module lists a desired state may carry
    Gone        \* what the register holds once the machine is deleted

VARIABLES
    saved,      \* saved[m]: every value the register of m has held, in order
    durable,    \* durable[m]: position in saved[m] of the last value that cannot be lost
    seen        \* seen[m]: position in saved[m] of the agent's last observation (0: none)

vars == <<saved, durable, seen>>

Init ==
    /\ \E first \in [Machines -> Modules] : saved = [m \in Machines |-> <<first[m]>>]
    /\ durable = [m \in Machines |-> 1]
    /\ seen = [m \in Machines |-> 0]

Settle == durable' = [m \in Machines |-> Len(saved'[m])]

\* The register of m takes a new value, which is durable or not; when it is, so
\* are the other registers.
Overwrite(m) ==
    /\ \E v \in Modules \cup {Gone} : saved' = [saved EXCEPT ![m] = Append(@, v)]
    /\ Settle \/ UNCHANGED durable
    /\ UNCHANGED seen

Persist ==
    /\ UNCHANGED <<saved, seen>>
    /\ Settle

\* What is not durable is lost.
Lose ==
    /\ saved' = [m \in Machines |->
                     IF durable[m] = Len(saved[m]) THEN saved[m]
                     ELSE Append(saved[m], saved[m][durable[m]])]
    /\ Settle
    /\ UNCHANGED seen

\* The agent observes a value no older than the last one it observed.
Observe(m) ==
    /\ \E i \in 1..Len(saved[m]) :
          /\ i >= seen[m]
          /\ saved[m][i] # Gone
          /\ seen' = [seen EXCEPT ![m] = i]
    /\ UNCHANGED <<saved, durable>>

Next ==
    \/ \E m \in Machines : Overwrite(m) \/ Observe(m)
    \/ Persist \/ Lose

Spec == Init /\ [][Next]_vars
==============================================================================
