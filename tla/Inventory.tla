------------------------------- MODULE Inventory -------------------------------
(***************************************************************************)
(* What the agent makes of the programs that run on its host: the server   *)
(* software that the inventory names (agent/inventory.go) and the label of *)
(* a process in the metrics report (agent/procsample.go).  Both read       *)
(* /proc/<pid>, at different times and with code of their own.             *)
(*                                                                         *)
(* A program is what /proc shows of it: comm, and the arguments of cmdline *)
(* with each argument as the sequence of its words.  A service is its      *)
(* canonical name; None is the empty string.                               *)
(***************************************************************************)
EXTENDS Naturals, Sequences, SequencesExt

None == "none"

\* Some of the table: names that differ from their comm and names that do
\* not, and the Kubernetes entries that detectKubernetes looks for.
knownServices == [postgres       |-> "postgresql",
                  kubelet        |-> "kubelet",
                  kube_apiserver |-> "kube-apiserver",
                  k3s            |-> "k3s"]

Known(comm) == comm \in DOMAIN knownServices

\* Arguments are split on NUL and blanks alike, since k3s rewrites its title to
\* the one argument "k3s server".  The first subcommand decides.
k3sRoleFromCmdline(argv) ==
    LET fields == FlattenSeq(argv)
        roles  == SelectSeq(SubSeq(fields, 2, Len(fields)), LAMBDA w : w \in {"server", "agent"})
    IN  IF fields = << >> \/ fields[1] # "k3s" THEN None
        ELSE IF roles = << >> THEN "k3s"
        ELSE IF roles[1] = "server" THEN "k3s-server" ELSE "k3s-agent"

\* comm says nothing of a k3s that has executed itself.
k3sRole(program) ==
    IF program.comm \in {"k3s", "exe"} THEN k3sRoleFromCmdline(program.argv) ELSE None

\* The services found in one walk over /proc.
scanProcs(programs) ==
    LET k3s == {p \in programs : k3sRole(p) # None}
    IN  {k3sRole(p) : p \in k3s}
            \cup {knownServices[p.comm] : p \in {p \in programs \ k3s : Known(p.comm)}}

\* (faulty) processes are labelled by their comm alone.
Service_commOnly(program) ==
    IF Known(program.comm) THEN knownServices[program.comm] ELSE None

\* The label of a sampled process: by comm, which the role of a k3s overrides.
Service(program) ==
    IF k3sRole(program) # None THEN k3sRole(program)
    ELSE IF Known(program.comm) THEN knownServices[program.comm]
    ELSE None

\* The host's role in a cluster: the first of these services decides.
detectKubernetes(services) ==
    IF "k3s-server" \in services THEN "k3s-server"
    ELSE IF "k3s-agent" \in services THEN "k3s-agent"
    ELSE IF "k3s" \in services THEN "k3s"
    ELSE IF "kube-apiserver" \in services THEN "control-plane"
    ELSE IF "kubelet" \in services THEN "worker"
    ELSE None
================================================================================
