----------------------------- MODULE Resolution -----------------------------
(***************************************************************************)
(* The pure part of server/groups.go: which groups a machine belongs to    *)
(* and which modules that gives it.  A module list is a function from      *)
(* module names to specs (a version with its configuration), NoSpec where  *)
(* the name is absent; labels are a function from keys to values in which  *)
(* NoLabel stands for Go's "" of a missing key.                            *)
(***************************************************************************)
EXTENDS Naturals, FiniteSets

CONSTANTS
    Names,     \* module names
    Specs,     \* what a list may hold for a name: version and configuration
    NoSpec,    \* the name is not in the list
    Keys,      \* label keys
    Values,    \* label values
    NoLabel,   \* the value of a label that is not set
    Anything        \* a selector says nothing about the key

ASSUME ResolutionAssumption ==
    /\ NoSpec \notin Specs
    /\ NoLabel \notin Values
    /\ Anything \notin Values \cup {NoLabel}

ModuleLists == [Names -> Specs \cup {NoSpec}]
LabelSets == [Keys -> Values \cup {NoLabel}]
Selectors == [Keys -> Values \cup {NoLabel, Anything}]

\* An empty selector matches nothing.
selectorMatches(selector, labels) ==
    /\ \E k \in Keys : selector[k] # Anything
    /\ \A k \in Keys : selector[k] \in {Anything, labels[k]}

\* The groups a machine with these labels takes modules from: match-all,
\* explicit membership or the selector.  members is the set of ids of groups
\* that list it.
Memberships(groups, members, labels) ==
    {g \in DOMAIN groups : \/ groups[g].all
                           \/ g \in members
                           \/ selectorMatches(groups[g].selector, labels)}

\* The orders sort.Slice may leave the groups in: by name, and anyhow among
\* groups of one name (the sort is not stable and neither is the list).
Orders(groups) ==
    {o \in [DOMAIN groups -> 1..Cardinality(DOMAIN groups)] :
        \A g, h \in DOMAIN groups :
            /\ g # h => o[g] # o[h]
            /\ groups[g].name < groups[h].name => o[g] < o[h]}

\* Groups in order, later ones win; then the override wins.
computeModules(override, labels, groups, members, order) ==
    [n \in Names |->
        LET providers == {g \in Memberships(groups, members, labels) :
                              groups[g].modules[n] # NoSpec}
        IN  IF override[n] # NoSpec THEN override[n]
            ELSE IF providers = {} THEN NoSpec
            ELSE LET last == CHOOSE g \in providers :
                                \A h \in providers : order[h] <= order[g]
                 IN  groups[last].modules[n]]
==============================================================================
